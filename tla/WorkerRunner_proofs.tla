------------------------ MODULE WorkerRunner_proofs ------------------------
(***************************************************************************)
(* Theorems about WorkerRunner: its runs, calls and requests keep their    *)
(* types, and a fleet of worker processes does to the queue only what      *)
(* JobQueue allows, so every theorem about JobQueue holds of it.  A run's  *)
(* own reports are refused only when its lease is gone, and a completed    *)
(* job has a file: both from RunnerInv, by which neither the queue nor a   *)
(* request on its way is ever ahead of the run it came from.               *)
(***************************************************************************)
EXTENDS WorkerRunner, JobQueue_proofs, SequenceTheorems

USE QueueAssumption, RunnerAssumption DEF QueueAssumption, RunnerAssumption

(***************************************************************************)
(* Runs and calls.                                                         *)
(***************************************************************************)
\* A run that is idle or has a lease.
Leased(r) == r.phase # "idle" => r.lease \in Grant

\* An idle run has its types.
LEMMA IdleRun == Idle \in Run /\ Leased(Idle)
  BY DEF Idle, Run, Leased

\* The first report of a run, a later one, a keepalive or an outcome: a run
\* with a lease makes a call on either line.
LEMMA CallsType ==
    ASSUME RunnerTypeOK, NEW w \in Workers, NEW r \in Run, r.lease \in Grant,
           NEW line \in Lines, NEW kind \in Kinds, Calls(w, r, line, kind),
           object' \in [Jobs -> Nat]
    PROVE  RunnerTypeOK'
<1> DEFINE m == Request(r, line, kind)
           c == [msg |-> m, reply |-> "none"]
           q == [r EXCEPT ![line] = c]
<1>1. m \in Message
  <2>1. 1 \in 1..Tries /\ r.at \in 1..Len(Stages)
    BY DEF Run
  <2> QED
    BY <2>1 DEF Request, Message
<1>2. c \in Call
  BY <1>1 DEF Call
<1>3. q \in Run /\ q.lease = r.lease
  <2>1. CASE line = "fore"
    BY <1>2, <2>1 DEF Run
  <2>2. CASE line = "keep"
    BY <1>2, <2>2 DEF Run
  <2> QED
    BY <2>1, <2>2 DEF Lines
<1>4. run' = [run EXCEPT ![w] = q] /\ wire' = wire \cup {m}
  BY DEF Calls
<1> HIDE DEF q, m
<1> QED
  BY <1>1, <1>3, <1>4 DEF RunnerTypeOK

\* A run that changes keeps its type.
LEMMA BecomesType ==
    ASSUME RunnerTypeOK, NEW w \in Workers, NEW r \in Run, Leased(r), Becomes(w, r),
           object' = object
    PROVE  RunnerTypeOK'
  BY DEF Becomes, RunnerTypeOK, Leased

\* A run goes on from a call as a run.
LEMMA ProceedsType ==
    ASSUME NEW r \in Run, Leased(r)
    PROVE  Proceeds(r) \in Run /\ Leased(Proceeds(r))
<1>1. CASE r.phase = "starting"
  BY <1>1 DEF Proceeds, Run, Leased
<1>2. CASE r.phase = "rendering"
  BY <1>2 DEF Proceeds, Run, Leased
<1>3. CASE r.phase # "starting" /\ r.phase # "rendering"
  BY <1>3, IdleRun DEF Proceeds
<1> QED
  BY <1>1, <1>2, <1>3

\* A reply keeps the type of the calls.
LEMMA RepliedType ==
    ASSUME RunnerTypeOK, NEW m \in Message, NEW reply \in {"accepted", "refused"}
    PROVE  /\ Replied(m, reply) \in [Workers -> Run]
           /\ \A w \in Workers : Leased(Replied(m, reply)[w])
<1> DEFINE w == m.lease.worker
           r == run[w]
<1>1. w \in Workers /\ r \in Run /\ Leased(r) /\ m.line \in Lines
  BY DEF Message, Grant, RunnerTypeOK, Leased
<1>2. CASE r[m.line] # Nobody
  <2> DEFINE c == [r[m.line] EXCEPT !.reply = reply]
             q == [r EXCEPT ![m.line] = c]
  <2>1. r[m.line] \in Call
    BY <1>1, <1>2 DEF Lines, Run
  <2>2. c \in Call
    BY <2>1 DEF Call
  <2>3. q \in Run /\ Leased(q)
    <3>1. CASE m.line = "fore"
      BY <1>1, <2>2, <3>1 DEF Run, Leased
    <3>2. CASE m.line = "keep"
      BY <1>1, <2>2, <3>2 DEF Run, Leased
    <3> QED
      BY <1>1, <3>1, <3>2 DEF Lines
  <2>4. Replied(m, reply) \in {run, [run EXCEPT ![w] = q]}
    BY DEF Replied
  <2> HIDE DEF q
  <2> QED
    BY <1>1, <2>3, <2>4 DEF RunnerTypeOK, Leased
<1>3. CASE r[m.line] = Nobody
  BY <1>3 DEF Replied, RunnerTypeOK, Leased
<1> QED
  BY <1>2, <1>3

(***************************************************************************)
(* Types.                                                                  *)
(***************************************************************************)
LEMMA RunnerInitType == RunnerInit => RunnerTypeOK
  BY IdleRun DEF RunnerInit, RunnerTypeOK, Leased, NoToken

\* Steps that leave the runs, the wire and the objects alone.
LEMMA RunnersUnchanged == RunnerTypeOK /\ UNCHANGED runnerVars => RunnerTypeOK'
  BY DEF runnerVars, RunnerTypeOK

\* Types are inductive.
LEMMA RunnerNextType == TypeOK /\ RunnerTypeOK /\ [RunnerNext]_systemVars => RunnerTypeOK'
<1> SUFFICES ASSUME TypeOK, RunnerTypeOK, [RunnerNext]_systemVars PROVE RunnerTypeOK'
  OBVIOUS
<1>0. /\ \A w \in Workers : run[w] \in Run /\ Leased(run[w])
      /\ wire \subseteq Message /\ object \in [Jobs -> Nat]
  BY DEF RunnerTypeOK, Leased
<1>1. CASE QueueStep
  BY <1>1, RunnersUnchanged DEF QueueStep
<1>2. ASSUME NEW m \in wire, Handle(m) PROVE RunnerTypeOK'
  <2>1. \E reply \in {"accepted", "refused"} : run' = Replied(m, reply)
    BY <1>2 DEF Handle
  <2>2. wire' = wire \ {m} /\ object' = object
    BY <1>2 DEF Handle
  <2>3. m \in Message
    BY <1>0
  <2> QED
    BY <1>0, <2>1, <2>2, <2>3, RepliedType DEF RunnerTypeOK, Leased
<1>3. ASSUME NEW m \in wire, Lose(m) PROVE RunnerTypeOK'
  BY <1>3 DEF Lose, RunnerTypeOK
<1>4. ASSUME NEW w \in Workers, Start(w) PROVE RunnerTypeOK'
  <2> DEFINE r == [Idle EXCEPT !.phase = "starting", !.lease = Claimed(w)]
  <2>1. Claimed(w) \in Grant
    BY <1>4 DEF Start, ClaimCommit, Claimed, TypeOK, Locked, Grant
  <2>0. 1 \in 1..Len(Stages)
    OBVIOUS
  <2>2. r \in Run /\ r.lease \in Grant
    BY <2>0, <2>1 DEF Idle, Run
  <2>3. Calls(w, r, "fore", "progress") /\ object' \in [Jobs -> Nat]
    BY <1>0, <1>4 DEF Start
  <2> HIDE DEF r
  <2> QED
    BY <2>2, <2>3, CallsType DEF Lines, Kinds
<1>5. ASSUME NEW w \in Workers, StartUnheard(w) PROVE RunnerTypeOK'
  BY <1>5, RunnersUnchanged DEF StartUnheard
<1>6. ASSUME NEW w \in Workers, NEW line \in Lines, Resend(w, line) PROVE RunnerTypeOK'
  <2> DEFINE m == run[w][line].msg
             n == [m EXCEPT !.try = @ + 1]
             c == [msg |-> n, reply |-> "none"]
             q == [run[w] EXCEPT ![line] = c]
  <2>1. run[w][line] \in Call
    BY <1>0, <1>6 DEF Resend, Lines, Run
  <2>0. m \in Message /\ m.try < Tries
    BY <1>6, <2>1 DEF Resend, Call
  <2>b. m.try \in 1..Tries
    BY <2>0 DEF Message
  <2>a. m.try + 1 \in 1..Tries
    <3>1. \A t \in 1..Tries : t < Tries => t + 1 \in 1..Tries
      OBVIOUS
    <3> HIDE DEF m
    <3> QED
      BY <2>0, <2>b, <3>1
  <2>2. n \in Message
    BY <2>0, <2>a DEF Message
  <2>3. c \in Call
    BY <2>2 DEF Call
  <2>4. q \in Run /\ Leased(q)
    <3>1. CASE line = "fore"
      BY ZenonT(40), <1>0, <2>3, <3>1 DEF Run, Leased
    <3>2. CASE line = "keep"
      BY ZenonT(40), <1>0, <2>3, <3>2 DEF Run, Leased
    <3> QED
      BY <3>1, <3>2 DEF Lines
  <2>5. run' = [run EXCEPT ![w] = q] /\ wire' = wire \cup {n} /\ object' = object
    BY <1>6 DEF Resend
  <2> HIDE DEF q, n
  <2> QED
    BY <1>0, <2>2, <2>4, <2>5 DEF RunnerTypeOK, Leased
<1>7. ASSUME NEW w \in Workers, ForeHeard(w) \/ ForeUnheard(w) PROVE RunnerTypeOK'
  <2>1. Becomes(w, Idle) \/ Becomes(w, Proceeds(run[w]))
    BY <1>7 DEF ForeHeard, ForeUnheard
  <2>2. object' = object
    BY <1>7 DEF ForeHeard, ForeUnheard
  <2> QED
    BY <1>0, <2>1, <2>2, IdleRun, ProceedsType, BecomesType
<1>8. ASSUME NEW w \in Workers, Tick(w) PROVE RunnerTypeOK'
  <2>1. Calls(w, run[w], "keep", "progress") /\ object' = object
    BY <1>8 DEF Tick
  <2>2. run[w].lease \in Grant
    BY <1>0, <1>8 DEF Tick, Leased
  <2> QED
    BY <1>0, <2>1, <2>2, CallsType DEF Lines, Kinds
<1>9. ASSUME NEW w \in Workers, KeepHeard(w) \/ KeepUnheard(w) PROVE RunnerTypeOK'
  <2>1. \E r \in Run : Leased(r) /\ Becomes(w, r)
    <3>1. CASE KeepHeard(w)
      <4> DEFINE r == [run[w] EXCEPT !.keep = Nobody,
                                     !.lost = run[w].keep.reply = "refused"]
      <4>1. r \in Run /\ Leased(r)
        BY ZenonT(40), <1>0 DEF Run, Leased
      <4>2. Becomes(w, r)
        BY <3>1 DEF KeepHeard
      <4> QED
        BY <4>1, <4>2
    <3>2. CASE KeepUnheard(w)
      <4>1. KeptUnheard(run[w]) \in Run /\ Leased(KeptUnheard(run[w]))
        BY <1>0 DEF KeptUnheard, Run, Leased
      <4> QED
        BY <3>2, <4>1 DEF KeepUnheard
    <3> QED
      BY <1>9, <3>1, <3>2
  <2>2. object' = object
    BY <1>9 DEF KeepHeard, KeepUnheard
  <2> QED
    BY <2>1, <2>2, BecomesType
<1>10. ASSUME NEW w \in Workers, Stage(w) PROVE RunnerTypeOK'
  <2>1. /\ [run[w] EXCEPT !.phase = "rendering"] \in Run
        /\ Leased([run[w] EXCEPT !.phase = "rendering"])
    BY ZenonT(40), <1>0, <1>10 DEF Stage, Resting, Run, Leased
  <2> QED
    BY <1>10, <2>1, BecomesType DEF Stage
<1>11. ASSUME NEW w \in Workers, Report(w) PROVE RunnerTypeOK'
  <2>1. PICK at \in NextStages(run[w]) :
          Calls(w, [run[w] EXCEPT !.at = at], "fore", "progress")
    BY <1>11 DEF Report
  <2> DEFINE r == [run[w] EXCEPT !.at = at]
  <2>2. at \in 1..Len(Stages)
    BY <1>0 DEF NextStages, Run
  <2>3. r \in Run /\ r.lease \in Grant
    BY ZenonT(40), <1>0, <1>11, <2>2 DEF Report, Resting, Run, Leased
  <2>4. object' = object
    BY <1>11 DEF Report
  <2> HIDE DEF r
  <2> QED
    BY <1>0, <2>1, <2>3, <2>4, CallsType DEF r, Lines, Kinds
<1>12. ASSUME NEW w \in Workers, Checkpoint(w) \/ Crash(w) PROVE RunnerTypeOK'
  BY <1>12, IdleRun, BecomesType DEF Checkpoint, Crash
<1>13. ASSUME NEW w \in Workers, Finish(w) PROVE RunnerTypeOK'
  <2> DEFINE r == [run[w] EXCEPT !.phase = "uploading", !.keep = Nobody]
  <2>1. r \in Run /\ Leased(r)
    BY ZenonT(40), <1>0, <1>13 DEF Finish, Resting, Run, Leased
  <2>2. (Becomes(w, Idle) \/ Becomes(w, r)) /\ object' = object
    BY <1>13 DEF Finish
  <2> HIDE DEF r
  <2> QED
    BY <2>1, <2>2, IdleRun, BecomesType
<1>14. ASSUME NEW w \in Workers, Upload(w) PROVE RunnerTypeOK'
  <2> DEFINE r == [run[w] EXCEPT !.phase = "completing"]
  <2>1. run[w].lease \in Grant
    BY <1>0, <1>14 DEF Upload, Resting, Leased
  <2>2. r \in Run /\ r.lease \in Grant
    BY <1>0, <2>1 DEF Run
  <2>3. object' \in [Jobs -> Nat]
    BY <1>0, <1>14, <2>1 DEF Upload, Grant
  <2>4. Calls(w, r, "fore", "complete")
    BY <1>14 DEF Upload
  <2> HIDE DEF r
  <2> QED
    BY <2>2, <2>3, <2>4, CallsType DEF Lines, Kinds
<1>15. ASSUME NEW w \in Workers, Break(w) \/ TimeOut(w) PROVE RunnerTypeOK'
  <2> DEFINE r == [run[w] EXCEPT !.phase = "failing", !.keep = Nobody]
  <2>1. PICK kind \in {"retry", "giveup"} : Calls(w, r, "fore", kind)
    BY <1>15 DEF Break, TimeOut
  <2>2. run[w].lease \in Grant
    BY <1>0, <1>15 DEF Break, TimeOut, Resting, Leased
  <2>3. r \in Run /\ r.lease \in Grant
    BY <1>0, <2>2 DEF Run
  <2>4. object' \in [Jobs -> Nat]
    BY <1>0, <1>15 DEF Break, TimeOut, RunnerTypeOK
  <2>5. kind \in Kinds /\ "fore" \in Lines
    BY <2>1 DEF Kinds, Lines
  <2> HIDE DEF r
  <2> QED
    BY <2>1, <2>3, <2>4, <2>5, <1>0, CallsType
<1>16. CASE UNCHANGED systemVars
  BY <1>16, RunnersUnchanged DEF systemVars, runnerVars
<1> QED
  BY <1>1, <1>2, <1>3, <1>4, <1>5, <1>6, <1>7, <1>8, <1>9, <1>10, <1>11, <1>12, <1>13,
     <1>14, <1>15, <1>16 DEF RunnerNext

(***************************************************************************)
(* The workers use the queue as JobQueue says.                             *)
(***************************************************************************)
\* A report the API accepts names a lease it has handed out.
LEMMA AuthorizedIsGranted ==
    ASSUME TypeOK, LeaseInv, NEW g \in Grant, Authorized(g)
    PROVE  g \in grants
<1>1. g.job \in Jobs /\ g.worker \in Workers /\ g.token \in Nat
  BY DEF Grant
<1>2. job[g.job].worker = g.worker /\ job[g.job].token = g.token
  BY DEF Authorized
<1>3. job[g.job].status \in Status \ Terminal
  BY <1>1 DEF Authorized, Live, IsTerminal, TypeOK, Row
<1>4. job[g.job].status # "queued"
  BY <1>1, <1>2 DEF LeaseInv, LeaseFollowsStatus
<1>5. job[g.job].status \in Working
  BY <1>3, <1>4 DEF Status
<1>6. [job |-> g.job, worker |-> g.worker, token |-> g.token] \in grants
  BY <1>1, <1>2, <1>5 DEF LeaseInv, LeaseFollowsStatus
<1>7. g = [job |-> g.job, worker |-> g.worker, token |-> g.token]
  BY DEF Grant
<1> QED
  BY <1>6, <1>7

\* A request the API accepts is a report of JobQueue.
LEMMA AcceptedIsReported ==
    ASSUME TypeOK, LeaseInv, NEW m \in Message, Accepts(m)
    PROVE  Next
<1>1. m.lease \in Grant /\ m.at \in 1..Len(Stages)
  BY DEF Message
<1>2. Authorized(m.lease)
  BY DEF Accepts, Progress, Complete, Fail
<1>3. m.lease \in grants
  BY <1>1, <1>2, AuthorizedIsGranted
<1>4. Stages[m.at].status \in Reported /\ Stages[m.at].progress \in 0..Full
  <2>1. Stages[m.at] \in [status : Reported, progress : 0..Full]
    BY <1>1, ElementOfSeq
  <2> QED
    BY <2>1
<1>5. CASE Progress(m.lease, Stages[m.at].status, Stages[m.at].progress)
  BY <1>3, <1>4, <1>5 DEF Next
<1>6. CASE Complete(m.lease)
  BY <1>3, <1>6 DEF Next
<1>7. CASE Fail(m.lease, m.kind = "retry")
  <2>1. (m.kind = "retry") \in BOOLEAN
    OBVIOUS
  <2> QED
    BY <1>3, <1>7, <2>1 DEF Next
<1> QED
  BY <1>5, <1>6, <1>7 DEF Accepts

\* Every step of the fleet is a step of the queue, or none.
LEMMA RunnerStepIsQueueStep ==
    TypeOK /\ LeaseInv /\ RunnerTypeOK /\ [RunnerNext]_systemVars => [Next]_vars
<1> SUFFICES ASSUME TypeOK, LeaseInv, RunnerTypeOK, [RunnerNext]_systemVars
             PROVE  [Next]_vars
  OBVIOUS
<1>1. CASE QueueStep
  BY <1>1 DEF QueueStep, Next
<1>2. ASSUME NEW m \in wire, Handle(m) PROVE [Next]_vars
  <2>1. m \in Message
    BY DEF RunnerTypeOK
  <2> QED
    BY <1>2, <2>1, AcceptedIsReported DEF Handle
<1>3. ASSUME NEW w \in Workers, Start(w) \/ StartUnheard(w) PROVE [Next]_vars
  BY <1>3 DEF Start, StartUnheard, Next
<1>4. ASSUME NEW m \in wire, Lose(m) PROVE UNCHANGED vars
  BY <1>4 DEF Lose
<1>5. ASSUME NEW w \in Workers,
             \/ ForeHeard(w) \/ ForeUnheard(w) \/ \E line \in Lines : Resend(w, line)
             \/ Tick(w) \/ KeepHeard(w) \/ KeepUnheard(w)
             \/ Stage(w) \/ Report(w) \/ Checkpoint(w) \/ Finish(w) \/ Upload(w)
             \/ Break(w) \/ TimeOut(w) \/ Crash(w)
      PROVE  UNCHANGED vars
  BY <1>5 DEF ForeHeard, ForeUnheard, Resend, Tick, KeepHeard, KeepUnheard, Stage, Report,
     Checkpoint, Finish, Upload, Break, TimeOut, Crash
<1>6. CASE UNCHANGED systemVars
  BY <1>6 DEF systemVars, vars
<1> QED
  BY <1>1, <1>2, <1>3, <1>4, <1>5, <1>6 DEF RunnerNext

\* What a run, a request and a stored object can be, for every fleet, every
\* sequence of stages and every number of tries.
THEOREM RunnerTypeCorrect == RunnerSpec => []RunnerTypeOK
<1> DEFINE IInv == TypeOK /\ LeaseInv /\ RunnerTypeOK
<1>1. RunnerInit => IInv
  BY InitType, InitLease, RunnerInitType DEF RunnerInit
<1>2. IInv /\ [RunnerNext]_systemVars => IInv'
  BY NextType, NextLease, RunnerNextType, RunnerStepIsQueueStep
<1> QED
  BY <1>1, <1>2, PTL DEF RunnerSpec

\* Worker processes, with the retries, late requests, keepalives and crashes of
\* WorkerRunner, take the queue through behaviours of JobQueue only: whatever
\* holds of JobQueue holds of the fleet.
THEOREM WorkersImplementQueue == RunnerSpec => Spec
<1> DEFINE IInv == TypeOK /\ LeaseInv /\ RunnerTypeOK
<1>1. RunnerInit => IInv /\ Init
  BY InitType, InitLease, RunnerInitType DEF RunnerInit
<1>2. IInv /\ [RunnerNext]_systemVars => IInv' /\ [Next]_vars
  BY NextType, NextLease, RunnerNextType, RunnerStepIsQueueStep
<1> QED
  BY <1>1, <1>2, PTL DEF RunnerSpec, Spec

(***************************************************************************)
(* What a step of the queue does to the leases workers hold.  A row is     *)
(* quiet when the step gives it no output and leaves every lease drawn     *)
(* before as it was or takes it away.                                      *)
(***************************************************************************)
QuietRow(j) ==
    \/ /\ job'[j].status = job[j].status
       /\ job'[j].worker = job[j].worker
       /\ job'[j].token = job[j].token
    \/ job'[j].token = NoToken /\ job'[j].status # "completed"
    \/ job'[j].status \in {"failed", "cancelled"}
    \/ job'[j].token = issued[j] + 1 /\ job'[j].status # "completed"

\* A lease over a quiet row is held after the step only if it was before, in
\* the same status.
LEMMA QuietLease ==
    ASSUME TypeOK, NEW g \in Grant, Drawn(g), QuietRow(g.job), Holds(g)'
    PROVE  Holds(g) /\ job'[g.job].status = job[g.job].status
<1>0. g.job \in Jobs /\ issued[g.job] \in Nat
  BY DEF Grant, TypeOK
<1>1. g.token \in Nat \ {0} /\ g.token <= issued[g.job]
  BY <1>0 DEF Drawn
<1>2. /\ job'[g.job].token = g.token
      /\ job'[g.job].worker = g.worker
      /\ job'[g.job].status # Absent /\ ~IsTerminal(job'[g.job].status)
  BY DEF Holds, Live
<1>3. job'[g.job].token # NoToken /\ job'[g.job].token # issued[g.job] + 1
  BY <1>0, <1>1, <1>2 DEF NoToken
<1>4. job'[g.job].status \notin {"failed", "cancelled"}
  BY <1>2 DEF IsTerminal, Terminal
<1> QED
  BY <1>2, <1>3, <1>4 DEF QuietRow, Holds, Live

\* Tokens are never taken back.
LEMMA DrawnStays ==
    ASSUME TypeOK, [Next]_vars, NEW g \in Grant, Drawn(g)
    PROVE  Drawn(g)'
<1>1. \A j \in Jobs : issued'[j] \in Nat /\ issued'[j] >= issued[j]
  <2>1. issued \in [Jobs -> Nat]
    BY DEF TypeOK
  <2>2. ASSUME NEW w \in Workers, ClaimCommit(w), NEW j \in Jobs
        PROVE  issued'[j] \in Nat /\ issued'[j] >= issued[j]
    <3>1. issued' = [issued EXCEPT ![claiming[w].job] = issued[claiming[w].job] + 1]
      BY <2>2 DEF ClaimCommit
    <3>2. issued[j] \in Nat
      BY <2>1
    <3>3. issued'[j] = issued[j] \/ issued'[j] = issued[j] + 1
      BY <2>1, <3>1
    <3> QED
      BY <3>2, <3>3
  <2>3. CASE issued' = issued
    BY <2>1, <2>3
  <2>4. issued' = issued \/ \E w \in Workers : ClaimCommit(w)
    BY DEF Next, vars, Submit, LeaseExpires, ClaimLock, ClaimRollback, Progress, Complete,
       Fail, Reap, CancelLoad, CancelCommit, CancelRollback
  <2> QED
    BY <2>2, <2>3, <2>4
<1>2. g.job \in Jobs /\ g.token \in Nat /\ issued[g.job] \in Nat
  BY DEF Grant, TypeOK
<1>3. issued'[g.job] \in Nat /\ issued'[g.job] >= issued[g.job]
  BY <1>1, <1>2
<1> QED
  BY <1>2, <1>3 DEF Drawn

\* Every row a step of the queue's own, or a claim, touches is quiet.
LEMMA QueueIsQuiet ==
    ASSUME TypeOK, LeaseInv, QueueStep \/ \E w \in Workers : ClaimCommit(w), NEW k \in Jobs
    PROVE  QuietRow(k)
<1>0. job[k] \in Row
  BY DEF TypeOK
<1>1. ASSUME NEW j \in Jobs, Submit(j) PROVE QuietRow(k)
  <2> DEFINE row == [NoRow EXCEPT !.status = "queued"]
  <2>1. row \in Row /\ row.status = "queued" /\ row.token = NoToken /\ WriteLogged(j, row)
    BY <1>1, NoRowType DEF Submit, NoRow
  <2> HIDE DEF row
  <2>2. CASE k = j
    BY <2>1, <2>2, WriteLoggedEffect DEF QuietRow
  <2>3. CASE k # j
    BY <2>1, <2>3, WriteLoggedEffect DEF QuietRow
  <2> QED
    BY <2>2, <2>3
<1>2. ASSUME NEW j \in Jobs, LeaseExpires(j) PROVE QuietRow(k)
  BY <1>0, <1>2 DEF LeaseExpires, QuietRow, TypeOK, Row
<1>3. ASSUME NEW w \in Workers, ClaimLock(w) \/ ClaimRollback(w) PROVE QuietRow(k)
  BY <1>3 DEF ClaimLock, ClaimRollback, QuietRow
<1>4. ASSUME NEW w \in Workers, ClaimCommit(w) PROVE QuietRow(k)
  <2> DEFINE j == claiming[w].job
  <2>1. j \in Jobs
    BY <1>4 DEF ClaimCommit, TypeOK, Locked
  <2>2. CASE k = j
    <3>1. job'[k].token = issued[k] + 1 /\ job'[k].status = "assigned"
      BY <1>0, <1>4, <2>2 DEF ClaimCommit, TypeOK, Row
    <3> QED
      BY <3>1 DEF QuietRow
  <2>3. CASE k # j
    BY <1>4, <2>3 DEF ClaimCommit, TypeOK, QuietRow
  <2> QED
    BY <2>2, <2>3
<1>5. CASE Reap
  <2>1. PICK batch \in SUBSET Expired : job' = [j \in Jobs |-> Reaped(j, batch)]
    BY <1>5 DEF Reap
  <2>2. job'[k] \in {GivenUp(job[k]), Requeued(job[k]), job[k]}
    BY <2>1 DEF Reaped
  <2> QED
    BY <1>0, <2>2, RowFields DEF QuietRow
<1>6. ASSUME NEW r \in Requests, CancelCommit(r) PROVE QuietRow(k)
  <2>1. k = cancel[r].job => job'[k].status = "cancelled"
    BY <1>0, <1>6 DEF CancelCommit, Cancelled, TypeOK, Row
  <2>2. k # cancel[r].job => job'[k] = job[k]
    BY <1>6 DEF CancelCommit, TypeOK
  <2> QED
    BY <2>1, <2>2 DEF QuietRow
<1>7. ASSUME NEW r \in Requests, CancelRollback(r) \/ \E j \in Jobs : CancelLoad(r, j)
      PROVE  QuietRow(k)
  BY <1>7 DEF CancelRollback, CancelLoad, QuietRow
<1> QED
  BY <1>1, <1>2, <1>3, <1>4, <1>5, <1>6, <1>7 DEF QueueStep

\* A logged write leaves the other rows quiet.
LEMMA LoggedRow ==
    ASSUME TypeOK, NEW j \in Jobs, NEW row \in Row, WriteLogged(j, row), NEW k \in Jobs
    PROVE  /\ k # j => QuietRow(k)
           /\ k = j => /\ job'[k].status = row.status
                       /\ job'[k].worker = row.worker
                       /\ job'[k].token = row.token
<1>1. k # j => job'[k] = job[k]
  <2>1. \A i \in Jobs \ {j} : job'[i] = job[i]
    BY WriteLoggedEffect
  <2> QED
    BY <2>1
<1>2. job'[j].status = row.status /\ job'[j].worker = row.worker /\ job'[j].token = row.token
  BY WriteLoggedEffect
<1> QED
  BY <1>1, <1>2 DEF QuietRow

\* An accepted report moves one row: quietly, to the reported status, or to
\* its completion.
LEMMA AcceptedMoves ==
    ASSUME TypeOK, LeaseInv, NEW m \in Message, Accepts(m), NEW k \in Jobs
    PROVE  \/ QuietRow(k)
           \/ /\ k = m.lease.job /\ m.kind = "progress"
              /\ job'[k].status = Stages[m.at].status
              /\ job'[k].worker = m.lease.worker
              /\ job'[k].token = m.lease.token
           \/ k = m.lease.job /\ m.kind = "complete" /\ job'[k].status = "completed"
<1> DEFINE j == m.lease.job
<1>1. j \in Jobs /\ m.lease \in Grant
  BY DEF Message, Grant
<1>2. Authorized(m.lease)
  BY DEF Accepts, Progress, Complete, Fail
<1>3. m.lease \in grants
  BY <1>1, <1>2, AuthorizedIsGranted
<1>4. job[j] \in Row /\ job[j].worker = m.lease.worker /\ job[j].token = m.lease.token
  BY <1>1, <1>2 DEF TypeOK, Authorized
<1>5. Stages[m.at].status \in Reported /\ Stages[m.at].progress \in 0..Full
  <2>1. m.at \in 1..Len(Stages)
    BY DEF Message
  <2>2. Stages[m.at] \in [status : Reported, progress : 0..Full]
    BY <2>1, ElementOfSeq
  <2> QED
    BY <2>2
<1>6. CASE m.kind = "progress"
  <2> DEFINE row == Advanced(job[j], Stages[m.at].status, Stages[m.at].progress)
  <2>1. WriteLogged(j, row)
    BY <1>6 DEF Accepts, Progress
  <2>2. row \in Row
    BY <1>4, <1>5, RowTypes
  <2>3. /\ row.status = Stages[m.at].status
        /\ row.worker = m.lease.worker /\ row.token = m.lease.token
    BY <1>4 DEF Advanced, Row
  <2> HIDE DEF row
  <2> QED
    BY <1>1, <1>6, <2>1, <2>2, <2>3, LoggedRow
<1>7. CASE m.kind = "complete"
  <2> DEFINE row == [Unleased(job[j]) EXCEPT !.status = "completed", !.progress = Full]
  <2>1. WriteLogged(j, row)
    BY <1>7 DEF Accepts, Complete
  <2>2. row \in Row /\ row.status = "completed"
    <3>1. Unleased(job[j]) \in Row
      BY <1>4, RowTypes
    <3>2. "completed" \in Status /\ Full \in 0..Full
      BY DEF Status, Terminal
    <3> QED
      BY <3>1, <3>2 DEF Row
  <2> HIDE DEF row
  <2> QED
    BY <1>1, <1>7, <2>1, <2>2, LoggedRow
<1>8. CASE m.kind \in {"retry", "giveup"}
  <2>1. PICK row \in {Requeued(job[j]), GivenUp(job[j])} : WriteLogged(j, row)
    BY <1>8 DEF Accepts, Fail
  <2>2. row \in Row
    BY <1>4, <2>1, RowTypes
  <2>3. (row.token = NoToken /\ row.status = "queued") \/ row.status = "failed"
    BY <1>4, <2>1, RowFields
  <2> QED
    <3>1. k # j => QuietRow(k)
      BY <1>1, <2>1, <2>2, LoggedRow
    <3>2. job'[j].status = row.status /\ job'[j].token = row.token
      <4>1. j \in Jobs
        BY <1>1
      <4> HIDE DEF j
      <4> QED
        BY ZenonT(40), <2>1, <2>2, <4>1, WriteLoggedEffect
    <3>3. CASE k = j
      BY <2>3, <3>2, <3>3 DEF QuietRow
    <3> QED
      BY <3>1, <3>3
<1> QED
  BY <1>6, <1>7, <1>8 DEF Message, Kinds

\* A lease held after an accepted report was held before, and its job is in
\* the status it had or in the one reported under this very lease.
LEMMA AcceptedLease ==
    ASSUME TypeOK, LeaseInv, NEW m \in Message, Accepts(m),
           NEW g \in Grant, Drawn(g), Holds(g)'
    PROVE  /\ Holds(g)
           /\ \/ job'[g.job].status = job[g.job].status
              \/ m.lease = g /\ job'[g.job].status = Stages[m.at].status
<1>1. g.job \in Jobs /\ m.lease \in Grant
  BY DEF Grant, Message
<1>2. CASE QuietRow(g.job)
  BY <1>2, QuietLease
<1>3. CASE /\ g.job = m.lease.job
           /\ job'[g.job].status = Stages[m.at].status
           /\ job'[g.job].worker = m.lease.worker
           /\ job'[g.job].token = m.lease.token
  <2>1. g.job = m.lease.job /\ g.worker = m.lease.worker /\ g.token = m.lease.token
    BY <1>3 DEF Holds
  <2>2. g = m.lease
    <3>1. PICK h \in Grant : h = m.lease
      BY <1>1
    <3> QED
      BY <2>1, <3>1 DEF Grant
  <2>3. Authorized(m.lease)
    BY DEF Accepts, Progress, Complete, Fail
  <2> QED
    BY <1>3, <2>2, <2>3 DEF Authorized, Holds
<1>4. CASE job'[g.job].status = "completed"
  BY <1>4 DEF Holds, Live, IsTerminal, Terminal
<1> QED
  BY <1>1, <1>2, <1>3, <1>4, AcceptedMoves

(***************************************************************************)
(* Leases, once lost, stay lost.                                           *)
(***************************************************************************)
\* A step of the fleet leaves the queue alone, is a step of the queue's own or
\* a claim, or has one request accepted.
LEMMA RunnerStepCases ==
    ASSUME RunnerNext
    PROVE  \/ UNCHANGED vars
           \/ QueueStep \/ \E w \in Workers : ClaimCommit(w)
           \/ \E m \in wire : Handle(m) /\ Accepts(m)
  BY DEF RunnerNext, Handle, Lose, Start, StartUnheard, ForeHeard, ForeUnheard, Resend,
     Tick, KeepHeard, KeepUnheard, Stage, Report, Checkpoint, Finish, Upload, Break,
     TimeOut, Crash

\* A lease that was handed out and is gone never comes back: no retry, no reap
\* and no later claim makes an old token good again.
LEMMA LostForGood ==
    ASSUME TypeOK, LeaseInv, RunnerTypeOK, [RunnerNext]_systemVars,
           NEW g \in Grant, Drawn(g), Holds(g)'
    PROVE  Holds(g)
<1>0. g.job \in Jobs
  BY DEF Grant
<1>1. CASE UNCHANGED vars
  BY <1>1 DEF vars, Holds, Live
<1>2. CASE QueueStep \/ \E w \in Workers : ClaimCommit(w)
  BY <1>0, <1>2, QueueIsQuiet, QuietLease
<1>3. ASSUME NEW m \in wire, Accepts(m) PROVE Holds(g)
  <2>1. m \in Message
    BY DEF RunnerTypeOK
  <2> QED
    BY <1>3, <2>1, AcceptedLease
<1>4. CASE UNCHANGED systemVars
  BY <1>4 DEF systemVars, Holds, Live
<1> QED
  BY <1>1, <1>2, <1>3, <1>4, RunnerStepCases

(***************************************************************************)
(* Sound runs.                                                             *)
(***************************************************************************)
\* The status of a job moves under a lease only to what a request of the run
\* that holds it says, which is no further than the run.
LEMMA JobStaysBehind ==
    ASSUME TypeOK, LeaseInv, RunnerTypeOK, [RunnerNext]_systemVars,
           NEW q \in Run, q.lease \in Grant, Drawn(q.lease), NothingIsAhead(q),
           Holds(q.lease)'
    PROVE  Rank(job'[q.lease.job].status) <= Rank(Stages[q.at].status)
<1> DEFINE j == q.lease.job
<1>1. j \in Jobs
  BY DEF Grant
<1>2. Holds(q.lease)
  BY LostForGood
<1>3. Rank(job[j].status) <= Rank(Stages[q.at].status)
  BY <1>2 DEF NothingIsAhead
<1>4. CASE job'[j].status = job[j].status
  BY <1>3, <1>4
<1>5. CASE UNCHANGED vars \/ UNCHANGED systemVars
  <2>1. job' = job
    BY <1>5 DEF vars, systemVars
  <2> QED
    BY <1>4, <2>1
<1>6. CASE QueueStep \/ \E w \in Workers : ClaimCommit(w)
  BY <1>1, <1>4, <1>6, QueueIsQuiet, QuietLease
<1>7. ASSUME NEW m \in wire, Accepts(m) PROVE Rank(job'[j].status) <= Rank(Stages[q.at].status)
  <2>1. m \in Message
    BY DEF RunnerTypeOK
  <2>2. CASE m.lease = q.lease /\ job'[j].status = Stages[m.at].status
    <3>1. m.at <= q.at
      BY <2>2 DEF NothingIsAhead
    <3>2. m.at \in 1..Len(Stages) /\ q.at \in 1..Len(Stages)
      BY <2>1 DEF Message, Run
    <3>3. Rank(Stages[m.at].status) <= Rank(Stages[q.at].status)
      BY <3>1, <3>2
    <3> QED
      BY <2>2, <3>3
  <2> QED
    BY <1>4, <1>7, <2>1, <2>2, AcceptedLease
<1> QED
  BY <1>5, <1>6, <1>7, RunnerStepCases

\* A run that does not change stays sound.
LEMMA SoundStays ==
    ASSUME TypeOK, LeaseInv, RunnerTypeOK, [RunnerNext]_systemVars,
           \A j \in Jobs : object[j] # NoToken => object'[j] # NoToken,
           NEW v \in Workers, NEW q \in Run, Leased(q), SoundRun(v, q),
           q.phase # "idle" =>
              \A m \in wire' : m.lease = q.lease => m \in wire \/ m.at <= q.at
    PROVE  SoundRun(v, q)'
<1>1. CASE q = Idle
  BY <1>1 DEF SoundRun
<1>2. CASE q # Idle
  <2>1. /\ q.phase # "idle" /\ q.lease.worker = v /\ Drawn(q.lease) /\ NothingIsAhead(q)
        /\ \A line \in Lines : SoundCall(q, line)
        /\ q.fore # Nobody /\ q.fore.reply = "refused" => ~Holds(q.lease)
    BY <1>2 DEF SoundRun
  <2>2. q.lease \in Grant
    BY <2>1 DEF Leased
  <2>3. Drawn(q.lease)'
    BY <2>1, <2>2, DrawnStays, RunnerStepIsQueueStep
  <2>4. Holds(q.lease)' => Holds(q.lease)
    BY <2>1, <2>2, LostForGood
  <2>5. NothingIsAhead(q)'
    <3>1. Holds(q.lease)' => Rank(job'[q.lease.job].status) <= Rank(Stages[q.at].status)
      BY <2>1, <2>2, JobStaysBehind
    <3> QED
      BY <2>1, <3>1 DEF NothingIsAhead
  <2>6. ASSUME NEW line \in Lines PROVE SoundCall(q, line)'
    <3>1. SUFFICES ASSUME q[line] # Nobody PROVE SoundCall(q, line)'
      BY DEF SoundCall
    <3>2. q[line].msg.lease = q.lease /\ SoundRequest(q[line].msg)
      BY <2>1, <3>1 DEF SoundCall
    <3>3. q.lease.job \in Jobs
      BY <2>2 DEF Grant
    <3>4. SoundRequest(q[line].msg)'
      BY <2>3, <3>2, <3>3 DEF SoundRequest, Drawn
    <3> QED
      BY <2>1, <3>4 DEF SoundCall
  <2> QED
    BY <2>1, <2>3, <2>4, <2>5, <2>6 DEF SoundRun
<1> QED
  BY <1>1, <1>2

\* Runs that are sound one by one are sound together.
LEMMA SoundTogether ==
    ASSUME \A v \in Workers : \E q \in Run : run'[v] = q /\ SoundRun(v, q)'
    PROVE  \A v \in Workers : SoundRun(v, run[v])'
<1> SUFFICES ASSUME NEW v \in Workers PROVE SoundRun(v, run[v])'
  OBVIOUS
<1>1. PICK q \in Run : run'[v] = q /\ SoundRun(v, q)'
  OBVIOUS
<1> QED
  BY <1>1 DEF SoundRun, NothingIsAhead, SoundCall, SoundRequest, Holds, Live, Drawn

\* A stored object stays stored.
LEMMA ObjectsStay ==
    ASSUME RunnerTypeOK, RunnerInv, [RunnerNext]_systemVars, TypeOK,
           NEW j \in Jobs, object[j] # NoToken
    PROVE  object'[j] # NoToken
<1>1. ASSUME NEW w \in Workers, Upload(w) PROVE object'[j] # NoToken
  <2>1. run[w] # Idle /\ run[w].lease \in Grant
    BY <1>1 DEF Upload, Resting, Idle, RunnerTypeOK
  <2>2. Drawn(run[w].lease)
    BY <2>1 DEF RunnerInv, SoundRun
  <2>3. issued[run[w].lease.job] \in Nat
    BY <2>1 DEF TypeOK, Grant
  <2>4. run[w].lease.token # NoToken
    BY <2>2, <2>3 DEF Drawn, NoToken
  <2>5. object' = [object EXCEPT ![run[w].lease.job] = run[w].lease.token]
    BY <1>1 DEF Upload
  <2> QED
    BY <2>4, <2>5 DEF RunnerTypeOK
<1>2. object' = object \/ \E w \in Workers : Upload(w)
  BY DEF RunnerNext, systemVars, runnerVars, QueueStep, Handle, Lose, Start, StartUnheard,
     ForeHeard, ForeUnheard, Resend, Tick, KeepHeard, KeepUnheard, Stage, Report, Checkpoint,
     Finish, Break, TimeOut, Crash
<1> QED
  BY <1>1, <1>2

\* A job completes only by a completion on the wire.
LEMMA CompletedBy ==
    ASSUME TypeOK, LeaseInv, RunnerTypeOK, [RunnerNext]_systemVars,
           NEW j \in Jobs, job'[j].status = "completed"
    PROVE  \/ job[j].status = "completed"
           \/ \E m \in wire : m.kind = "complete" /\ m.lease.job = j
<1>1. CASE UNCHANGED vars \/ UNCHANGED systemVars
  <2>1. job' = job
    BY <1>1 DEF vars, systemVars
  <2> QED
    BY <2>1
<1>2. CASE QueueStep \/ \E w \in Workers : ClaimCommit(w)
  BY <1>2, QueueIsQuiet DEF QuietRow
<1>3. ASSUME NEW m \in wire, Accepts(m)
      PROVE  job[j].status = "completed" \/ (m.kind = "complete" /\ m.lease.job = j)
  <2>1. m \in Message
    BY DEF RunnerTypeOK
  <2>2. CASE m.kind = "progress" /\ job'[j].status = Stages[m.at].status
    <3>1. m.at \in 1..Len(Stages)
      BY <2>1 DEF Message
    <3>2. Stages[m.at] \in [status : Reported, progress : 0..Full]
      BY <3>1, ElementOfSeq
    <3>3. Stages[m.at].status \in Working
      BY <3>2
    <3> QED
      BY <2>2, <3>3 DEF Working
  <2> QED
    BY <1>3, <2>1, <2>2, AcceptedMoves DEF QuietRow
<1> QED
  BY <1>1, <1>2, <1>3, RunnerStepCases

\* What a step has to show: that it leaves each run as it was, with no new
\* request of that worker, or sound, and sends only sound requests.
LEMMA RunnerFrame ==
    ASSUME TypeOK, LeaseInv, RunnerTypeOK, RunnerInv, [RunnerNext]_systemVars,
           \A m \in wire' : m \in wire \/ SoundRequest(m)',
           \A v \in Workers :
              \/ run'[v] = run[v] /\ \A m \in wire' : m \in wire \/ m.lease.worker # v
              \/ \E q \in Run : run'[v] = q /\ SoundRun(v, q)'
    PROVE  RunnerInv'
<1>1. \A j \in Jobs : object[j] # NoToken => object'[j] # NoToken
  BY ObjectsStay
<1>2. \A v \in Workers : SoundRun(v, run[v])'
  <2>1. ASSUME NEW v \in Workers,
               run'[v] = run[v], \A m \in wire' : m \in wire \/ m.lease.worker # v
        PROVE  \E q \in Run : run'[v] = q /\ SoundRun(v, q)'
    <3>1. PICK q \in Run : q = run[v] /\ Leased(q) /\ SoundRun(v, q)
      BY DEF RunnerTypeOK, RunnerInv, Leased
    <3>2. q.phase # "idle" => q.lease.worker = v
      BY <3>1 DEF SoundRun, Idle
    <3>3. SoundRun(v, q)'
      BY <1>1, <2>1, <3>1, <3>2, SoundStays
    <3> QED
      BY <2>1, <3>1, <3>3
  <2> QED
    BY <2>1, SoundTogether
<1>3. ASSUME NEW m \in wire PROVE SoundRequest(m)'
  <2>1. SoundRequest(m) /\ m.lease \in Grant /\ m.lease.job \in Jobs
    BY DEF RunnerInv, RunnerTypeOK, Message, Grant
  <2>2. Drawn(m.lease)'
    BY <2>1, DrawnStays, RunnerStepIsQueueStep DEF SoundRequest
  <2> QED
    BY <1>1, <2>1, <2>2 DEF SoundRequest
<1>4. CompletedHasObject'
  <2>1. ASSUME NEW j \in Jobs, job'[j].status = "completed" PROVE object'[j] # NoToken
    BY <1>1, <2>1, CompletedBy DEF RunnerInv, CompletedHasObject, SoundRequest
  <2> QED
    BY <2>1 DEF CompletedHasObject
<1> QED
  BY <1>2, <1>3, <1>4 DEF RunnerInv

\* Ranks order the working statuses strictly: from a live status no further
\* on, a working status is a legal move.
LEMMA RanksAreMoves ==
    ASSUME NEW s \in Status, ~IsTerminal(s), NEW t \in Working, Rank(s) <= Rank(t)
    PROVE  CanTransition(s, t)
  BY DEF Status, IsTerminal, Working, Rank, CanTransition

\* A run that goes on without a new request.
LEMMA BecomesSound ==
    ASSUME TypeOK, LeaseInv, RunnerTypeOK, RunnerInv, [RunnerNext]_systemVars,
           NEW w \in Workers, NEW r \in Run, Leased(r), SoundRun(w, r), Becomes(w, r)
    PROVE  RunnerInv'
<1>1. wire' = wire /\ run' = [run EXCEPT ![w] = r]
  BY DEF Becomes
<1>2. SoundRun(w, r)'
  BY <1>1, ObjectsStay, SoundStays
<1>3. run'[w] = r /\ \A v \in Workers : v # w => run'[v] = run[v]
  BY <1>1 DEF RunnerTypeOK
<1> QED
  BY <1>1, <1>2, <1>3, RunnerFrame

\* A run that sends a request.
LEMMA CallsSound ==
    ASSUME TypeOK, LeaseInv, RunnerTypeOK, RunnerInv, [RunnerNext]_systemVars,
           NEW w \in Workers, NEW r \in Run, r.phase # "idle", r.lease \in Grant,
           NEW line \in Lines, NEW kind \in Kinds, Calls(w, r, line, kind), SoundRun(w, r)',
           kind = "complete" => object'[r.lease.job] # NoToken
    PROVE  RunnerInv'
<1> DEFINE m == Request(r, line, kind)
           c == [msg |-> m, reply |-> "none"]
           q == [r EXCEPT ![line] = c]
<1>1. wire' = wire \cup {m} /\ run' = [run EXCEPT ![w] = q]
  BY DEF Calls
<1>2. m \in Message /\ m.line = line /\ m.kind = kind /\ m.lease = r.lease /\ m.at = r.at
  BY DEF Request, Run, Message
<1>3. r # Idle
  BY DEF Idle
<1>4. r.lease.worker = w /\ Drawn(r.lease)'
  BY <1>3 DEF SoundRun
<1>5. SoundRequest(m)'
  BY <1>2, <1>4 DEF SoundRequest, Drawn
<1>6. c.msg = m /\ c.reply = "none" /\ c \in Call
  BY <1>2 DEF Call
<1> HIDE DEF c, m
<1>7. /\ q \in Run /\ q.phase = r.phase /\ q.lease = r.lease /\ q.at = r.at
      /\ q[line] = c /\ \A l \in Lines : l # line => q[l] = r[l]
  <2>1. CASE line = "fore"
    BY <1>6, <2>1 DEF Run, Lines
  <2>2. CASE line = "keep"
    BY <1>6, <2>2 DEF Run, Lines
  <2> QED
    BY <2>1, <2>2 DEF Lines
<1> HIDE DEF q
<1>8. SoundRun(w, q)'
  <2>1. \A l \in Lines : SoundCall(q, l)'
    <3>1. \A l \in Lines : SoundCall(r, l)'
      BY <1>3 DEF SoundRun
    <3>2. r.at <= r.at
      BY DEF Run
    <3>3. SoundCall(q, line)'
      BY <1>2, <1>5, <1>6, <1>7, <3>2 DEF SoundCall, SoundRequest, Drawn
    <3> QED
      BY <1>7, <3>1, <3>3 DEF SoundCall, SoundRequest, Drawn
  <2>2. NothingIsAhead(q)'
    BY <1>3, <1>7 DEF SoundRun, NothingIsAhead, Holds, Live
  <2>3. q.fore.reply = "refused" => q.fore = r.fore
    BY <1>6, <1>7 DEF Lines
  <2> QED
    BY <1>3, <1>4, <1>7, <2>1, <2>2, <2>3 DEF SoundRun, Drawn, Holds, Live
<1>9. run'[w] = q /\ \A v \in Workers : v # w => run'[v] = run[v]
  BY <1>1 DEF RunnerTypeOK
<1>10. m.lease.worker = w
  BY <1>2, <1>4
<1> QED
  BY <1>1, <1>5, <1>7, <1>8, <1>9, <1>10, RunnerFrame

\* Between two calls only the phase, the lost flag and the calls in hand change.
LEMMA SoundVariant ==
    ASSUME NEW w \in Workers, NEW r \in Run, r.phase # "idle", SoundRun(w, r),
           NEW q \in Run, q.phase # "idle", q.lease = r.lease, q.at = r.at,
           q.fore \in {r.fore, Nobody}, q.keep \in {r.keep, Nobody}
    PROVE  SoundRun(w, q)
<1>1. r # Idle
  BY DEF Idle
<1>2. /\ r.lease.worker = w /\ Drawn(r.lease) /\ NothingIsAhead(r)
      /\ SoundCall(r, "fore") /\ SoundCall(r, "keep")
      /\ r.fore # Nobody /\ r.fore.reply = "refused" => ~Holds(r.lease)
  BY <1>1 DEF SoundRun, Lines
<1>3. NothingIsAhead(q)
  BY <1>2 DEF NothingIsAhead
<1>4. SoundCall(q, "fore") /\ SoundCall(q, "keep")
  BY <1>2 DEF SoundCall
<1> QED
  BY <1>2, <1>3, <1>4 DEF SoundRun, Lines

\* A run with a further stage in hand, once its report is answered, is sound.
LEMMA SoundAdvance ==
    ASSUME RunnerTypeOK,
           NEW w \in Workers, NEW r \in Run, r.phase # "idle", SoundRun(w, r),
           r.fore = Nobody, NEW at \in r.at..Len(Stages),
           NEW q \in Run, q = [r EXCEPT !.at = at]
    PROVE  SoundRun(w, q)
<1>1. r # Idle
  BY DEF Idle
<1>2. /\ r.lease.worker = w /\ Drawn(r.lease) /\ NothingIsAhead(r) /\ SoundCall(r, "keep")
      /\ r.fore # Nobody /\ r.fore.reply = "refused" => ~Holds(r.lease)
  BY <1>1 DEF SoundRun, Lines
<1>3. /\ q.phase = r.phase /\ q.lease = r.lease /\ q.at = at
      /\ q.fore = r.fore /\ q.keep = r.keep
  BY DEF Run
<1>4. r.at \in 1..Len(Stages) /\ at \in 1..Len(Stages) /\ r.at <= at
  BY DEF Run
<1>5. r.keep # Nobody => r.keep.msg.at \in Nat
  BY DEF Run, Call, Message
<1>6. NothingIsAhead(q)
  <2>1. Rank(Stages[r.at].status) <= Rank(Stages[at].status)
    BY <1>4
  <2>2. \A i, j, k \in Nat : i <= j /\ j <= k => i <= k
    OBVIOUS
  <2>3. /\ Rank(Stages[r.at].status) \in Nat /\ Rank(Stages[at].status) \in Nat
        /\ Rank(job[r.lease.job].status) \in Nat
    BY DEF Rank
  <2>4. Holds(q.lease) => Rank(job[q.lease.job].status) <= Rank(Stages[q.at].status)
    BY <1>2, <1>3, <2>1, <2>2, <2>3 DEF NothingIsAhead
  <2>5. ASSUME NEW m \in wire, m.lease = q.lease PROVE m.at <= q.at
    <3>1. m.at \in Nat
      BY DEF RunnerTypeOK, Message
    <3>2. m.at <= r.at
      BY <1>2, <1>3, <2>5 DEF NothingIsAhead
    <3> QED
      BY <1>3, <1>4, <2>2, <3>1, <3>2
  <2> QED
    BY <2>4, <2>5 DEF NothingIsAhead
<1>7. SoundCall(q, "keep")
  BY <1>2, <1>3, <1>4, <1>5 DEF SoundCall
<1>8. SoundCall(q, "fore")
  BY <1>3 DEF SoundCall
<1> QED
  BY <1>2, <1>3, <1>6, <1>7, <1>8 DEF SoundRun, Lines

LEMMA RunnerInitInv == RunnerInit => RunnerInv
  BY DEF RunnerInit, Init, RunnerInv, SoundRun, CompletedHasObject, NoRow, Absent

\* A request is handled: the caller, if it still waits, learns what became of
\* the report.  A refusal means the lease is gone, because a report of what the
\* run has reached is a legal move while it is held.
LEMMA HandleSound ==
    ASSUME TypeOK, LeaseInv, RunnerTypeOK, RunnerInv, [RunnerNext]_systemVars,
           NEW m \in wire, Handle(m)
    PROVE  RunnerInv'
<1> DEFINE w == m.lease.worker
<1>1. m \in Message /\ w \in Workers /\ m.line \in Lines /\ m.lease \in Grant
  BY DEF RunnerTypeOK, Message, Grant
<1>2. wire' = wire \ {m} /\ wire' \subseteq wire
  BY DEF Handle
<1>3. CASE run' = run
  BY <1>2, <1>3, RunnerFrame
<1>4. CASE run' # run
  <2>0. PICK r \in Run : r = run[w]
    BY <1>1 DEF RunnerTypeOK
  <2>1. PICK reply \in {"accepted", "refused"} :
           /\ run' = Replied(m, reply)
           /\ reply = "refused" => UNCHANGED vars /\ ~Acceptable(m)
    BY DEF Handle
  <2> DEFINE c == [r[m.line] EXCEPT !.reply = reply]
             q == [r EXCEPT ![m.line] = c]
  <2>2. r[m.line] # Nobody /\ r[m.line].msg = m /\ run' = [run EXCEPT ![w] = q]
    BY <1>4, <2>0, <2>1 DEF Replied
  <2>3. r \in Run /\ Leased(r) /\ SoundRun(w, r)
    BY <1>1, <2>0 DEF RunnerTypeOK, RunnerInv, Leased
  <2>4. r # Idle /\ r.phase # "idle"
    <3>1. r # Idle
      BY <1>1, <2>2 DEF Idle, Lines
    <3> QED
      BY <2>3, <3>1 DEF SoundRun
  <2>5. SoundRun(w, r)'
    <3>1. \A j \in Jobs : object[j] # NoToken => object'[j] # NoToken
      BY ObjectsStay
    <3> QED
      BY <1>1, <1>2, <2>3, <3>1, SoundStays
  <2>6. r[m.line] \in Call
    BY <1>1, <2>2, <2>3 DEF Run, Lines
  <2>7. c \in Call /\ c.msg = m /\ c.reply = reply
    BY <2>2, <2>6 DEF Call
  <2> HIDE DEF c
  <2>8. /\ q \in Run /\ q.phase = r.phase /\ q.lease = r.lease /\ q.at = r.at
        /\ q[m.line] = c /\ \A l \in Lines : l # m.line => q[l] = r[l]
    <3>1. CASE m.line = "fore"
      BY <2>3, <2>7, <3>1 DEF Run, Lines
    <3>2. CASE m.line = "keep"
      BY <2>3, <2>7, <3>2 DEF Run, Lines
    <3> QED
      BY <1>1, <3>1, <3>2 DEF Lines
  <2>9. run'[w] = q /\ \A v \in Workers : v # w => run'[v] = run[v]
    BY <1>1, <2>2 DEF RunnerTypeOK
  <2> HIDE DEF q
  <2>10. m.line = "fore" /\ reply = "refused" => ~Holds(r.lease)
    <3> SUFFICES ASSUME m.line = "fore", reply = "refused", Holds(r.lease) PROVE FALSE
      OBVIOUS
    <3>1. m.lease = r.lease /\ m.at = r.at /\ NothingIsAhead(r)
      BY <2>2, <2>3, <2>4 DEF SoundRun, SoundCall, Lines
    <3>2. m.kind = "progress" /\ ~CanTransition(job[m.lease.job].status, Stages[m.at].status)
      BY <2>1, <3>1 DEF Acceptable
    <3>3. Rank(job[m.lease.job].status) <= Rank(Stages[m.at].status)
      BY <3>1 DEF NothingIsAhead
    <3>4. Stages[m.at].status \in Working
      <4>1. m.at \in 1..Len(Stages)
        BY <1>1 DEF Message
      <4>2. Stages[m.at] \in [status : Reported, progress : 0..Full]
        BY <4>1, ElementOfSeq
      <4> QED
        BY <4>2
    <3>5. job[m.lease.job].status \in Status /\ ~IsTerminal(job[m.lease.job].status)
      BY <1>1, <3>1 DEF Holds, Live, TypeOK, Row, Grant
    <3> QED
      BY <3>2, <3>3, <3>4, <3>5, RanksAreMoves
  <2>11. SoundRun(w, q)'
    <3>0. /\ r.lease.worker = w /\ Drawn(r.lease)' /\ NothingIsAhead(r)'
          /\ \A l \in Lines : SoundCall(r, l)'
          /\ r.fore # Nobody /\ r.fore.reply = "refused" => ~Holds(r.lease)'
      BY <2>4, <2>5 DEF SoundRun
    <3>1. NothingIsAhead(q)'
      BY <2>8, <3>0 DEF NothingIsAhead, Holds, Live
    <3>2. ASSUME NEW l \in Lines PROVE SoundCall(q, l)'
      <4>1. CASE l = m.line
        <5>1. q[l].msg = r[l].msg /\ r[l] # Nobody
          BY <2>2, <2>7, <2>8, <4>1
        <5>2. SoundCall(r, l)'
          BY <3>0
        <5> QED
          BY <2>8, <5>1, <5>2 DEF SoundCall, SoundRequest, Drawn
      <4>2. CASE l # m.line
        <5>1. q[l] = r[l]
          BY <2>8, <4>2
        <5>2. SoundCall(r, l)'
          BY <3>0
        <5> QED
          BY <2>8, <5>1, <5>2 DEF SoundCall, SoundRequest, Drawn
      <4> QED
        BY <4>1, <4>2
    <3>3. q.fore # Nobody /\ q.fore.reply = "refused" => ~Holds(q.lease)'
      <4>1. CASE m.line = "fore"
        <5>1. q.fore.reply = reply
          BY <2>7, <2>8, <4>1
        <5>2. reply = "refused" => ~Holds(q.lease)'
          BY <2>1, <2>8, <2>10, <4>1 DEF vars, Holds, Live
        <5> QED
          BY <5>1, <5>2
      <4>2. CASE m.line # "fore"
        <5>1. q.fore = r.fore
          BY <2>8, <4>2 DEF Lines
        <5> QED
          BY <2>8, <3>0, <5>1 DEF Holds, Live
      <4> QED
        BY <4>1, <4>2
    <3> QED
      BY <2>4, <2>8, <3>0, <3>1, <3>2, <3>3 DEF SoundRun, Drawn
  <2> QED
    BY <1>2, <2>8, <2>9, <2>11, RunnerFrame
<1> QED
  BY <1>3, <1>4

\* A claim is heard: the lease is new, nothing on the wire carries it, and the
\* job is at the first working status.
LEMMA StartSound ==
    ASSUME TypeOK, LeaseInv, RunnerTypeOK, RunnerInv, [RunnerNext]_systemVars,
           NEW w \in Workers, Start(w)
    PROVE  RunnerInv'
<1>0. ClaimCommit(w) /\ claiming[w].job \in Jobs
  BY DEF Start, ClaimCommit, TypeOK, Locked
<1>a. PICK j \in Jobs : j = claiming[w].job
  BY <1>0
<1>2. issued[j] \in Nat
  BY DEF TypeOK
<1>b. Claimed(w) = [job |-> j, worker |-> w, token |-> issued[j] + 1]
  BY <1>a DEF Claimed
<1>c. [job |-> j, worker |-> w, token |-> issued[j] + 1] \in Grant
  BY <1>2 DEF Grant
<1>3. PICK g \in Grant : /\ g = Claimed(w)
                         /\ g.job = j /\ g.worker = w /\ g.token = issued[j] + 1
  BY <1>b, <1>c
<1> DEFINE r == [Idle EXCEPT !.phase = "starting", !.lease = g]
<1>1. ClaimCommit(w) /\ Calls(w, r, "fore", "progress")
  BY <1>3 DEF Start
<1>4. issued'[j] = issued[j] + 1 /\ job'[j].status = "assigned"
  BY <1>1, <1>2, <1>a DEF ClaimCommit, TypeOK, Row
<1>5. /\ r.phase = "starting" /\ r.lease = g /\ r.at = 1
      /\ r.fore = Nobody /\ r.keep = Nobody
  BY DEF Idle
<1>6. r \in Run
  <2>1. 1 \in 1..Len(Stages)
    OBVIOUS
  <2> QED
    BY <1>3, <2>1 DEF Idle, Run
<1> HIDE DEF r
<1>7. Drawn(g)'
  BY <1>2, <1>3, <1>4 DEF Drawn
<1>8. Rank(job'[j].status) <= Rank(Stages[1].status)
  <2>1. 1 \in 1..Len(Stages)
    OBVIOUS
  <2>2. Stages[1] \in [status : Reported, progress : 0..Full]
    BY <2>1, ElementOfSeq
  <2>3. Stages[1].status \in Working
    BY <2>2
  <2> QED
    BY <1>4, <2>3 DEF Working, Rank
<1>9. \A m \in wire : m.lease # g
  <2> SUFFICES ASSUME NEW m \in wire, m.lease = g PROVE FALSE
    OBVIOUS
  <2>1. g.token \in 1..issued[j]
    BY <1>3 DEF RunnerInv, SoundRequest, Drawn
  <2> QED
    BY <1>2, <1>3, <2>1
<1>10. SoundRun(w, r)'
  <2>1. \A m \in wire' : m.lease = g => m.at = 1
    BY <1>1, <1>5, <1>9 DEF Calls, Request
  <2>2. NothingIsAhead(r)'
    BY <1>3, <1>5, <1>8, <2>1 DEF NothingIsAhead
  <2>3. \A l \in Lines : SoundCall(r, l)'
    BY <1>5 DEF SoundCall, Lines
  <2> QED
    BY <1>3, <1>5, <1>7, <2>2, <2>3 DEF SoundRun, Drawn
<1> QED
  BY <1>1, <1>3, <1>5, <1>6, <1>10, CallsSound DEF Lines, Kinds

\* A request is sent again: it says what it said.
LEMMA ResendSound ==
    ASSUME TypeOK, LeaseInv, RunnerTypeOK, RunnerInv, [RunnerNext]_systemVars,
           NEW w \in Workers, NEW line \in Lines, Resend(w, line)
    PROVE  RunnerInv'
<1>0. PICK r \in Run : r = run[w] /\ Leased(r) /\ SoundRun(w, r)
  BY DEF RunnerTypeOK, RunnerInv, Leased
<1>1. r[line] # Nobody /\ r[line].msg.try < Tries
  BY <1>0 DEF Resend
<1>2. r[line] \in Call
  BY <1>0, <1>1 DEF Run, Lines
<1> DEFINE m == r[line].msg
           n == [m EXCEPT !.try = @ + 1]
           c == [msg |-> n, reply |-> "none"]
           q == [r EXCEPT ![line] = c]
<1>3. /\ run' = [run EXCEPT ![w] = q] /\ wire' = wire \cup {n}
      /\ UNCHANGED <<vars, object>>
  BY <1>0 DEF Resend
<1>4. m \in Message
  BY <1>2 DEF Call
<1>5. /\ n.line = m.line /\ n.kind = m.kind /\ n.lease = m.lease /\ n.at = m.at
  BY <1>4 DEF Message
<1>6. n \in Message
  <2>1. m.try \in 1..Tries /\ m.try < Tries
    BY <1>1, <1>4 DEF Message
  <2>2. \A t \in 1..Tries : t < Tries => t + 1 \in 1..Tries
    OBVIOUS
  <2>3. m.try + 1 \in 1..Tries
    BY <2>1, <2>2
  <2> QED
    BY <1>4, <2>3 DEF Message
<1>7. c \in Call /\ c.msg = n /\ c.reply = "none"
  BY <1>6 DEF Call
<1> HIDE DEF c, n, m
<1>8. PICK p \in Run : /\ p = q /\ p.phase = r.phase /\ p.lease = r.lease /\ p.at = r.at
                       /\ p[line] = c /\ \A l \in Lines : l # line => p[l] = r[l]
  <2>1. /\ q \in Run /\ q.phase = r.phase /\ q.lease = r.lease /\ q.at = r.at
        /\ q[line] = c /\ \A l \in Lines : l # line => q[l] = r[l]
    <3>1. CASE line = "fore"
      BY <1>7, <3>1 DEF Run, Lines
    <3>2. CASE line = "keep"
      BY <1>7, <3>2 DEF Run, Lines
    <3> QED
      BY <3>1, <3>2 DEF Lines
  <2> HIDE DEF q
  <2> QED
    BY <2>1
<1>9. r # Idle /\ r.phase # "idle"
  <2>1. r # Idle
    BY <1>1 DEF Idle, Lines
  <2> QED
    BY <1>0, <2>1 DEF SoundRun
<1>10. /\ r.lease.worker = w /\ Drawn(r.lease) /\ NothingIsAhead(r)
       /\ \A l \in Lines : SoundCall(r, l)
       /\ r.fore # Nobody /\ r.fore.reply = "refused" => ~Holds(r.lease)
  BY <1>0, <1>9 DEF SoundRun
<1>11. /\ n.line = line /\ n.lease = r.lease /\ n.at <= r.at /\ SoundRequest(m)
       /\ line = "fore" => n.at = r.at
  BY <1>1, <1>5, <1>10 DEF SoundCall, m
<1>12. SoundRequest(n)'
  BY <1>3, <1>5, <1>11 DEF SoundRequest, Drawn, vars
<1>13. SoundRun(w, r)'
  BY <1>0, <1>3, <1>11, ObjectsStay, SoundStays
<1>14. SoundRun(w, p)'
  <2>1. /\ r.lease.worker = w /\ Drawn(r.lease)' /\ NothingIsAhead(r)'
        /\ \A l \in Lines : SoundCall(r, l)'
        /\ r.fore # Nobody /\ r.fore.reply = "refused" => ~Holds(r.lease)'
    BY <1>9, <1>13 DEF SoundRun
  <2>2. NothingIsAhead(p)'
    BY <1>8, <2>1 DEF NothingIsAhead, Holds, Live
  <2>3. SoundCall(p, line)'
    BY <1>7, <1>8, <1>11, <1>12 DEF SoundCall, SoundRequest, Drawn
  <2>4. ASSUME NEW l \in Lines, l # line PROVE SoundCall(p, l)'
    <3>1. p[l] = r[l] /\ SoundCall(r, l)'
      BY <1>8, <2>1, <2>4
    <3> QED
      BY <1>8, <3>1 DEF SoundCall, SoundRequest, Drawn
  <2>5. p.fore = r.fore \/ p.fore.reply = "none"
    BY <1>7, <1>8 DEF Lines
  <2>6. p.fore # Nobody /\ p.fore.reply = "refused" => ~Holds(p.lease)'
    BY <1>8, <2>1, <2>5 DEF Holds, Live
  <2> QED
    BY <1>8, <1>9, <2>1, <2>2, <2>3, <2>4, <2>6 DEF SoundRun, Drawn
<1>15. run'[w] = p /\ \A v \in Workers : v # w => run'[v] = run[v]
  BY <1>3, <1>8 DEF RunnerTypeOK
<1>16. n.lease.worker = w
  BY <1>10, <1>11
<1> QED
  BY <1>3, <1>12, <1>14, <1>15, <1>16, RunnerFrame

\* Every step keeps every run sound.
LEMMA RunnerNextInv ==
    TypeOK /\ LeaseInv /\ RunnerTypeOK /\ RunnerInv /\ [RunnerNext]_systemVars => RunnerInv'
<1> SUFFICES ASSUME TypeOK, LeaseInv, RunnerTypeOK, RunnerInv, [RunnerNext]_systemVars
             PROVE  RunnerInv'
  OBVIOUS
<1>0. ASSUME run' = run, wire' \subseteq wire PROVE RunnerInv'
  BY <1>0, RunnerFrame
<1>1. ASSUME NEW w \in Workers, run[w].phase # "idle"
      PROVE  \E r \in Run : /\ r = run[w] /\ r.phase # "idle" /\ r.lease \in Grant
                            /\ r # Idle /\ SoundRun(w, r)
  BY <1>1 DEF RunnerTypeOK, RunnerInv, Idle
<1>2. ASSUME NEW w \in Workers PROVE SoundRun(w, Idle)
  BY DEF SoundRun
<1>3. ASSUME NEW w \in Workers, NEW q \in Run, q.phase # "idle", q.lease \in Grant,
             SoundRun(w, q), NEW line \in Lines, NEW kind \in Kinds,
             Calls(w, q, line, kind), kind = "complete" => object'[q.lease.job] # NoToken
      PROVE  RunnerInv'
  <2>1. \A m \in wire' : m \in wire \/ m.at = q.at
    BY <1>3 DEF Calls, Request
  <2>2. q.at <= q.at
    BY DEF Run
  <2>3. SoundRun(w, q)'
    BY <1>3, <2>1, <2>2, ObjectsStay, SoundStays DEF Leased
  <2> QED
    BY <1>3, <2>3, CallsSound
<1>4. CASE QueueStep
  BY <1>0, <1>4 DEF QueueStep, runnerVars
<1>5. ASSUME NEW m \in wire, Handle(m) \/ Lose(m) PROVE RunnerInv'
  BY <1>0, <1>5, HandleSound DEF Lose
<1>6. ASSUME NEW w \in Workers, Start(w) \/ StartUnheard(w) PROVE RunnerInv'
  BY <1>0, <1>6, StartSound DEF StartUnheard, runnerVars
<1>7. ASSUME NEW w \in Workers, NEW line \in Lines, Resend(w, line) PROVE RunnerInv'
  BY <1>7, ResendSound
<1>8. ASSUME NEW w \in Workers, Checkpoint(w) \/ Crash(w) PROVE RunnerInv'
  BY <1>2, <1>8, IdleRun, BecomesSound DEF Checkpoint, Crash
<1>9. ASSUME NEW w \in Workers, ForeHeard(w) \/ ForeUnheard(w) PROVE RunnerInv'
  <2>1. run[w].phase # "idle"
    BY <1>9 DEF ForeHeard, ForeUnheard, RunnerInv, SoundRun, Idle
  <2>2. PICK r \in Run : /\ r = run[w] /\ r.phase # "idle" /\ r.lease \in Grant
                         /\ SoundRun(w, r)
    BY <1>1, <2>1
  <2>3. PICK q \in Run : q = Proceeds(r) /\ Leased(q)
    BY <2>2, ProceedsType DEF Leased
  <2>4. SoundRun(w, q)
    <3>1. CASE q = Idle
      BY <1>2, <3>1
    <3>2. CASE r.phase = "starting" \/ r.phase = "rendering"
      <4>1. /\ q.phase # "idle" /\ q.lease = r.lease /\ q.at = r.at
            /\ q.fore = Nobody /\ q.keep = r.keep
        BY <2>2, <2>3, <3>2 DEF Proceeds, Run
      <4> QED
        BY <2>2, <4>1, SoundVariant
    <3> QED
      BY <2>3, <3>1, <3>2 DEF Proceeds
  <2>5. Becomes(w, Idle) \/ Becomes(w, q)
    BY <1>9, <2>2, <2>3 DEF ForeHeard, ForeUnheard
  <2> QED
    BY <1>2, <2>3, <2>4, <2>5, IdleRun, BecomesSound
<1>10. ASSUME NEW w \in Workers, Tick(w) PROVE RunnerInv'
  <2>1. PICK r \in Run : /\ r = run[w] /\ r.phase # "idle" /\ r.lease \in Grant
                         /\ SoundRun(w, r)
    BY <1>1, <1>10 DEF Tick
  <2>2. Calls(w, r, "keep", "progress")
    BY <1>10, <2>1 DEF Tick
  <2> QED
    BY <1>3, <2>1, <2>2 DEF Lines, Kinds
<1>11. ASSUME NEW w \in Workers, KeepHeard(w) \/ KeepUnheard(w) PROVE RunnerInv'
  <2>1. run[w].phase # "idle"
    BY <1>11 DEF KeepHeard, KeepUnheard, RunnerInv, SoundRun, Idle
  <2>2. PICK r \in Run : /\ r = run[w] /\ r.phase # "idle" /\ r.lease \in Grant
                         /\ SoundRun(w, r)
    BY <1>1, <2>1
  <2>3. PICK b \in BOOLEAN : Becomes(w, [r EXCEPT !.keep = Nobody, !.lost = b])
    <3>1. CASE KeepHeard(w)
      BY <2>2, <3>1 DEF KeepHeard
    <3>2. CASE KeepUnheard(w)
      <4>1. [r EXCEPT !.keep = Nobody] = [r EXCEPT !.keep = Nobody, !.lost = r.lost]
        BY DEF Run
      <4>2. r.lost \in BOOLEAN
        BY DEF Run
      <4> QED
        BY <2>2, <3>2, <4>1, <4>2 DEF KeepUnheard, KeptUnheard
    <3> QED
      BY <1>11, <3>1, <3>2
  <2> DEFINE q == [r EXCEPT !.keep = Nobody, !.lost = b]
  <2>4. /\ q \in Run
        /\ q.phase = r.phase /\ q.lease = r.lease /\ q.at = r.at
        /\ q.fore = r.fore /\ q.keep = Nobody
    BY DEF Run
  <2> HIDE DEF q
  <2>5. SoundRun(w, q)
    BY <2>2, <2>4, SoundVariant
  <2> QED
    BY <2>2, <2>3, <2>4, <2>5, BecomesSound DEF q, Leased
<1>12. ASSUME NEW w \in Workers, Stage(w) PROVE RunnerInv'
  <2>1. PICK r \in Run : /\ r = run[w] /\ r.phase # "idle" /\ r.lease \in Grant
                         /\ SoundRun(w, r)
    BY <1>1, <1>12 DEF Stage, Resting
  <2> DEFINE q == [r EXCEPT !.phase = "rendering"]
  <2>2. /\ q \in Run
        /\ q.phase = "rendering" /\ q.lease = r.lease /\ q.at = r.at
        /\ q.fore = r.fore /\ q.keep = r.keep
    BY DEF Run
  <2> HIDE DEF q
  <2>3. SoundRun(w, q)
    BY <2>1, <2>2, SoundVariant
  <2> QED
    BY <1>12, <2>1, <2>2, <2>3, BecomesSound DEF q, Stage, Leased
<1>13. ASSUME NEW w \in Workers, Report(w) PROVE RunnerInv'
  <2>1. PICK r \in Run : /\ r = run[w] /\ r.phase # "idle" /\ r.lease \in Grant
                         /\ SoundRun(w, r)
    BY <1>1, <1>13 DEF Report, Resting
  <2>2. PICK at \in r.at..Len(Stages) : Calls(w, [r EXCEPT !.at = at], "fore", "progress")
    BY <1>13, <2>1 DEF Report, NextStages
  <2>3. at \in 1..Len(Stages)
    BY DEF Run
  <2> DEFINE q == [r EXCEPT !.at = at]
  <2>4. /\ q \in Run
        /\ q.phase = r.phase /\ q.lease = r.lease
    BY <2>3 DEF Run
  <2> HIDE DEF q
  <2>5. r.fore = Nobody
    BY <1>13, <2>1 DEF Report, Resting
  <2>6. SoundRun(w, q)
    BY <1>13, <2>1, <2>4, <2>5, SoundAdvance DEF q
  <2> QED
    BY <1>3, <2>1, <2>2, <2>4, <2>6 DEF q, Lines, Kinds
<1>14. ASSUME NEW w \in Workers, Finish(w) PROVE RunnerInv'
  <2>1. PICK r \in Run : /\ r = run[w] /\ r.phase # "idle" /\ r.lease \in Grant
                         /\ SoundRun(w, r)
    BY <1>1, <1>14 DEF Finish, Resting
  <2> DEFINE q == [r EXCEPT !.phase = "uploading", !.keep = Nobody]
  <2>2. /\ q \in Run
        /\ q.phase = "uploading" /\ q.lease = r.lease /\ q.at = r.at
        /\ q.fore = r.fore /\ q.keep = Nobody
    BY DEF Run
  <2> HIDE DEF q
  <2>3. SoundRun(w, q)
    BY <2>1, <2>2, SoundVariant
  <2>4. Becomes(w, Idle) \/ Becomes(w, q)
    BY <1>14, <2>1, <2>2 DEF q, Finish
  <2> QED
    BY <1>2, <2>1, <2>2, <2>3, <2>4, IdleRun, BecomesSound DEF Leased
<1>15. ASSUME NEW w \in Workers, Upload(w) PROVE RunnerInv'
  <2>1. PICK r \in Run : /\ r = run[w] /\ r.phase # "idle" /\ r.lease \in Grant
                         /\ r # Idle /\ SoundRun(w, r)
    BY <1>1, <1>15 DEF Upload, Resting
  <2> DEFINE q == [r EXCEPT !.phase = "completing"]
  <2>2. /\ q \in Run
        /\ q.phase = "completing" /\ q.lease = r.lease /\ q.at = r.at
        /\ q.fore = r.fore /\ q.keep = r.keep
    BY DEF Run
  <2> HIDE DEF q
  <2>3. SoundRun(w, q)
    BY <2>1, <2>2, SoundVariant
  <2>4. object'[r.lease.job] # NoToken
    <3>1. Drawn(r.lease) /\ r.lease.job \in Jobs
      BY <2>1 DEF SoundRun, Grant
    <3>2. issued[r.lease.job] \in Nat
      BY <3>1 DEF TypeOK
    <3>3. r.lease.token # NoToken
      BY <3>1, <3>2 DEF Drawn, NoToken
    <3>4. object' = [object EXCEPT ![r.lease.job] = r.lease.token]
      BY <1>15, <2>1 DEF Upload
    <3> QED
      BY <3>1, <3>3, <3>4 DEF RunnerTypeOK
  <2>5. Calls(w, q, "fore", "complete")
    BY <1>15, <2>1, <2>2 DEF q, Upload
  <2> QED
    BY <1>3, <2>1, <2>2, <2>3, <2>4, <2>5 DEF Lines, Kinds
<1>16. ASSUME NEW w \in Workers, Break(w) \/ TimeOut(w) PROVE RunnerInv'
  <2>1. PICK r \in Run : /\ r = run[w] /\ r.phase # "idle" /\ r.lease \in Grant
                         /\ SoundRun(w, r)
    BY <1>1, <1>16 DEF Break, TimeOut, Resting
  <2> DEFINE q == [r EXCEPT !.phase = "failing", !.keep = Nobody]
  <2>2. /\ q \in Run
        /\ q.phase = "failing" /\ q.lease = r.lease /\ q.at = r.at
        /\ q.fore = r.fore /\ q.keep = Nobody
    BY DEF Run
  <2> HIDE DEF q
  <2>3. SoundRun(w, q)
    BY <2>1, <2>2, SoundVariant
  <2>4. PICK kind \in {"retry", "giveup"} : Calls(w, q, "fore", kind)
    BY <1>16, <2>1, <2>2 DEF q, Break, TimeOut
  <2> QED
    BY <1>3, <2>1, <2>2, <2>3, <2>4 DEF Lines, Kinds
<1>17. CASE UNCHANGED systemVars
  BY <1>0, <1>17 DEF systemVars
<1> QED
  BY <1>4, <1>5, <1>6, <1>7, <1>8, <1>9, <1>10, <1>11, <1>12, <1>13, <1>14, <1>15, <1>16,
     <1>17 DEF RunnerNext

\* The runs, the requests and the stored objects are always sound.
LEMMA RunnerInvariant == RunnerSpec => []RunnerInv
<1> DEFINE IInv == TypeOK /\ LeaseInv /\ RunnerTypeOK /\ RunnerInv
<1>1. RunnerInit => IInv
  BY InitType, InitLease, RunnerInitType, RunnerInitInv DEF RunnerInit
<1>2. IInv /\ [RunnerNext]_systemVars => IInv'
  BY NextType, NextLease, RunnerNextType, RunnerNextInv, RunnerStepIsQueueStep
<1> QED
  BY <1>1, <1>2, PTL DEF RunnerSpec

\* A worker that is told its report is refused has lost the job: however its
\* reports are delayed, repeated or overtaken by the keepalive's, none that
\* arrives while the lease stands is an illegal move.  So giving up without a
\* word on a 409, as the runner does, never abandons a job the worker holds.
THEOREM RefusalsMeanLost == RunnerSpec => []RefusedReportMeansLost
<1>1. RunnerInv => RefusedReportMeansLost
  BY DEF RunnerInv, SoundRun, RefusedReportMeansLost, Idle
<1> QED
  BY <1>1, RunnerInvariant, PTL

\* Whatever workers crash between the upload and the report, and whichever of
\* several leases uploads last, a job that says it is completed has a file.
THEOREM CompletedJobsHaveObjects == RunnerSpec => []CompletedHasObject
<1>1. RunnerInv => CompletedHasObject
  BY DEF RunnerInv
<1> QED
  BY <1>1, RunnerInvariant, PTL
=============================================================================
