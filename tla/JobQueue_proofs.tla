--------------------------- MODULE JobQueue_proofs ---------------------------
(***************************************************************************)
(* Theorems about JobQueue, for every set of jobs, workers and requests    *)
(* and every value of the bounds.                                          *)
(***************************************************************************)
EXTENDS JobQueue, TLAPS

USE QueueAssumption DEF QueueAssumption

(***************************************************************************)
(* Rows.                                                                   *)
(***************************************************************************)
LEMMA StatusFacts ==
    /\ Absent \notin Status
    /\ "queued" \in Status /\ ~IsTerminal("queued") /\ "queued" \notin Working
    /\ Working \subseteq Status
    /\ Terminal \subseteq Status
    /\ \A s \in {"completed", "failed", "cancelled"} :
          IsTerminal(s) /\ s \notin Working /\ s # "queued" /\ s # Absent
    /\ \A s \in Working : ~IsTerminal(s) /\ s # "queued" /\ s # Absent
    /\ \A s \in Status : s = "queued" \/ s \in Working \/ IsTerminal(s)
  BY DEF Status, Working, Terminal, IsTerminal, Absent

\* Every row operator of the model maps rows to rows.
LEMMA RowTypes ==
    ASSUME NEW row \in Row
    PROVE  /\ Numbered(row) \in Row
           /\ Unleased(row) \in Row
           /\ Requeued(row) \in Row
           /\ GivenUp(row) \in Row
           /\ \A s \in Working, p \in 0..Full : Advanced(row, s, p) \in Row
           /\ [Unleased(row) EXCEPT !.status = "completed", !.progress = Full] \in Row
           /\ [row EXCEPT !.lease = "expired"] \in Row
           /\ \A w \in Workers, t, n \in Nat :
                [row EXCEPT !.status = "assigned", !.worker = w, !.token = t,
                            !.lease = "live", !.attempts = n] \in Row
           /\ \A loaded \in Loaded : Cancelled(row, loaded) \in Row
<1>0. 0 \in 0..Full /\ Full \in 0..Full
  OBVIOUS
<1>1. Numbered(row) \in Row
  BY DEF Row, Numbered
<1>2. Unleased(row) \in Row
  BY DEF Row, Unleased, Lease, NoToken
<1>3. Requeued(row) \in Row
  BY <1>0 DEF Row, Requeued, Unleased, Lease, NoToken, Status
<1>4. GivenUp(row) \in Row
  BY DEF Row, GivenUp, Unleased, Lease, NoToken, Status, Terminal
<1>5. ASSUME NEW s \in Working, NEW p \in 0..Full
      PROVE  Advanced(row, s, p) \in Row
  BY DEF Row, Advanced, Lease, Status
<1>6. [Unleased(row) EXCEPT !.status = "completed", !.progress = Full] \in Row
  BY <1>0 DEF Row, Unleased, Lease, NoToken, Status, Terminal
<1>7. [row EXCEPT !.lease = "expired"] \in Row
  BY DEF Row, Lease
<1>8. ASSUME NEW w \in Workers, NEW t \in Nat, NEW n \in Nat
      PROVE  [row EXCEPT !.status = "assigned", !.worker = w, !.token = t,
                         !.lease = "live", !.attempts = n] \in Row
  BY DEF Row, Lease, Status, Working
<1>9. ASSUME NEW loaded \in Loaded PROVE Cancelled(row, loaded) \in Row
  <2>1. loaded.seq + 1 \in Nat
    BY DEF Loaded
  <2> QED
    BY <2>1 DEF Row, Cancelled, Lease, NoToken, Status, Terminal
<1> QED
  BY <1>1, <1>2, <1>3, <1>4, <1>5, <1>6, <1>7, <1>8, <1>9

\* A blank row, and one that has just been queued, are rows.
LEMMA NoRowType == NoRow \in Row /\ [NoRow EXCEPT !.status = "queued"] \in Row
  BY DEF NoRow, Row, Lease, NoToken, Status

\* What is appended to a log is an event.
LEMMA EventType ==
    ASSUME NEW row \in Row, row.status # Absent
    PROVE  EventOf(row) \in Event
  BY DEF EventOf, Event, Row

\* Types, initially.
LEMMA InitType == Init => TypeOK
  BY NoRowType DEF Init, TypeOK

\* A row written with its event keeps the types.
LEMMA WriteLoggedType ==
    ASSUME TypeOK, NEW j \in Jobs, NEW row \in Row, row.status # Absent,
           WriteLogged(j, row)
    PROVE  job' \in [Jobs -> Row] /\ events' \in [Jobs -> SUBSET Event]
<1>1. Numbered(row) \in Row /\ Numbered(row).status = row.status
  BY RowTypes DEF Numbered, Row
<1>2. EventOf(Numbered(row)) \in Event
  BY <1>1, EventType
<1> QED
  BY <1>1, <1>2 DEF WriteLogged, TypeOK

\* Types are inductive.
LEMMA NextType == TypeOK /\ [Next]_vars => TypeOK'
<1> SUFFICES ASSUME TypeOK, [Next]_vars PROVE TypeOK'
  OBVIOUS
<1>1. ASSUME NEW j \in Jobs, Submit(j) PROVE TypeOK'
  <2>1. [NoRow EXCEPT !.status = "queued"].status # Absent
    BY DEF NoRow, Absent
  <2>2. job' \in [Jobs -> Row] /\ events' \in [Jobs -> SUBSET Event]
    BY <1>1, <2>1, NoRowType, WriteLoggedType DEF Submit
  <2> QED
    BY <1>1, <2>2 DEF Submit, TypeOK
<1>2. ASSUME NEW j \in Jobs, LeaseExpires(j) PROVE TypeOK'
  <2>1. [job[j] EXCEPT !.lease = "expired"] \in Row
    BY RowTypes DEF TypeOK
  <2> QED
    BY <1>2, <2>1 DEF LeaseExpires, TypeOK
<1>3. ASSUME NEW w \in Workers, ClaimLock(w) PROVE TypeOK'
  <2>1. PICK j \in Jobs :
          claiming' = [claiming EXCEPT ![w] = [job |-> j, attempts |-> job[j].attempts]]
    BY <1>3 DEF ClaimLock
  <2>2. [job |-> j, attempts |-> job[j].attempts] \in Locked
    BY DEF TypeOK, Row, Locked
  <2> QED
    BY <1>3, <2>1, <2>2 DEF ClaimLock, TypeOK
<1>4. ASSUME NEW w \in Workers, ClaimCommit(w) PROVE TypeOK'
  <2> DEFINE j == claiming[w].job
             row == [job[j] EXCEPT !.status   = "assigned",
                                   !.worker   = w,
                                   !.token    = issued[j] + 1,
                                   !.lease    = "live",
                                   !.attempts = claiming[w].attempts + 1]
  <2>1. /\ j \in Jobs /\ job[j] \in Row /\ issued[j] + 1 \in Nat
        /\ claiming[w].attempts + 1 \in Nat
    BY <1>4 DEF ClaimCommit, TypeOK, Locked
  <2>2. row \in Row
    BY <2>1, RowTypes
  <2>3. [job |-> j, worker |-> w, token |-> issued[j] + 1] \in Grant
    BY <2>1 DEF Grant
  <2>4. job' = [job EXCEPT ![j] = row]
    BY <1>4 DEF ClaimCommit
  <2> QED
    BY <1>4, <2>1, <2>2, <2>3, <2>4 DEF ClaimCommit, TypeOK
<1>5. ASSUME NEW w \in Workers, ClaimRollback(w) PROVE TypeOK'
  BY <1>5 DEF ClaimRollback, TypeOK
<1>6. ASSUME NEW g \in grants, NEW s \in Reported, NEW p \in 0..Full, Progress(g, s, p)
      PROVE  TypeOK'
  <2>1. g.job \in Jobs /\ job[g.job] \in Row
    BY DEF TypeOK, Grant
  <2>2. Advanced(job[g.job], s, p) \in Row /\ Advanced(job[g.job], s, p).status # Absent
    <3>1. s \in Working /\ s # Absent
      BY StatusFacts
    <3>2. Advanced(job[g.job], s, p) \in Row
      BY <2>1, <3>1, RowTypes
    <3>3. Advanced(job[g.job], s, p).status = s
      BY <2>1 DEF Advanced, Row
    <3> QED
      BY <3>1, <3>2, <3>3
  <2>3. job' \in [Jobs -> Row] /\ events' \in [Jobs -> SUBSET Event]
    BY <1>6, <2>1, <2>2, WriteLoggedType DEF Progress
  <2> QED
    BY <1>6, <2>3 DEF Progress, TypeOK
<1>7. ASSUME NEW g \in grants, Complete(g) PROVE TypeOK'
  <2> DEFINE row == [Unleased(job[g.job]) EXCEPT !.status = "completed", !.progress = Full]
  <2>1. g.job \in Jobs /\ job[g.job] \in Row /\ g.token \in Nat
    BY DEF TypeOK, Grant
  <2>2. row \in Row
    BY <2>1, RowTypes
  <2>3. row.status # Absent
    BY <2>1 DEF Row, Unleased, Absent
  <2>4. job' \in [Jobs -> Row] /\ events' \in [Jobs -> SUBSET Event]
    BY <1>7, <2>1, <2>2, <2>3, WriteLoggedType DEF Complete
  <2> QED
    BY <1>7, <2>1, <2>4 DEF Complete, TypeOK
<1>8. ASSUME NEW g \in grants, NEW retriable \in BOOLEAN, Fail(g, retriable)
      PROVE  TypeOK'
  <2>1. g.job \in Jobs /\ job[g.job] \in Row
    BY DEF TypeOK, Grant
  <2>2. /\ Requeued(job[g.job]) \in Row /\ Requeued(job[g.job]).status # Absent
        /\ GivenUp(job[g.job]) \in Row /\ GivenUp(job[g.job]).status # Absent
    BY <2>1, RowTypes DEF Requeued, GivenUp, Unleased, Row, Absent
  <2>3. job' \in [Jobs -> Row] /\ events' \in [Jobs -> SUBSET Event]
    BY <1>8, <2>1, <2>2, WriteLoggedType DEF Fail
  <2> QED
    BY <1>8, <2>3 DEF Fail, TypeOK
<1>9. CASE Reap
  <2>1. \A j \in Jobs, batch \in SUBSET Expired : Reaped(j, batch) \in Row
    BY RowTypes DEF Reaped, TypeOK
  <2> QED
    BY <1>9, <2>1 DEF Reap, TypeOK
<1>10. ASSUME NEW r \in Requests, NEW j \in Jobs, CancelLoad(r, j) PROVE TypeOK'
  <2>1. [job |-> j, leased |-> job[j].token # NoToken,
         seq |-> job[j].seq, progress |-> job[j].progress] \in Loaded
    BY DEF TypeOK, Row, Loaded
  <2> QED
    BY <1>10, <2>1 DEF CancelLoad, TypeOK
<1>11. ASSUME NEW r \in Requests, CancelCommit(r) PROVE TypeOK'
  <2> DEFINE loaded == cancel[r]
             j      == loaded.job
  <2>1. loaded \in Loaded /\ j \in Jobs /\ loaded.seq \in Nat /\ loaded.progress \in 0..Full
    BY <1>11 DEF CancelCommit, TypeOK, Loaded
  <2>2. Cancelled(job[j], loaded) \in Row
    BY <2>1, RowTypes DEF TypeOK
  <2>3. [seq |-> loaded.seq + 1, status |-> "cancelled", progress |-> loaded.progress] \in Event
    BY <2>1 DEF Event, Status, Terminal
  <2>4. /\ job' = [job EXCEPT ![j] = Cancelled(job[j], loaded)]
        /\ events' = [events EXCEPT ![j] = @ \cup
              {[seq |-> loaded.seq + 1, status |-> "cancelled", progress |-> loaded.progress]}]
    BY <1>11 DEF CancelCommit
  <2>5. job' \in [Jobs -> Row] /\ events' \in [Jobs -> SUBSET Event]
    BY <2>1, <2>2, <2>3, <2>4 DEF TypeOK
  <2> QED
    BY <1>11, <2>5 DEF CancelCommit, TypeOK
<1>12. ASSUME NEW r \in Requests, CancelRollback(r) PROVE TypeOK'
  BY <1>12 DEF CancelRollback, TypeOK
<1>13. CASE UNCHANGED vars
  BY <1>13 DEF vars, TypeOK
<1> QED
  BY <1>1, <1>2, <1>3, <1>4, <1>5, <1>6, <1>7, <1>8, <1>9, <1>10, <1>11, <1>12, <1>13
  DEF Next

\* Rows, events, leases and open transactions always have their types.
THEOREM TypeCorrect == Spec => []TypeOK
<1> QED
  BY InitType, NextType, PTL DEF Spec

(***************************************************************************)
(* Leases.  All actions but the two halves of a claim change rows no open  *)
(* claim holds, and each row they change in one of the ways below.         *)
(***************************************************************************)
RowMove(k) ==
    /\ Lockable(k)
    /\ job'[k].status # Absent
    /\ job'[k].attempts = job[k].attempts
    /\ job'[k].token \in {job[k].token, NoToken}
    /\ job'[k].status = "queued" =>
          /\ job'[k].worker = Nobody /\ job'[k].token = NoToken
          /\ job'[k].lease = "none"  /\ job[k].attempts < MaxAttempts
    /\ job'[k].status \in Working =>
          /\ job[k].status \in Working
          /\ job'[k].lease # "none"
          /\ job'[k].token = job[k].token
          /\ job'[k].worker = job[k].worker

\* A move of one row keeps the lease invariant.
LEMMA RowMovesKeepLeases ==
    ASSUME TypeOK, LeaseInv, UNCHANGED <<grants, issued, claiming>>,
           \A k \in Jobs : RowMove(k) \/ (job'[k] = job[k] /\ events'[k] = events[k])
    PROVE  LeaseInv'
<1>1. EveryGrantIsCharged'
  BY DEF RowMove, LeaseInv, EveryGrantIsCharged
<1>2. LeaseFollowsStatus'
  BY DEF RowMove, LeaseInv, LeaseFollowsStatus
<1>3. ClaimsHoldTheirRows'
  BY DEF RowMove, LeaseInv, ClaimsHoldTheirRows, Lockable, TypeOK, Locked
<1>4. TokensAreDrawn'
  <2>1. \A k \in Jobs : job'[k].token <= issued[k]
    BY DEF RowMove, LeaseInv, TokensAreDrawn, TypeOK, NoToken
  <2> QED
    BY <2>1 DEF LeaseInv, TokensAreDrawn
<1>5. AbsentIsBlank'
  BY DEF RowMove, LeaseInv, AbsentIsBlank
<1> QED
  BY <1>1, <1>2, <1>3, <1>4, <1>5 DEF LeaseInv

\* A logged write changes one row and adds one event to its log.
LEMMA WriteLoggedEffect ==
    ASSUME TypeOK, NEW j \in Jobs, NEW row \in Row, WriteLogged(j, row)
    PROVE  /\ \A k \in Jobs \ {j} : job'[k] = job[k] /\ events'[k] = events[k]
           /\ job'[j].status = row.status     /\ job'[j].worker = row.worker
           /\ job'[j].token = row.token       /\ job'[j].lease = row.lease
           /\ job'[j].attempts = row.attempts /\ job'[j].progress = row.progress
           /\ job'[j].seq = row.seq + 1
           /\ events'[j] = events[j] \cup {[seq |-> row.seq + 1, status |-> row.status,
                                            progress |-> row.progress]}
           /\ \A e \in events[j] : e.seq # row.seq + 1
<1> DEFINE new == Numbered(row)
<1>1. /\ new.status = row.status     /\ new.worker = row.worker
      /\ new.token = row.token       /\ new.lease = row.lease
      /\ new.attempts = row.attempts /\ new.progress = row.progress
      /\ new.seq = row.seq + 1
  BY DEF Numbered, Row
<1>2. job'[j] = new /\ events'[j] = events[j] \cup {EventOf(new)}
  BY DEF WriteLogged, TypeOK
<1>3. \A k \in Jobs \ {j} : job'[k] = job[k] /\ events'[k] = events[k]
  BY DEF WriteLogged, TypeOK
<1>4. \A e \in events[j] : e.seq # row.seq + 1
  BY <1>1 DEF WriteLogged, SeqFree
<1> QED
  BY <1>1, <1>2, <1>3, <1>4 DEF EventOf

\* The rows the operators make, field by field.
LEMMA RowFields ==
    ASSUME NEW row \in Row
    PROVE  /\ Requeued(row).status = "queued" /\ Requeued(row).worker = Nobody
           /\ Requeued(row).token = NoToken   /\ Requeued(row).lease = "none"
           /\ Requeued(row).attempts = row.attempts /\ Requeued(row).seq = row.seq
           /\ GivenUp(row).status = "failed"
           /\ GivenUp(row).token = NoToken
           /\ GivenUp(row).attempts = row.attempts /\ GivenUp(row).seq = row.seq
BY DEF Row, Requeued, GivenUp, Unleased, NoToken

\* A row an authorised report is about is in a working status, unclaimed.
LEMMA AuthorizedIsWorking ==
    ASSUME TypeOK, LeaseInv, NEW g \in grants, Authorized(g)
    PROVE  /\ g.job \in Jobs /\ g.token \in Nat \ {0}
           /\ job[g.job].status \in Working
           /\ job[g.job].token = g.token /\ g.token = issued[g.job]
           /\ Lockable(g.job)
<1>1. g.job \in Jobs /\ g.token \in 1..issued[g.job] /\ issued[g.job] \in Nat
  BY DEF TypeOK, Grant, LeaseInv, TokensAreDrawn
<1>2. job[g.job].status \in Status \ Terminal
  BY <1>1 DEF Authorized, Live, IsTerminal, TypeOK, Row
<1>3. /\ job[g.job].token = g.token /\ Lockable(g.job)
      /\ g.token # NoToken
  BY <1>1 DEF Authorized, NoToken
<1>4. job[g.job].status # "queued"
  BY <1>1, <1>3 DEF LeaseInv, LeaseFollowsStatus
<1>5. job[g.job].status \in Working
  BY <1>2, <1>4 DEF Status
<1>6. job[g.job].token = issued[g.job]
  BY <1>1, <1>5 DEF LeaseInv, LeaseFollowsStatus
<1> QED
  BY <1>1, <1>3, <1>5, <1>6

\* A row whose lease has not ended is in a working status, unclaimed.
LEMMA LeasedIsLockable ==
    ASSUME TypeOK, LeaseInv, NEW j \in Jobs, job[j].lease # "none"
    PROVE  /\ job[j].status # Absent /\ job[j].status # "queued"
           /\ Lockable(j)
<1>1. job[j].status # Absent
  BY DEF LeaseInv, AbsentIsBlank, NoRow
<1>2. job[j].status # "queued"
  BY DEF LeaseInv, LeaseFollowsStatus
<1>3. Lockable(j)
  BY <1>2 DEF Lockable, LeaseInv, ClaimsHoldTheirRows
<1> QED
  BY <1>1, <1>2, <1>3

\* Leases, initially.
LEMMA InitLease == Init => LeaseInv
<1> SUFFICES ASSUME Init PROVE LeaseInv
  OBVIOUS
<1>1. EveryGrantIsCharged
  BY DEF Init, EveryGrantIsCharged, NoRow
<1>2. LeaseFollowsStatus
  BY DEF Init, LeaseFollowsStatus, NoRow, Absent, Working
<1>3. ClaimsHoldTheirRows
  BY DEF Init, ClaimsHoldTheirRows
<1>4. TokensAreDrawn
  BY DEF Init, TokensAreDrawn, NoRow, NoToken
<1>5. AbsentIsBlank
  BY DEF Init, AbsentIsBlank
<1> QED
  BY <1>1, <1>2, <1>3, <1>4, <1>5 DEF LeaseInv

\* The lease invariant is inductive.
LEMMA NextLease == TypeOK /\ LeaseInv /\ [Next]_vars => LeaseInv'
<1> SUFFICES ASSUME TypeOK, LeaseInv, [Next]_vars PROVE LeaseInv'
  OBVIOUS
<1>1. ASSUME NEW j \in Jobs, Submit(j) PROVE LeaseInv'
  <2> DEFINE row == [NoRow EXCEPT !.status = "queued"]
  <2>1. row \in Row /\ WriteLogged(j, row)
    BY <1>1, NoRowType DEF Submit
  <2>2. /\ row.status = "queued" /\ row.worker = Nobody /\ row.token = NoToken
        /\ row.lease = "none" /\ row.attempts = 0
    BY DEF NoRow
  <2>3. job[j].attempts = 0 /\ job[j].token = NoToken
    BY <1>1 DEF Submit, LeaseInv, AbsentIsBlank, NoRow
  <2>4. Lockable(j)
    BY <1>1 DEF Submit, LeaseInv, ClaimsHoldTheirRows, Lockable, Absent
  <2>5. /\ job'[j].status = row.status     /\ job'[j].worker = row.worker
        /\ job'[j].token = row.token       /\ job'[j].lease = row.lease
        /\ job'[j].attempts = row.attempts
        /\ \A k \in Jobs \ {j} : job'[k] = job[k] /\ events'[k] = events[k]
    BY ZenonT(40), <2>1, WriteLoggedEffect
  <2>6. RowMove(j)
    BY <2>2, <2>3, <2>4, <2>5, StatusFacts DEF RowMove
  <2> QED
    BY <1>1, <2>5, <2>6, RowMovesKeepLeases DEF Submit
<1>2. ASSUME NEW j \in Jobs, LeaseExpires(j) PROVE LeaseInv'
  <2>1. job' = [job EXCEPT ![j] = [job[j] EXCEPT !.lease = "expired"]]
    BY <1>2 DEF LeaseExpires
  <2>2. RowMove(j)
    BY <1>2, <2>1, LeasedIsLockable DEF LeaseExpires, RowMove, TypeOK, Row, LeaseInv,
       LeaseFollowsStatus
  <2> QED
    BY <1>2, <2>1, <2>2, RowMovesKeepLeases DEF LeaseExpires, TypeOK
<1>3. ASSUME NEW w \in Workers, ClaimLock(w) PROVE LeaseInv'
  <2>1. PICK j \in Jobs :
          /\ Claimable(w, j)
          /\ claiming' = [claiming EXCEPT ![w] = [job |-> j, attempts |-> job[j].attempts]]
    BY <1>3 DEF ClaimLock
  <2>2. ClaimsHoldTheirRows'
    BY <1>3, <2>1 DEF ClaimLock, Claimable, Lockable, LeaseInv, ClaimsHoldTheirRows, TypeOK
  <2>3. EveryGrantIsCharged' /\ LeaseFollowsStatus' /\ TokensAreDrawn' /\ AbsentIsBlank'
    BY <1>3 DEF ClaimLock, LeaseInv, EveryGrantIsCharged, LeaseFollowsStatus,
       TokensAreDrawn, AbsentIsBlank
  <2> QED
    BY <2>2, <2>3 DEF LeaseInv
<1>4. ASSUME NEW w \in Workers, ClaimCommit(w) PROVE LeaseInv'
  <2> DEFINE j   == claiming[w].job
             row == [job[j] EXCEPT !.status   = "assigned",
                                   !.worker   = w,
                                   !.token    = issued[j] + 1,
                                   !.lease    = "live",
                                   !.attempts = claiming[w].attempts + 1]
  <2>0. claiming[w] # Nobody /\ j \in Jobs
    BY <1>4 DEF ClaimCommit, TypeOK, Locked
  <2>a. job[j].status = "queued" /\ job[j].attempts = claiming[w].attempts
    BY <2>0 DEF LeaseInv, ClaimsHoldTheirRows
  <2>b. job[j].attempts = issued[j] /\ job[j].attempts < MaxAttempts
    BY <2>0, <2>a DEF LeaseInv, EveryGrantIsCharged, LeaseFollowsStatus
  <2>c. job[j] \in Row /\ issued[j] \in Nat
    BY <2>0 DEF TypeOK
  <2>1. /\ claiming[w] # Nobody /\ j \in Jobs /\ job[j].status = "queued"
        /\ job[j].attempts = claiming[w].attempts /\ issued[j] \in Nat
        /\ job[j].attempts = issued[j] /\ job[j].attempts < MaxAttempts
    BY <2>0, <2>a, <2>b, <2>c
  <2>2. /\ job' = [job EXCEPT ![j] = row]
        /\ issued' = [issued EXCEPT ![j] = issued[j] + 1]
        /\ grants' = grants \cup {[job |-> j, worker |-> w, token |-> issued[j] + 1]}
        /\ claiming' = [claiming EXCEPT ![w] = Nobody]
        /\ events' = events
    BY <1>4 DEF ClaimCommit
  <2>3. /\ row.status = "assigned" /\ row.worker = w /\ row.token = issued[j] + 1
        /\ row.lease = "live" /\ row.attempts = issued[j] + 1
    BY <2>1 DEF TypeOK, Row
  <2>4. /\ job'[j] = row /\ issued'[j] = issued[j] + 1
        /\ \A k \in Jobs \ {j} : job'[k] = job[k] /\ issued'[k] = issued[k]
    BY <2>1, <2>2 DEF TypeOK
  <2>d. [job |-> j, worker |-> w, token |-> issued[j] + 1] \in grants' /\ grants \subseteq grants'
    BY <2>2
  <2>e. "assigned" \in Working /\ "assigned" # "queued" /\ "assigned" # Absent
    BY DEF Working, Absent
  <2>f. \A v \in Workers \ {w} :
          claiming'[v] = claiming[v] /\ (claiming[v] # Nobody => claiming[v].job \in Jobs \ {j})
    BY <2>0, <2>2 DEF LeaseInv, ClaimsHoldTheirRows, TypeOK, Locked
  <2>g. claiming'[w] = Nobody
    BY <2>2 DEF TypeOK
  <2> HIDE DEF j, row
  <2>5. EveryGrantIsCharged'
    <3> SUFFICES ASSUME NEW k \in Jobs
                 PROVE  job'[k].attempts = issued'[k] /\ issued'[k] <= MaxAttempts
      BY DEF EveryGrantIsCharged
    <3>1. CASE k = j
      BY <2>1, <2>3, <2>4, <3>1
    <3>2. CASE k # j
      BY <2>4, <3>2 DEF LeaseInv, EveryGrantIsCharged
    <3> QED
      BY <3>1, <3>2
  <2>6. LeaseFollowsStatus'
    <3> SUFFICES ASSUME NEW k \in Jobs
                 PROVE  /\ job'[k].status = "queued" =>
                              /\ job'[k].worker = Nobody /\ job'[k].token = NoToken
                              /\ job'[k].lease = "none"  /\ job'[k].attempts < MaxAttempts
                        /\ job'[k].status \in Working =>
                              /\ job'[k].lease # "none"
                              /\ job'[k].token = issued'[k]
                              /\ [job |-> k, worker |-> job'[k].worker,
                                  token |-> job'[k].token] \in grants'
      BY DEF LeaseFollowsStatus
    <3>1. CASE k = j
      BY <2>3, <2>4, <2>d, <2>e, <3>1
    <3>2. CASE k # j
      BY <2>4, <2>d, <3>2 DEF LeaseInv, LeaseFollowsStatus
    <3> QED
      BY <3>1, <3>2
  <2>7. ClaimsHoldTheirRows'
    <3> SUFFICES ASSUME NEW v \in Workers, claiming'[v] # Nobody
                 PROVE  /\ job'[claiming'[v].job].status = "queued"
                        /\ job'[claiming'[v].job].attempts = claiming'[v].attempts
                        /\ \A u \in Workers : u # v /\ claiming'[u] # Nobody =>
                              claiming'[u].job # claiming'[v].job
      BY DEF ClaimsHoldTheirRows
    <3>1. v # w
      BY <2>g
    <3>2. claiming'[v] = claiming[v] /\ claiming[v].job \in Jobs \ {j}
      BY <2>f, <3>1
    <3>3. job'[claiming[v].job] = job[claiming[v].job]
      BY <2>4, <3>2
    <3>4. \A u \in Workers : claiming'[u] # Nobody => claiming'[u] = claiming[u]
      BY <2>f, <2>g
    <3> QED
      BY <3>2, <3>3, <3>4 DEF LeaseInv, ClaimsHoldTheirRows
  <2>8. TokensAreDrawn'
    <3>1. ASSUME NEW k \in Jobs PROVE job'[k].token <= issued'[k]
      <4>1. CASE k = j
        BY <2>1, <2>3, <2>4, <4>1
      <4>2. CASE k # j
        BY <2>4, <4>2 DEF LeaseInv, TokensAreDrawn
      <4> QED
        BY <4>1, <4>2
    <3>2. \A g \in grants : g.token \in 1..issued'[g.job]
      <4> SUFFICES ASSUME NEW g \in grants PROVE g.token \in 1..issued'[g.job]
        OBVIOUS
      <4>1. g.job \in Jobs /\ g.token \in 1..issued[g.job] /\ issued[g.job] \in Nat
        BY DEF LeaseInv, TokensAreDrawn, TypeOK, Grant
      <4>2. issued'[g.job] = issued[g.job] \/ issued'[g.job] = issued[g.job] + 1
        BY <2>4, <4>1
      <4> QED
        BY <4>1, <4>2
    <3> QED
      BY <2>1, <2>2, <2>4, <3>1, <3>2 DEF TokensAreDrawn
  <2>9. AbsentIsBlank'
    BY <2>2, <2>3, <2>4, <2>e DEF LeaseInv, AbsentIsBlank
  <2> QED
    BY <2>5, <2>6, <2>7, <2>8, <2>9 DEF LeaseInv
<1>5. ASSUME NEW w \in Workers, ClaimRollback(w) PROVE LeaseInv'
  <2>1. ClaimsHoldTheirRows'
    BY <1>5 DEF ClaimRollback, LeaseInv, ClaimsHoldTheirRows, TypeOK
  <2> QED
    BY <1>5, <2>1 DEF ClaimRollback, LeaseInv, EveryGrantIsCharged, LeaseFollowsStatus,
       TokensAreDrawn, AbsentIsBlank
<1>6. ASSUME NEW g \in grants, NEW s \in Reported, NEW p \in 0..Full, Progress(g, s, p)
      PROVE  LeaseInv'
  <2> DEFINE row == Advanced(job[g.job], s, p)
  <2>1. Authorized(g) /\ WriteLogged(g.job, row) /\ UNCHANGED <<grants, issued, claiming>>
    BY <1>6 DEF Progress
  <2>2. /\ g.job \in Jobs /\ Lockable(g.job) /\ job[g.job].status \in Working
        /\ job[g.job] \in Row /\ s \in Working
    BY <2>1, AuthorizedIsWorking DEF TypeOK
  <2>3. /\ row.status = s /\ row.lease = "live" /\ row.worker = job[g.job].worker
        /\ row.token = job[g.job].token /\ row.attempts = job[g.job].attempts
    BY <2>2 DEF Advanced, Row
  <2>4. row \in Row
    BY <2>2, RowTypes
  <2> HIDE DEF row
  <2>5. /\ job'[g.job].status = row.status     /\ job'[g.job].worker = row.worker
        /\ job'[g.job].token = row.token       /\ job'[g.job].lease = row.lease
        /\ job'[g.job].attempts = row.attempts
        /\ \A k \in Jobs \ {g.job} : job'[k] = job[k] /\ events'[k] = events[k]
    BY ZenonT(40), <2>1, <2>2, <2>4, WriteLoggedEffect
  <2>6. RowMove(g.job)
    BY <2>2, <2>3, <2>5, StatusFacts DEF RowMove
  <2> QED
    BY <2>1, <2>5, <2>6, RowMovesKeepLeases
<1>7. ASSUME NEW g \in grants, Complete(g) PROVE LeaseInv'
  <2> DEFINE row == [Unleased(job[g.job]) EXCEPT !.status = "completed", !.progress = Full]
  <2>1. Authorized(g) /\ WriteLogged(g.job, row) /\ UNCHANGED <<grants, issued, claiming>>
    BY <1>7 DEF Complete
  <2>2. g.job \in Jobs /\ Lockable(g.job) /\ job[g.job] \in Row
    BY <2>1, AuthorizedIsWorking DEF TypeOK
  <2>3. /\ row.status = "completed" /\ row.token = NoToken
        /\ row.attempts = job[g.job].attempts
    BY <2>2 DEF Unleased, Row
  <2>4. row \in Row
    BY <2>2, RowTypes
  <2> HIDE DEF row
  <2>5. /\ job'[g.job].status = row.status     /\ job'[g.job].worker = row.worker
        /\ job'[g.job].token = row.token       /\ job'[g.job].lease = row.lease
        /\ job'[g.job].attempts = row.attempts
        /\ \A k \in Jobs \ {g.job} : job'[k] = job[k] /\ events'[k] = events[k]
    BY <2>1, <2>2, <2>4, WriteLoggedEffect
  <2>6. RowMove(g.job)
    BY <2>2, <2>3, <2>5, StatusFacts DEF RowMove
  <2> QED
    BY <2>1, <2>5, <2>6, RowMovesKeepLeases
<1>8. ASSUME NEW g \in grants, NEW retriable \in BOOLEAN, Fail(g, retriable)
      PROVE  LeaseInv'
  <2>1. Authorized(g) /\ UNCHANGED <<grants, issued, claiming>>
    BY <1>8 DEF Fail
  <2>2. g.job \in Jobs /\ Lockable(g.job) /\ job[g.job] \in Row
    BY <2>1, AuthorizedIsWorking DEF TypeOK
  <2>3. CASE retriable /\ ~Spent(job[g.job])
    <3>1. WriteLogged(g.job, Requeued(job[g.job]))
      BY <1>8, <2>3 DEF Fail
    <3>2. Requeued(job[g.job]) \in Row
      BY <2>2, RowTypes
    <3>4. job[g.job].attempts < MaxAttempts
      BY <2>2, <2>3 DEF Spent, Row
    <3>3. /\ job'[g.job].status = Requeued(job[g.job]).status     /\ job'[g.job].worker = Requeued(job[g.job]).worker
          /\ job'[g.job].token = Requeued(job[g.job]).token       /\ job'[g.job].lease = Requeued(job[g.job]).lease
          /\ job'[g.job].attempts = Requeued(job[g.job]).attempts
          /\ \A k \in Jobs \ {g.job} : job'[k] = job[k] /\ events'[k] = events[k]
      BY ZenonT(40), <2>2, <3>1, <3>2, WriteLoggedEffect
    <3>5. RowMove(g.job)
      BY <2>2, <3>4, <3>3, RowFields, StatusFacts DEF RowMove
    <3> QED
      BY <2>1, <3>3, <3>5, RowMovesKeepLeases
  <2>4. CASE ~(retriable /\ ~Spent(job[g.job]))
    <3>1. WriteLogged(g.job, GivenUp(job[g.job]))
      BY <1>8, <2>4 DEF Fail
    <3>2. GivenUp(job[g.job]) \in Row
      BY <2>2, RowTypes
    <3>3. /\ job'[g.job].status = GivenUp(job[g.job]).status     /\ job'[g.job].worker = GivenUp(job[g.job]).worker
          /\ job'[g.job].token = GivenUp(job[g.job]).token       /\ job'[g.job].lease = GivenUp(job[g.job]).lease
          /\ job'[g.job].attempts = GivenUp(job[g.job]).attempts
          /\ \A k \in Jobs \ {g.job} : job'[k] = job[k] /\ events'[k] = events[k]
      BY <2>2, <3>1, <3>2, WriteLoggedEffect
    <3>5. RowMove(g.job)
      BY <2>2, <3>3, RowFields, StatusFacts DEF RowMove
    <3> QED
      BY <2>1, <3>3, <3>5, RowMovesKeepLeases
  <2> QED
    BY <2>3, <2>4
<1>9. CASE Reap
  <2>1. PICK batch \in SUBSET Expired : job' = [j \in Jobs |-> Reaped(j, batch)]
    BY <1>9 DEF Reap
  <2>2. ASSUME NEW k \in Jobs
        PROVE  RowMove(k) \/ (job'[k] = job[k] /\ events'[k] = events[k])
    <3>1. job[k] \in Row /\ job'[k] = Reaped(k, batch) /\ events'[k] = events[k]
      BY <1>9, <2>1 DEF Reap, TypeOK
    <3>2. CASE k \in Expired /\ Spent(job[k])
      <4>1. job'[k] = GivenUp(job[k])
        BY <3>1, <3>2 DEF Reaped
      <4>2. Lockable(k)
        BY <1>9, <3>2 DEF Reap
      <4>3. /\ job'[k].status = "failed" /\ job'[k].token = NoToken
            /\ job'[k].attempts = job[k].attempts
        BY <3>1, <4>1, RowFields
      <4> QED
        BY <4>2, <4>3, StatusFacts DEF RowMove
    <3>3. CASE k \in batch /\ ~Spent(job[k])
      <4>1. job'[k] = Requeued(job[k])
        BY <3>1, <3>3 DEF Reaped
      <4>2. job[k].attempts < MaxAttempts
        BY <3>1, <3>3 DEF Spent, Row
      <4>3. Lockable(k)
        BY <1>9, <3>3 DEF Reap
      <4>4. /\ job'[k].status = "queued" /\ job'[k].worker = Nobody
            /\ job'[k].token = NoToken   /\ job'[k].lease = "none"
            /\ job'[k].attempts = job[k].attempts
        BY <3>1, <4>1, RowFields
      <4> QED
        BY <4>2, <4>3, <4>4, StatusFacts DEF RowMove
    <3>4. CASE ~(k \in Expired /\ Spent(job[k])) /\ ~(k \in batch /\ ~Spent(job[k]))
      BY <3>1, <3>4 DEF Reaped
    <3> QED
      BY <3>2, <3>3, <3>4
  <2> QED
    BY <1>9, <2>2, RowMovesKeepLeases DEF Reap
<1>10. ASSUME NEW r \in Requests, NEW j \in Jobs, CancelLoad(r, j) PROVE LeaseInv'
  BY <1>10 DEF CancelLoad, LeaseInv, EveryGrantIsCharged, LeaseFollowsStatus,
     ClaimsHoldTheirRows, TokensAreDrawn, AbsentIsBlank
<1>11. ASSUME NEW r \in Requests, CancelCommit(r) PROVE LeaseInv'
  <2> DEFINE loaded == cancel[r]
             j      == loaded.job
  <2>1. /\ j \in Jobs /\ job[j] \in Row /\ Lockable(j)
        /\ job' = [job EXCEPT ![j] = Cancelled(job[j], loaded)]
    BY <1>11 DEF CancelCommit, TypeOK, Loaded
  <2>2. /\ Cancelled(job[j], loaded).status = "cancelled"
        /\ Cancelled(job[j], loaded).token \in {job[j].token, NoToken}
        /\ Cancelled(job[j], loaded).attempts = job[j].attempts
    BY <2>1 DEF Cancelled, Row
  <2>3. RowMove(j)
    BY <2>1, <2>2 DEF RowMove, TypeOK, Working, Absent
  <2>4. \A k \in Jobs \ {j} : job'[k] = job[k] /\ events'[k] = events[k]
    BY <1>11, <2>1 DEF CancelCommit, TypeOK
  <2> QED
    BY <1>11, <2>3, <2>4, RowMovesKeepLeases DEF CancelCommit
<1>12. ASSUME NEW r \in Requests, CancelRollback(r) PROVE LeaseInv'
  BY <1>12 DEF CancelRollback, LeaseInv, EveryGrantIsCharged, LeaseFollowsStatus,
     ClaimsHoldTheirRows, TokensAreDrawn, AbsentIsBlank
<1>13. CASE UNCHANGED vars
  BY <1>13 DEF vars, LeaseInv, EveryGrantIsCharged, LeaseFollowsStatus,
     ClaimsHoldTheirRows, TokensAreDrawn, AbsentIsBlank
<1> QED
  BY <1>1, <1>2, <1>3, <1>4, <1>5, <1>6, <1>7, <1>8, <1>9, <1>10, <1>11, <1>12, <1>13
  DEF Next

\* The lease invariant holds of the queue.
LEMMA LeaseInvariant == Spec => []LeaseInv
<1> QED
  BY TypeCorrect, InitLease, NextLease, PTL DEF Spec

\* However claims, retries and the reaper interleave, each lease handed out is
\* one attempt, and a job is never handed out more than MaxAttempts times.
THEOREM GrantsAreCharged == Spec => []EveryGrantIsCharged
<1>1. LeaseInv => EveryGrantIsCharged
  BY DEF LeaseInv
<1> QED
  BY <1>1, LeaseInvariant, PTL

\* A working job always has a lease for the reaper to find, and a queued one an
\* attempt left and no lease.
THEOREM LeasesFollowStatus == Spec => []LeaseFollowsStatus
<1>1. LeaseInv => LeaseFollowsStatus
  BY DEF LeaseInv
<1> QED
  BY <1>1, LeaseInvariant, PTL

(***************************************************************************)
(* Progress under one lease.                                               *)
(***************************************************************************)
\* What ForwardUnderOneLease says of one job in one step.
Forward(j) ==
    job[j].token # NoToken /\ job'[j].token = job[j].token =>
       /\ job'[j].progress >= job[j].progress
       /\ job'[j].status \in Working => Rank(job'[j].status) >= Rank(job[j].status)

\* Ranks are numbers.
LEMMA RankType == \A s \in Status : Rank(s) \in Nat
  BY DEF Rank, Status, Working, Terminal

\* A row whose status and progress stay moves forward.
LEMMA StaysForward ==
    ASSUME TypeOK, NEW j \in Jobs, job[j].status # Absent,
           job'[j].progress = job[j].progress,
           job'[j].status = job[j].status \/ job'[j].status \notin Working
    PROVE  Forward(j)
<1>1. job[j].progress \in 0..Full /\ Rank(job[j].status) \in Nat
  BY RankType DEF TypeOK, Row
<1> QED
  BY <1>1 DEF Forward

\* A row that has no lease, or loses it or gets another one, is free to.
LEMMA OtherLease ==
    ASSUME NEW j \in Jobs, job[j].token = NoToken \/ job'[j].token # job[j].token
    PROVE  Forward(j)
  BY DEF Forward

\* A row that has a lease is of a job that exists.
LEMMA RowWithLease ==
    ASSUME LeaseInv, NEW j \in Jobs, job[j].token # NoToken
    PROVE  job[j].status # Absent
<1>1. NoRow.token = NoToken
  BY DEF NoRow
<1> QED
  BY <1>1 DEF LeaseInv, AbsentIsBlank

\* A row that is not touched has not gone back.
LEMMA UntouchedForward ==
    ASSUME TypeOK, LeaseInv, NEW j \in Jobs, job'[j] = job[j]
    PROVE  Forward(j)
  BY StaysForward, OtherLease, RowWithLease

\* No step takes a leased job back.
LEMMA NextForward ==
    ASSUME TypeOK, LeaseInv, Next, NEW k \in Jobs
    PROVE  Forward(k)
<1>0. job[k] \in Row
  BY DEF TypeOK
<1>1. ASSUME NEW j \in Jobs, Submit(j) PROVE Forward(k)
  <2>1. k = j => job[k].token = NoToken
    BY <1>1 DEF Submit, LeaseInv, AbsentIsBlank, NoRow
  <2>2. k # j => job'[k] = job[k]
    BY <1>1, WriteLoggedEffect, NoRowType DEF Submit
  <2> QED
    BY <2>1, <2>2, OtherLease, UntouchedForward
<1>2. ASSUME NEW j \in Jobs, LeaseExpires(j) PROVE Forward(k)
  <2>1. job'[k].status = job[k].status /\ job'[k].progress = job[k].progress
    BY <1>0, <1>2 DEF LeaseExpires, TypeOK, Row
  <2> QED
    BY <2>1, StaysForward, OtherLease, RowWithLease
<1>3. ASSUME NEW w \in Workers, ClaimCommit(w) PROVE Forward(k)
  <2> DEFINE j == claiming[w].job
  <2>1. j \in Jobs /\ job[j].status = "queued"
    BY <1>3 DEF ClaimCommit, TypeOK, Locked, LeaseInv, ClaimsHoldTheirRows
  <2>2. job[j].token = NoToken
    BY <2>1 DEF LeaseInv, LeaseFollowsStatus
  <2>3. k # j => job'[k] = job[k]
    BY <1>3 DEF ClaimCommit, TypeOK
  <2> HIDE DEF j
  <2> QED
    BY <2>2, <2>3, OtherLease, UntouchedForward
<1>4. ASSUME NEW g \in grants, NEW s \in Reported, NEW p \in 0..Full, Progress(g, s, p)
      PROVE  Forward(k)
  <2> DEFINE row == Advanced(job[g.job], s, p)
  <2>1. /\ Authorized(g) /\ WriteLogged(g.job, row)
        /\ CanTransition(job[g.job].status, s)
    BY <1>4 DEF Progress
  <2>2. /\ g.job \in Jobs /\ job[g.job] \in Row /\ s \in Working
        /\ job[g.job].status \in Working
    BY <2>1, AuthorizedIsWorking DEF TypeOK
  <2>3. row \in Row
    BY <2>2, RowTypes
  <2>4. row.status = s /\ row.progress \in 0..Full /\ row.progress >= job[g.job].progress
    BY <2>2 DEF Advanced, Row
  <2>5. Rank(s) >= Rank(job[g.job].status)
    <3>1. Rank(s) \in Nat /\ Rank(job[g.job].status) \in Nat
      BY <2>2, RankType, StatusFacts
    <3> QED
      BY <2>1, <2>2, <3>1, StatusFacts DEF CanTransition
  <2> HIDE DEF row
  <2>6. /\ job'[g.job].status = row.status /\ job'[g.job].progress = row.progress
        /\ \A i \in Jobs \ {g.job} : job'[i] = job[i]
    BY <2>1, <2>2, <2>3, WriteLoggedEffect
  <2>7. Forward(g.job)
    BY <2>4, <2>5, <2>6 DEF Forward
  <2> QED
    BY <2>6, <2>7, UntouchedForward
<1>5. ASSUME NEW g \in grants, NEW row \in Row, Authorized(g), WriteLogged(g.job, row),
             row.token = NoToken
      PROVE  Forward(k)
  <2>1. g.job \in Jobs /\ job[g.job].token = g.token /\ g.token # NoToken
    BY <1>5, AuthorizedIsWorking DEF NoToken
  <2>2. job'[g.job].token = NoToken /\ \A i \in Jobs \ {g.job} : job'[i] = job[i]
    BY <1>5, <2>1, WriteLoggedEffect
  <2> QED
    BY <2>1, <2>2, OtherLease, UntouchedForward
<1>6. ASSUME NEW g \in grants, Complete(g) PROVE Forward(k)
  <2> DEFINE row == [Unleased(job[g.job]) EXCEPT !.status = "completed", !.progress = Full]
  <2>1. Authorized(g) /\ WriteLogged(g.job, row) /\ job[g.job] \in Row
    BY <1>6, AuthorizedIsWorking DEF Complete, TypeOK
  <2>2. row \in Row
    BY <2>1, RowTypes
  <2>3. row.token = NoToken
    BY <2>1 DEF Unleased, Row
  <2> HIDE DEF row
  <2> QED
    BY <1>5, <2>1, <2>2, <2>3
<1>7. ASSUME NEW g \in grants, NEW retriable \in BOOLEAN, Fail(g, retriable)
      PROVE  Forward(k)
  <2>1. PICK row \in {Requeued(job[g.job]), GivenUp(job[g.job])} :
          Authorized(g) /\ WriteLogged(g.job, row)
    BY <1>7 DEF Fail
  <2>2. job[g.job] \in Row
    BY <2>1, AuthorizedIsWorking DEF TypeOK
  <2>3. row \in Row /\ row.token = NoToken
    BY <2>2, RowTypes, RowFields
  <2> QED
    BY <1>5, <2>1, <2>3
<1>8. CASE Reap
  <2>1. PICK batch \in SUBSET Expired : job'[k] = Reaped(k, batch)
    BY <1>8 DEF Reap
  <2>2. job'[k] = job[k] \/ job'[k].token = NoToken
    BY <1>0, <2>1, RowFields DEF Reaped
  <2> QED
    BY <2>2, OtherLease, UntouchedForward
<1>9. ASSUME NEW r \in Requests, CancelCommit(r) PROVE Forward(k)
  <2> DEFINE loaded == cancel[r]
             j      == loaded.job
  <2>1. j \in Jobs /\ job' = [job EXCEPT ![j] = Cancelled(job[j], loaded)]
    BY <1>9 DEF CancelCommit, TypeOK, Loaded
  <2>2. Cancelled(job[j], loaded).status = "cancelled"
        /\ Cancelled(job[j], loaded).progress = job[j].progress
    BY <2>1 DEF Cancelled, TypeOK, Row
  <2>3. job'[j].status = "cancelled" /\ job'[j].progress = job[j].progress
    BY <2>1, <2>2 DEF TypeOK
  <2>4. k # j => job'[k] = job[k]
    BY <2>1 DEF TypeOK
  <2>5. "cancelled" \notin Working
    BY DEF Working
  <2> HIDE DEF j
  <2> QED
    BY <2>3, <2>4, <2>5, StaysForward, OtherLease, RowWithLease, UntouchedForward
<1>10. CASE UNCHANGED job
  BY <1>10, UntouchedForward
<1> QED
  BY <1>1, <1>2, <1>3, <1>4, <1>6, <1>7, <1>8, <1>9, <1>10
  DEF Next, ClaimLock, ClaimRollback, CancelLoad, CancelRollback

\* While a lease lasts, reports in any order, repeated or late, never take the
\* job back to an earlier stage or a lower progress.
THEOREM LeasesMoveForward == Spec => ForwardUnderOneLease
<1>1. TypeOK /\ LeaseInv /\ [Next]_vars => [\A j \in Jobs : Forward(j)]_vars
  BY NextForward
<1>2. (\A j \in Jobs : Forward(j)) <=>
      \A j \in Jobs :
          job[j].token # NoToken /\ job'[j].token = job[j].token =>
             /\ job'[j].progress >= job[j].progress
             /\ job'[j].status \in Working => Rank(job'[j].status) >= Rank(job[j].status)
  BY DEF Forward
<1> QED
  BY <1>1, <1>2, TypeCorrect, LeaseInvariant, PTL DEF Spec, ForwardUnderOneLease

-----------------------------------------------------------------------------
(***************************************************************************)
(* What the queue records: the event log of a job, the outcome it tells,   *)
(* the output it delivers, and the contract all of it keeps.               *)
(***************************************************************************)

(***************************************************************************)
(* What a step can make of one job.  Either an event is appended to its    *)
(* log, by its creation, a report, its completion or a cancellation, or    *)
(* its log stays, as it does when a worker leases it and when the reaper   *)
(* takes it back or gives it up.                                           *)
(***************************************************************************)
Appends(k) ==
    /\ \A e \in events[k] : ~IsTerminal(e.status)
    /\ job'[k].seq = job[k].seq + 1
    /\ \E p \in 0..Full : events'[k] = events[k] \cup
          {[seq |-> job[k].seq + 1, status |-> job'[k].status, progress |-> p]}
    /\ issued'[k] = issued[k]
    /\ \/ /\ job[k].status = Absent
          /\ job'[k].status = "queued"
          /\ outputs'[k] = outputs[k]
       \/ /\ job[k].status \in Working
          /\ job'[k].status \in Working \cup {"queued", "failed"}
          /\ outputs'[k] = outputs[k]
       \/ /\ job[k].status \in Working
          /\ job'[k].status = "completed"
          /\ outputs'[k] = outputs[k] \cup {issued[k]}
       \/ /\ job[k].status # Absent
          /\ job'[k].status = "cancelled"
          /\ outputs'[k] = outputs[k]

Keeps(k) ==
    /\ events'[k] = events[k]
    /\ job'[k].seq = job[k].seq
    /\ outputs'[k] = outputs[k]
    /\ \/ /\ job'[k].status = job[k].status
          /\ job'[k].attempts = job[k].attempts
          /\ issued'[k] = issued[k]
       \/ /\ job[k].status = "queued"
          /\ job'[k].status = "assigned"
          /\ issued'[k] = issued[k] + 1
       \/ /\ job[k].status \in Working
          /\ job'[k].status = "queued"
          /\ issued'[k] = issued[k]
       \/ /\ job[k].status \in Working
          /\ job'[k].status = "failed" /\ job'[k].attempts = MaxAttempts
          /\ issued'[k] = issued[k]

Moves == \A k \in Jobs : Appends(k) \/ Keeps(k)

\* The log of a job that is not over has no terminal event.
LEMMA LiveLogIsOpen ==
    ASSUME LogInv, NEW j \in Jobs, ~IsTerminal(job[j].status)
    PROVE  \A e \in events[j] : ~IsTerminal(e.status)
  BY DEF LogInv, TerminalEventIsLast

\* A job a step does not touch keeps everything.
LEMMA Untouched ==
    ASSUME NEW k \in Jobs, job'[k] = job[k], events'[k] = events[k],
           outputs'[k] = outputs[k], issued'[k] = issued[k]
    PROVE  Keeps(k)
  BY DEF Keeps

\* A report under a lease appends.
LEMMA ReportAppends ==
    ASSUME TypeOK, LeaseInv, LogInv, NEW g \in grants, Authorized(g), NEW row \in Row,
           WriteLogged(g.job, row), row.seq = job[g.job].seq,
           issued' = issued,
           \/ /\ row.status \in Working \cup {"queued", "failed"}
              /\ outputs' = outputs
           \/ /\ row.status = "completed"
              /\ outputs' = [outputs EXCEPT ![g.job] = @ \cup {g.token}]
    PROVE  Moves
<1>1. /\ g.job \in Jobs /\ job[g.job].status \in Working
      /\ g.token = issued[g.job]
  BY AuthorizedIsWorking
<1>2. /\ \A k \in Jobs \ {g.job} : job'[k] = job[k] /\ events'[k] = events[k]
      /\ job'[g.job].status = row.status
      /\ job'[g.job].seq = row.seq + 1
      /\ events'[g.job] = events[g.job] \cup
            {[seq |-> row.seq + 1, status |-> row.status, progress |-> row.progress]}
  BY <1>1, WriteLoggedEffect
<1>3. \A k \in Jobs \ {g.job} : outputs'[k] = outputs[k]
  BY DEF TypeOK
<1>4. \A e \in events[g.job] : ~IsTerminal(e.status)
  BY <1>1, LiveLogIsOpen, StatusFacts
<1>5. row.progress \in 0..Full
  BY DEF Row
<1>6. row.status = "completed" /\ outputs' = [outputs EXCEPT ![g.job] = @ \cup {g.token}]
      => outputs'[g.job] = outputs[g.job] \cup {issued[g.job]}
  BY <1>1 DEF TypeOK
<1>7. Appends(g.job)
  BY <1>1, <1>2, <1>4, <1>5, <1>6 DEF Appends
<1> QED
  BY <1>2, <1>3, <1>7, Untouched DEF Moves

\* Whatever a step makes of a job is one of its moves.
LEMMA NextMoves ==
    ASSUME TypeOK, LeaseInv, LogInv, Next
    PROVE  Moves
<1>1. ASSUME NEW j \in Jobs, Submit(j) PROVE Moves
  <2> DEFINE row == [NoRow EXCEPT !.status = "queued"]
  <2>1. row \in Row /\ WriteLogged(j, row)
    BY <1>1, NoRowType DEF Submit
  <2>2. row.status = "queued" /\ row.seq = 0 /\ row.progress = 0
    BY DEF NoRow
  <2>3. job[j].status = Absent /\ job[j].seq = 0 /\ events[j] = {}
    BY <1>1 DEF Submit, LeaseInv, AbsentIsBlank, NoRow
  <2> HIDE DEF row
  <2>4. /\ \A k \in Jobs \ {j} : job'[k] = job[k] /\ events'[k] = events[k]
        /\ job'[j].status = row.status
        /\ job'[j].seq = row.seq + 1
        /\ events'[j] = events[j] \cup
              {[seq |-> row.seq + 1, status |-> row.status, progress |-> row.progress]}
    BY <2>1, WriteLoggedEffect
  <2>5. outputs' = outputs /\ issued' = issued
    BY <1>1 DEF Submit
  <2>6. 0 \in 0..Full
    OBVIOUS
  <2>7. Appends(j)
    BY <2>2, <2>3, <2>4, <2>5, <2>6 DEF Appends
  <2> QED
    BY <2>4, <2>5, <2>7, Untouched DEF Moves
<1>2. ASSUME NEW j \in Jobs, LeaseExpires(j) PROVE Moves
  <2>1. \A k \in Jobs : /\ job'[k].status = job[k].status /\ job'[k].seq = job[k].seq
                        /\ job'[k].attempts = job[k].attempts
    BY <1>2 DEF LeaseExpires, TypeOK, Row
  <2> QED
    BY <1>2, <2>1 DEF LeaseExpires, Moves, Keeps
<1>3. ASSUME NEW w \in Workers, ClaimLock(w) \/ ClaimRollback(w) PROVE Moves
  BY <1>3, Untouched DEF ClaimLock, ClaimRollback, Moves
<1>4. ASSUME NEW w \in Workers, ClaimCommit(w) PROVE Moves
  <2> DEFINE j == claiming[w].job
  <2>1. j \in Jobs /\ job[j].status = "queued" /\ job[j] \in Row
    BY <1>4 DEF ClaimCommit, TypeOK, Locked, LeaseInv, ClaimsHoldTheirRows
  <2>2. /\ job' = [job EXCEPT ![j] = [job[j] EXCEPT !.status   = "assigned",
                                                    !.worker   = w,
                                                    !.token    = issued[j] + 1,
                                                    !.lease    = "live",
                                                    !.attempts = claiming[w].attempts + 1]]
        /\ issued' = [issued EXCEPT ![j] = issued[j] + 1]
        /\ events' = events /\ outputs' = outputs
    BY <1>4 DEF ClaimCommit
  <2> HIDE DEF j
  <2>3. job'[j].status = "assigned" /\ job'[j].seq = job[j].seq /\ issued'[j] = issued[j] + 1
    BY <2>1, <2>2 DEF TypeOK, Row
  <2>4. \A k \in Jobs \ {j} : job'[k] = job[k] /\ issued'[k] = issued[k]
    BY <2>1, <2>2 DEF TypeOK
  <2>5. Keeps(j)
    BY <2>1, <2>2, <2>3 DEF Keeps
  <2> QED
    BY <2>2, <2>4, <2>5, Untouched DEF Moves
<1>5. ASSUME NEW g \in grants, NEW s \in Reported, NEW p \in 0..Full, Progress(g, s, p)
      PROVE  Moves
  <2> DEFINE row == Advanced(job[g.job], s, p)
  <2>1. Authorized(g) /\ WriteLogged(g.job, row) /\ issued' = issued /\ outputs' = outputs
    BY <1>5 DEF Progress
  <2>2. g.job \in Jobs /\ job[g.job] \in Row /\ s \in Working
    BY <2>1, AuthorizedIsWorking DEF TypeOK
  <2>3. row \in Row
    BY <2>2, RowTypes
  <2>4. row.status = s /\ row.seq = job[g.job].seq
    BY <2>2 DEF Advanced, Row
  <2> HIDE DEF row
  <2> QED
    BY <2>1, <2>2, <2>3, <2>4, ReportAppends
<1>6. ASSUME NEW g \in grants, Complete(g) PROVE Moves
  <2> DEFINE row == [Unleased(job[g.job]) EXCEPT !.status = "completed", !.progress = Full]
  <2>1. /\ Authorized(g) /\ WriteLogged(g.job, row) /\ issued' = issued
        /\ outputs' = [outputs EXCEPT ![g.job] = @ \cup {g.token}]
    BY <1>6 DEF Complete
  <2>2. g.job \in Jobs /\ job[g.job] \in Row
    BY <2>1, AuthorizedIsWorking DEF TypeOK
  <2>3. row \in Row
    BY <2>2, RowTypes
  <2>4. row.status = "completed" /\ row.seq = job[g.job].seq
    BY <2>2 DEF Unleased, Row
  <2> HIDE DEF row
  <2> QED
    BY <2>1, <2>2, <2>3, <2>4, ReportAppends
<1>7. ASSUME NEW g \in grants, NEW retriable \in BOOLEAN, Fail(g, retriable) PROVE Moves
  <2>1. PICK row \in {Requeued(job[g.job]), GivenUp(job[g.job])} :
          Authorized(g) /\ WriteLogged(g.job, row) /\ issued' = issued /\ outputs' = outputs
    BY <1>7 DEF Fail
  <2>2. g.job \in Jobs /\ job[g.job] \in Row
    BY <2>1, AuthorizedIsWorking DEF TypeOK
  <2>3. row \in Row
    BY <2>2, RowTypes
  <2>4. row.status \in {"queued", "failed"} /\ row.seq = job[g.job].seq
    BY <2>2, RowFields
  <2> QED
    BY <2>1, <2>2, <2>3, <2>4, ReportAppends
<1>8. CASE Reap
  <2>1. PICK batch \in SUBSET Expired : job' = [j \in Jobs |-> Reaped(j, batch)]
    BY <1>8 DEF Reap
  <2>2. events' = events /\ outputs' = outputs /\ issued' = issued
    BY <1>8 DEF Reap
  <2>3. ASSUME NEW k \in Jobs PROVE Keeps(k)
    <3>1. job[k] \in Row /\ job'[k] = Reaped(k, batch)
      BY <2>1 DEF TypeOK
    <3>2. k \in Expired => job[k].status \in Working
      BY <3>1 DEF Expired, Live, IsTerminal, LeaseInv, LeaseFollowsStatus, Row, Status
    <3>3. CASE k \in Expired /\ Spent(job[k])
      <4>1. job'[k] = GivenUp(job[k])
        BY <3>1, <3>3 DEF Reaped
      <4>2. job[k].attempts = MaxAttempts
        <5>1. job[k].attempts >= MaxAttempts /\ job[k].attempts \in Nat
          BY <3>1, <3>3 DEF Spent, Row
        <5>2. job[k].attempts <= MaxAttempts
          BY DEF LeaseInv, EveryGrantIsCharged
        <5> QED
          BY <5>1, <5>2
      <4> QED
        BY <2>2, <3>1, <3>2, <3>3, <4>1, <4>2, RowFields DEF Keeps
    <3>4. CASE k \in batch /\ ~Spent(job[k])
      <4>1. job'[k] = Requeued(job[k])
        BY <3>1, <3>4 DEF Reaped
      <4> QED
        BY <2>2, <3>1, <3>2, <3>4, <4>1, RowFields DEF Keeps
    <3>5. CASE ~(k \in Expired /\ Spent(job[k])) /\ ~(k \in batch /\ ~Spent(job[k]))
      <4>1. job'[k] = job[k]
        BY <3>1, <3>5 DEF Reaped
      <4> QED
        BY <2>2, <4>1, Untouched
    <3> QED
      BY <3>3, <3>4, <3>5
  <2> QED
    BY <2>3 DEF Moves
<1>9. ASSUME NEW r \in Requests,
             (\E j \in Jobs : CancelLoad(r, j)) \/ CancelRollback(r)
      PROVE  Moves
  BY <1>9, Untouched DEF CancelLoad, CancelRollback, Moves
<1>10. ASSUME NEW r \in Requests, CancelCommit(r) PROVE Moves
  <2> DEFINE loaded == cancel[r]
             j      == loaded.job
  <2>1. /\ loaded # Nobody /\ loaded \in Loaded /\ j \in Jobs /\ job[j] \in Row
        /\ loaded.seq \in Nat /\ loaded.progress \in 0..Full /\ job[j].seq \in Nat
    BY <1>10 DEF CancelCommit, TypeOK, Loaded, Row
  <2>2. /\ SeqFree(j, loaded.seq + 1)
        /\ job' = [job EXCEPT ![j] = Cancelled(job[j], loaded)]
        /\ events' = [events EXCEPT ![j] = @ \cup
              {[seq |-> loaded.seq + 1, status |-> "cancelled", progress |-> loaded.progress]}]
        /\ outputs' = outputs /\ issued' = issued
    BY <1>10 DEF CancelCommit
  <2>3. /\ job[j].status # Absent
        /\ loaded.seq <= job[j].seq
        /\ \A e \in events[j] : IsTerminal(e.status) => loaded.seq < e.seq
    BY <2>1 DEF LogInv, CancelsReadThePast
  <2>4. loaded.seq = job[j].seq
    <3>1. loaded.seq + 1 \notin {e.seq : e \in events[j]}
      BY <2>2 DEF SeqFree
    <3>2. {e.seq : e \in events[j]} = 1..job[j].seq
      BY <2>1 DEF LogInv, LogIsDense
    <3> HIDE DEF j, loaded
    <3>3. loaded.seq + 1 \notin 1..job[j].seq
      BY <3>1, <3>2
    <3> QED
      BY <2>1, <2>3, <3>3
  <2>5. \A e \in events[j] : ~IsTerminal(e.status)
    <3>1. \A e \in events[j] : IsTerminal(e.status) => e.seq = job[j].seq
      BY <2>1 DEF LogInv, TerminalEventIsLast
    <3> QED
      BY <2>1, <2>3, <2>4, <3>1
  <2>6. /\ Cancelled(job[j], loaded).status = "cancelled"
        /\ Cancelled(job[j], loaded).seq = loaded.seq + 1
    BY <2>1 DEF Cancelled, Row
  <2> HIDE DEF j, loaded
  <2>7. /\ job'[j].status = "cancelled" /\ job'[j].seq = job[j].seq + 1
        /\ events'[j] = events[j] \cup
              {[seq |-> job[j].seq + 1, status |-> "cancelled", progress |-> loaded.progress]}
    BY <2>1, <2>2, <2>4, <2>6 DEF TypeOK
  <2>8. \A k \in Jobs \ {j} : job'[k] = job[k] /\ events'[k] = events[k]
    BY <2>1, <2>2 DEF TypeOK
  <2>9. Appends(j)
    BY <2>1, <2>2, <2>3, <2>5, <2>7 DEF Appends
  <2> QED
    BY <2>2, <2>8, <2>9, Untouched DEF Moves
<1> QED
  BY <1>1, <1>2, <1>3, <1>4, <1>5, <1>6, <1>7, <1>8, <1>9, <1>10 DEF Next

(***************************************************************************)
(* What a step can make of a cancel request.                               *)
(***************************************************************************)
CancelMoves ==
    \A r \in Requests :
       \/ cancel'[r] \in {cancel[r], Nobody}
       \/ /\ cancel'[r].job \in Jobs /\ Live(cancel'[r].job)
          /\ cancel'[r].seq = job[cancel'[r].job].seq
          /\ UNCHANGED <<job, events>>

\* Whatever a step makes of a cancel request is one of its moves.
LEMMA NextCancelMoves == ASSUME TypeOK, Next PROVE CancelMoves
<1>1. CASE UNCHANGED cancel
  BY <1>1 DEF CancelMoves
<1>2. ASSUME NEW r \in Requests, NEW j \in Jobs, CancelLoad(r, j) PROVE CancelMoves
  BY <1>2 DEF CancelLoad, CancelMoves, TypeOK
<1>3. ASSUME NEW r \in Requests, CancelCommit(r) \/ CancelRollback(r) PROVE CancelMoves
  BY <1>3 DEF CancelCommit, CancelRollback, CancelMoves, TypeOK
<1> QED
  BY <1>1, <1>2, <1>3 DEF Next, Submit, LeaseExpires, ClaimLock, ClaimCommit, ClaimRollback,
     Progress, Complete, Fail, Reap

(***************************************************************************)
(* The log.                                                                *)
(***************************************************************************)
LEMMA InitLog == Init => LogInv
<1> SUFFICES ASSUME Init PROVE LogInv
  OBVIOUS
<1>1. \A j \in Jobs : job[j].status = Absent /\ job[j].seq = 0 /\ events[j] = {}
  BY DEF Init, NoRow
<1>2. ~IsTerminal(Absent)
  BY DEF IsTerminal, Terminal, Absent
<1>3. \A r \in Requests : cancel[r] = Nobody
  BY DEF Init
<1>4. LogIsDense
  <2>1. \A j \in Jobs : {e.seq : e \in events[j]} = {} /\ 1..job[j].seq = {}
    BY <1>1
  <2> QED
    BY <1>1, <2>1 DEF LogIsDense
<1> QED
  BY <1>1, <1>2, <1>3, <1>4 DEF LogInv, TerminalEventIsLast, CancelsReadThePast,
     LastEventTellsOutcome

\* An appended event in full.
LEMMA AppendedEvent ==
    ASSUME TypeOK, LogInv, NEW k \in Jobs, Appends(k)
    PROVE  /\ job[k].seq \in Nat /\ job'[k].seq = job[k].seq + 1
           /\ \E n : /\ n.seq = job[k].seq + 1 /\ n.status = job'[k].status
                   /\ events'[k] = events[k] \cup {n}
           /\ \A e \in events[k] : e.seq \in 1..job[k].seq
<1>1. job[k].seq \in Nat
  BY DEF TypeOK, Row
<1>2. PICK p \in 0..Full : events'[k] = events[k] \cup
          {[seq |-> job[k].seq + 1, status |-> job'[k].status, progress |-> p]}
  BY DEF Appends
<1>3. \A e \in events[k] : e.seq \in 1..job[k].seq
  <2>1. {e.seq : e \in events[k]} = 1..job[k].seq
    BY DEF LogInv, LogIsDense
  <2> QED
    BY <2>1
<1> DEFINE new == [seq |-> job[k].seq + 1, status |-> job'[k].status, progress |-> p]
<1>4. new.seq = job[k].seq + 1 /\ new.status = job'[k].status
  OBVIOUS
<1> HIDE DEF new
<1>5. events'[k] = events[k] \cup {new}
  BY <1>2 DEF new
<1>6. job'[k].seq = job[k].seq + 1
  BY DEF Appends
<1> QED
  BY <1>1, <1>3, <1>4, <1>5, <1>6

\* The log invariant is inductive.
LEMMA NextLog == TypeOK /\ LeaseInv /\ LogInv /\ [Next]_vars => LogInv'
<1>0. ASSUME LogInv, UNCHANGED vars PROVE LogInv'
  <2>1. job' = job /\ events' = events /\ cancel' = cancel
    BY <1>0 DEF vars
  <2> QED
    BY <1>0, <2>1 DEF LogInv, LogIsDense, TerminalEventIsLast, CancelsReadThePast,
       LastEventTellsOutcome
<1> SUFFICES ASSUME TypeOK, LeaseInv, LogInv, Next PROVE LogInv'
  BY <1>0
<1>1. \A k \in Jobs : Appends(k) \/ Keeps(k)
  BY NextMoves DEF Moves
<1>2. LogIsDense'
  <2> SUFFICES ASSUME NEW k \in Jobs
               PROVE  /\ {e.seq : e \in events'[k]} = 1..job'[k].seq
                      /\ \A d, e \in events'[k] : d.seq = e.seq => d = e
    BY DEF LogIsDense
  <2>1. CASE Appends(k)
    <3>1. PICK n : /\ n.seq = job[k].seq + 1
                   /\ events'[k] = events[k] \cup {n}
      BY <2>1, AppendedEvent
    <3>2. /\ job[k].seq \in Nat /\ job'[k].seq = job[k].seq + 1
          /\ \A e \in events[k] : e.seq \in 1..job[k].seq
      BY <2>1, AppendedEvent
    <3>3. /\ {e.seq : e \in events[k]} = 1..job[k].seq
          /\ \A d, e \in events[k] : d.seq = e.seq => d = e
      BY DEF LogInv, LogIsDense
    <3>4. {e.seq : e \in events'[k]} = {e.seq : e \in events[k]} \cup {n.seq}
      BY <3>1
    <3>5. 1..(job[k].seq + 1) = (1..job[k].seq) \cup {job[k].seq + 1}
      BY <3>2
    <3>6. \A e \in events[k] : e.seq # n.seq
      BY <3>1, <3>2
    <3> QED
      BY <3>1, <3>2, <3>3, <3>4, <3>5, <3>6
  <2>2. CASE Keeps(k)
    BY <2>2 DEF Keeps, LogInv, LogIsDense
  <2> QED
    BY <1>1, <2>1, <2>2
<1>3. TerminalEventIsLast'
  <2> SUFFICES ASSUME NEW k \in Jobs, NEW e \in events'[k], IsTerminal(e.status)
               PROVE  e.seq = job'[k].seq /\ e.status = job'[k].status
    BY DEF TerminalEventIsLast, IsTerminal
  <2>1. CASE Appends(k)
    <3>1. PICK n : /\ n.seq = job[k].seq + 1 /\ n.status = job'[k].status
                   /\ events'[k] = events[k] \cup {n}
      BY <2>1, AppendedEvent
    <3>2. job'[k].seq = job[k].seq + 1
      BY <2>1, AppendedEvent
    <3>3. e = n
      BY <2>1, <3>1 DEF Appends
    <3> QED
      BY <3>1, <3>2, <3>3
  <2>2. CASE Keeps(k)
    <3>1. e \in events[k]
      BY <2>2 DEF Keeps
    <3>2. e.seq = job[k].seq /\ e.status = job[k].status
      BY <3>1 DEF LogInv, TerminalEventIsLast
    <3> QED
      BY <2>2, <3>2, StatusFacts DEF Keeps
  <2> QED
    BY <1>1, <2>1, <2>2
<1>4. CancelsReadThePast'
  <2> SUFFICES ASSUME NEW r \in Requests, cancel'[r] # Nobody
               PROVE  /\ job'[cancel'[r].job].status # Absent
                      /\ cancel'[r].seq <= job'[cancel'[r].job].seq
                      /\ \A e \in events'[cancel'[r].job] :
                            IsTerminal(e.status) => cancel'[r].seq < e.seq
    BY DEF CancelsReadThePast, IsTerminal
  <2> DEFINE k == cancel'[r].job
  <2>1. CASE cancel'[r] = cancel[r]
    <3>1. k \in Jobs /\ cancel[r].seq \in Nat /\ job[k].seq \in Nat
      BY <2>1 DEF TypeOK, Loaded, Row
    <3>2. /\ job[k].status # Absent /\ cancel[r].seq <= job[k].seq
          /\ \A e \in events[k] : IsTerminal(e.status) => cancel[r].seq < e.seq
      BY <2>1 DEF LogInv, CancelsReadThePast
    <3> HIDE DEF k
    <3>3. CASE Appends(k)
      <4>1. PICK n : n.seq = job[k].seq + 1 /\ events'[k] = events[k] \cup {n}
        BY <3>1, <3>3, AppendedEvent
      <4>2. job'[k].seq = job[k].seq + 1
        BY <3>1, <3>3, AppendedEvent
      <4>3. job'[k].status # Absent
        BY <3>3, StatusFacts DEF Appends, Absent
      <4> QED
        BY <2>1, <3>1, <3>2, <4>1, <4>2, <4>3 DEF k
    <3>4. CASE Keeps(k)
      <4>1. job'[k].status # Absent
        BY <3>2, <3>4 DEF Keeps, Absent
      <4> QED
        BY <2>1, <3>2, <3>4, <4>1 DEF Keeps, k
    <3> QED
      BY <1>1, <3>1, <3>3, <3>4
  <2>2. CASE k \in Jobs /\ Live(k) /\ cancel'[r].seq = job[k].seq /\ UNCHANGED <<job, events>>
    <3>1. \A e \in events[k] : ~IsTerminal(e.status)
      BY <2>2, LiveLogIsOpen DEF Live
    <3>2. job[k].seq \in Nat /\ job[k].status # Absent
      BY <2>2 DEF TypeOK, Row, Live
    <3> QED
      BY <2>2, <3>1, <3>2
  <2> QED
    BY <2>1, <2>2, NextCancelMoves DEF CancelMoves
<1>5. LastEventTellsOutcome'
  <2> SUFFICES ASSUME NEW k \in Jobs, IsTerminal(job'[k].status)
               PROVE  \/ \E e \in events'[k] :
                            e.seq = job'[k].seq /\ e.status = job'[k].status
                      \/ /\ job'[k].status = "failed"
                         /\ job'[k].attempts = MaxAttempts
                         /\ \A e \in events'[k] : ~IsTerminal(e.status)
    BY DEF LastEventTellsOutcome, IsTerminal
  <2>1. CASE Appends(k)
    BY <2>1, AppendedEvent
  <2>2. CASE Keeps(k)
    <3>1. CASE job'[k].status = job[k].status /\ job'[k].attempts = job[k].attempts
      BY <2>2, <3>1 DEF Keeps, LogInv, LastEventTellsOutcome
    <3>2. CASE /\ job[k].status \in Working
               /\ job'[k].status = "failed" /\ job'[k].attempts = MaxAttempts
      <4>1. \A e \in events[k] : ~IsTerminal(e.status)
        BY <3>2, LiveLogIsOpen, StatusFacts
      <4> QED
        BY <2>2, <3>2, <4>1 DEF Keeps
    <3>3. CASE job'[k].status \in {"assigned", "queued"}
      BY <3>3, StatusFacts DEF IsTerminal, Terminal
    <3> QED
      BY <2>2, <3>1, <3>2, <3>3 DEF Keeps
  <2> QED
    BY <1>1, <2>1, <2>2
<1> QED
  BY <1>2, <1>3, <1>4, <1>5 DEF LogInv

\* The log invariant holds of the queue.
LEMMA LogInvariant == Spec => []LogInv
<1> QED
  BY TypeCorrect, LeaseInvariant, InitLog, NextLog, PTL DEF Spec

\* The log of a job is numbered without hole or repetition, although cancel
\* numbers its event from a row it may have read before other events.
THEOREM LogsAreDense == Spec => []LogIsDense
<1>1. LogInv => LogIsDense
  BY DEF LogInv
<1> QED
  BY <1>1, LogInvariant, PTL

\* A finished job's log ends with its outcome, or the reaper gave it up with
\* every attempt spent and its log has no end.
THEOREM LogsTellOutcomes == Spec => []LastEventTellsOutcome
<1>1. LogInv => LastEventTellsOutcome
  BY DEF LogInv
<1> QED
  BY <1>1, LogInvariant, PTL

\* No transaction, however old its reading of the row, changes an outcome the
\* log has.
THEOREM OutcomesAreFinal == Spec => LoggedOutcomeIsFinal
<1> DEFINE Final ==
       \A j \in Jobs : (\E e \in events[j] : IsTerminal(e.status)) =>
          job'[j].status = job[j].status /\ events'[j] = events[j]
<1>1. TypeOK /\ LeaseInv /\ LogInv /\ [Next]_vars => [Final]_vars
  <2> SUFFICES ASSUME TypeOK, LeaseInv, LogInv, Next,
                      NEW j \in Jobs, NEW e \in events[j], IsTerminal(e.status)
               PROVE  job'[j].status = job[j].status /\ events'[j] = events[j]
    OBVIOUS
  <2>1. e.status = job[j].status
    BY DEF LogInv, TerminalEventIsLast
  <2>2. job[j].status # "queued" /\ job[j].status \notin Working
    BY <2>1, StatusFacts
  <2>3. ~Appends(j)
    BY DEF Appends
  <2>4. Keeps(j)
    BY <2>3, NextMoves DEF Moves
  <2> QED
    BY <2>2, <2>4 DEF Keeps
<1> QED
  BY <1>1, TypeCorrect, LeaseInvariant, LogInvariant, PTL DEF Spec, LoggedOutcomeIsFinal

(***************************************************************************)
(* Outputs.                                                                *)
(***************************************************************************)
\* A completed job has a terminal event.
LEMMA CompletionIsLogged ==
    ASSUME LogInv, NEW j \in Jobs, job[j].status = "completed"
    PROVE  \E e \in events[j] : IsTerminal(e.status)
  BY DEF LogInv, LastEventTellsOutcome, IsTerminal, Terminal

\* Every step keeps outputs with their leases.
LEMMA NextOutput ==
    TypeOK /\ LeaseInv /\ LogInv /\ OutputIsFromLastLease /\ [Next]_vars
       => OutputIsFromLastLease'
<1>0. ASSUME OutputIsFromLastLease, UNCHANGED vars PROVE OutputIsFromLastLease'
  <2>1. job' = job /\ outputs' = outputs /\ issued' = issued
    BY <1>0 DEF vars
  <2> QED
    BY <1>0, <2>1 DEF OutputIsFromLastLease
<1> SUFFICES ASSUME TypeOK, LeaseInv, LogInv, OutputIsFromLastLease, Next, NEW k \in Jobs
             PROVE  outputs'[k] = IF job'[k].status = "completed" THEN {issued'[k]} ELSE {}
  BY <1>0 DEF OutputIsFromLastLease
<1>1. outputs[k] = IF job[k].status = "completed" THEN {issued[k]} ELSE {}
  BY DEF OutputIsFromLastLease
<1>2. CASE Appends(k)
  <2>1. job[k].status # "completed"
    BY <1>2, CompletionIsLogged DEF Appends
  <2>2. outputs[k] = {}
    BY <1>1, <2>1
  <2>3. \A s \in Working \cup {"queued", "failed", "cancelled"} : s # "completed"
    BY DEF Working
  <2>4. /\ issued'[k] = issued[k]
        /\ \/ job'[k].status = "completed" /\ outputs'[k] = outputs[k] \cup {issued[k]}
           \/ job'[k].status # "completed" /\ outputs'[k] = outputs[k]
    BY <1>2, <2>3 DEF Appends
  <2> QED
    BY <2>2, <2>4
<1>3. CASE Keeps(k)
  <2>1. "completed" \notin Working
    BY DEF Working
  <2> QED
    BY <1>1, <1>3, <2>1 DEF Keeps
<1> QED
  BY <1>2, <1>3, NextMoves DEF Moves

\* A job has an output exactly when it is completed, and it is the output of
\* its last lease.
THEOREM OutputsAreFromLastLeases == Spec => []OutputIsFromLastLease
<1>1. Init => OutputIsFromLastLease
  BY DEF Init, OutputIsFromLastLease, NoRow, Absent
<1> QED
  BY <1>1, NextOutput, TypeCorrect, LeaseInvariant, LogInvariant, PTL DEF Spec

(***************************************************************************)
(* The contract.                                                           *)
(***************************************************************************)
LEMMA Places ==
    /\ Place(Absent) = "absent" /\ Place("queued") = "waiting"
    /\ \A s \in Working : Place(s) = "held"
    /\ \A s \in Terminal : Place(s) = "over"
    /\ \A s \in Status \cup {Absent} : Place(s) \in Contract!States
<1>1. Place(Absent) = "absent"
  BY DEF Place, Absent, Working, IsTerminal, Terminal
<1>2. Place("queued") = "waiting"
  BY DEF Place, Absent, Working, IsTerminal, Terminal
<1>3. \A s \in Working : Place(s) = "held"
  BY DEF Place, Absent, Working, IsTerminal, Terminal
<1>4. \A s \in Terminal : Place(s) = "over"
  BY DEF Place, Absent, Working, IsTerminal, Terminal
<1> QED
  BY <1>1, <1>2, <1>3, <1>4 DEF Status, Contract!States

\* One job's part in a step of the contract, in the terms of the queue.
ContractMove(k) ==
    LET from == Place(job[k].status)
        to   == Place(job'[k].status)
    IN  \/ /\ \/ from = "absent" /\ to = "waiting"
              \/ from = "held" /\ to = "waiting" /\ issued[k] < MaxAttempts
              \/ from \in {"waiting", "held"} /\ to = "over"
           /\ issued'[k] = issued[k]
           /\ outputs'[k] # {} => from = "held" /\ to = "over"
        \/ /\ from = "waiting" /\ to = "held"
           /\ issued[k] < MaxAttempts /\ issued'[k] = issued[k] + 1
           /\ outputs'[k] = {}
        \/ from = to /\ issued'[k] = issued[k] /\ outputs'[k] = outputs[k]

\* Every move is a step of the contract, or none.
LEMMA MovesKeepContract ==
    ASSUME TypeOK, LeaseInv, LogInv, OutputIsFromLastLease,
           LeaseInv', NEW k \in Jobs, Appends(k) \/ Keeps(k)
    PROVE  ContractMove(k)
<1>1. /\ job[k].status \in Status \cup {Absent} /\ job[k].attempts = issued[k]
      /\ job'[k].attempts = issued'[k]
      /\ issued[k] \in Nat
  BY DEF TypeOK, Row, LeaseInv, EveryGrantIsCharged
<1>2. job[k].status = "queued" => issued[k] < MaxAttempts
  BY <1>1 DEF LeaseInv, LeaseFollowsStatus
<1>3. job'[k].status = "queued" => issued'[k] < MaxAttempts
  BY <1>1 DEF LeaseInv, LeaseFollowsStatus
<1>4. job[k].status # "completed" => outputs[k] = {}
  BY DEF OutputIsFromLastLease
<1>5. "completed" \notin Working /\ "completed" # Absent /\ "assigned" \in Working
      /\ {"completed", "failed", "cancelled"} = Terminal
  BY DEF Working, Absent, Terminal
<1>6. CASE Appends(k)
  <2>1. job[k].status # "completed"
    BY <1>6, CompletionIsLogged DEF Appends
  <2>2. CASE job[k].status = Absent /\ job'[k].status = "queued" /\ outputs'[k] = outputs[k]
    BY <1>4, <1>6, <2>1, <2>2, Places DEF Appends, ContractMove
  <2>3. CASE /\ job[k].status \in Working
             /\ job'[k].status \in Working \cup {"queued", "failed"}
             /\ outputs'[k] = outputs[k]
    <3>1. issued'[k] = issued[k] /\ outputs'[k] = {} /\ Place(job[k].status) = "held"
      BY <1>4, <1>6, <2>1, <2>3, Places DEF Appends
    <3>2. CASE job'[k].status \in Working
      BY <1>4, <2>1, <2>3, <3>1, <3>2, Places DEF ContractMove
    <3>3. CASE job'[k].status = "queued"
      BY <1>3, <3>1, <3>3, Places DEF ContractMove
    <3>4. CASE job'[k].status = "failed"
      BY <1>5, <3>1, <3>4, Places DEF ContractMove
    <3> QED
      BY <2>3, <3>2, <3>3, <3>4
  <2>4. CASE job[k].status \in Working /\ job'[k].status = "completed"
    <3>1. Place(job[k].status) = "held" /\ Place(job'[k].status) = "over"
      BY <1>5, <2>4, Places
    <3> QED
      BY <1>6, <3>1 DEF Appends, ContractMove
  <2>5. CASE /\ job[k].status # Absent /\ job'[k].status = "cancelled"
             /\ outputs'[k] = outputs[k]
    <3>1. Place(job[k].status) \in {"waiting", "held", "over"}
      BY <1>1, <2>5, Places DEF Status
    <3>2. Place(job'[k].status) = "over" /\ outputs'[k] = {}
      BY <1>4, <1>5, <2>1, <2>5, Places
    <3> QED
      BY <1>4, <1>6, <2>1, <2>5, <3>1, <3>2 DEF Appends, ContractMove
  <2> QED
    BY <1>6, <2>2, <2>3, <2>4, <2>5 DEF Appends
<1>7. CASE Keeps(k)
  <2>1. CASE job'[k].status = job[k].status /\ issued'[k] = issued[k]
    BY <1>7, <2>1 DEF Keeps, ContractMove
  <2>2. CASE /\ job[k].status = "queued" /\ job'[k].status = "assigned"
             /\ issued'[k] = issued[k] + 1
    <3>1. Place(job[k].status) = "waiting" /\ Place(job'[k].status) = "held"
      BY <1>5, <2>2, Places
    <3>2. outputs'[k] = {}
      BY <1>4, <1>7, <2>2 DEF Keeps
    <3> QED
      BY <1>2, <2>2, <3>1, <3>2 DEF ContractMove
  <2>3. CASE /\ job[k].status \in Working /\ job'[k].status = "queued"
             /\ issued'[k] = issued[k]
    <3>1. outputs'[k] = {} /\ issued[k] < MaxAttempts
      BY <1>3, <1>4, <1>5, <1>7, <2>3 DEF Keeps
    <3> QED
      BY <2>3, <3>1, Places DEF ContractMove
  <2>4. CASE /\ job[k].status \in Working /\ job'[k].status = "failed"
             /\ issued'[k] = issued[k]
    <3>1. outputs'[k] = {} /\ Place(job'[k].status) = "over"
      BY <1>4, <1>5, <1>7, <2>4, Places DEF Keeps
    <3> QED
      BY <2>4, <3>1, Places DEF ContractMove
  <2> QED
    BY <1>7, <2>1, <2>2, <2>3, <2>4 DEF Keeps
<1> QED
  BY <1>6, <1>7

\* Every step of the queue is one of LeaseContract's, or changes nothing it sees.
LEMMA NextKeepsContract ==
    ASSUME TypeOK, LeaseInv, LogInv, OutputIsFromLastLease, TypeOK', LeaseInv', Next
    PROVE  Contract!CNext
<1>1. \A k \in Jobs : ContractMove(k)
  BY NextMoves, MovesKeepContract DEF Moves
<1>2. [j \in Jobs |-> Place(job'[j].status)] \in [Jobs -> Contract!States]
  BY Places DEF TypeOK, Row
<1>3. [j \in Jobs |-> issued'[j]] \in [Jobs -> Nat]
  BY DEF TypeOK
<1>4. [j \in Jobs |-> outputs'[j] # {}] \in [Jobs -> BOOLEAN]
  OBVIOUS
<1>5. ASSUME NEW k \in Jobs PROVE Contract!JobStep(k)
  BY <1>1 DEF ContractMove, Contract!JobStep, Contract!Offer, Contract!Take,
     Contract!Return, Contract!Finish
<1> QED
  BY <1>2, <1>3, <1>4, <1>5 DEF Contract!CNext

\* The queue implements LeaseContract: whatever claims, late reports, stale
\* cancellations and the reaper do to a row, a job waits, is held by one worker
\* at a time at the price of a try, and is over once, its result delivered by
\* its holder or never.
THEOREM QueueKeepsContract == Spec => KeepsContract
<1>1. Init => Contract!CInit
  <2> SUFFICES ASSUME Init PROVE Contract!CInit
    OBVIOUS
  <2>1. \A j \in Jobs : job[j].status = Absent /\ issued[j] = 0 /\ outputs[j] = {}
    BY DEF Init, NoRow
  <2> QED
    BY <2>1, Places DEF Contract!CInit
<1>2. UNCHANGED vars => UNCHANGED Contract!cvars
  BY DEF vars, Contract!cvars
<1>3. /\ TypeOK /\ LeaseInv /\ LogInv /\ OutputIsFromLastLease /\ TypeOK' /\ LeaseInv'
      /\ [Next]_vars
      => [Contract!CNext]_(Contract!cvars)
  BY <1>2, NextKeepsContract
<1> QED
  BY <1>1, <1>3, TypeCorrect, LeaseInvariant, LogInvariant, OutputsAreFromLastLeases, PTL
  DEF Spec, KeepsContract, Contract!CSpec

=============================================================================
