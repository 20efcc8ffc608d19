-------------------------- MODULE WorkerService_proofs --------------------------
(***************************************************************************)
(* For any workers, jobs and slots: no slot of a worker is lost or given   *)
(* back twice, and a directory that is not a killed process's leaving has  *)
(* a run at work in it.                                                    *)
(*                                                                         *)
(* That a task is counted once rests on every claim being a new one: its   *)
(* token is above the tokens of all the runs of the job, because a job's   *)
(* token only grows, whoever claims, reaps or fails it.                    *)
(***************************************************************************)
EXTENDS WorkerService, FiniteSetTheorems, TLAPS

Tasks == [job : Jobs, token : Nat, as : Nat]

JobShape  == [status : {"unborn", "queued", "leased", "done", "failed"}, worker : Nat, token : Nat]
ProcShape ==
    [pc : {"down", "registering", "top", "acquiring", "calling", "heard", "waiting",
           "rejected", "left"},
     id : Nat, runner : Nat, asked : Nat, claim : SUBSET Tasks, free : Nat,
     active : SUBSET Tasks, beat : {"off", "asleep", "lost"}, stopping : BOOLEAN,
     drain : {"no", "waiting", "over"}, awaited : SUBSET Tasks, cut : BOOLEAN, boots : Nat]

Engaged(p) == IF p.pc \in {"calling", "heard"} THEN 1 ELSE 0

\* A process keeps its slots, and a claim it heard is of a task it does not have yet.
Kept(p) ==
    /\ p \in ProcShape
    /\ IsFiniteSet(p.active)
    /\ p.pc = "heard" => \E r \in Tasks \ p.active : p.claim = {r}
    /\ p.pc # "heard" => p.claim = {}
    /\ Slots = p.free + Cardinality(p.active) + Engaged(p)

\* No task has a token the queue has not handed out.
Charged(p, rows_of_jobs) ==
    \A r \in p.active \cup p.claim : r.token <= rows_of_jobs[r.job].token

\* The inductive invariant.
ServiceInv ==
    /\ job \in [Jobs -> JobShape]
    /\ node \in [Workers -> Nat] /\ rows \in Nat
    /\ proc \in [Workers -> ProcShape]
    /\ \A w \in Workers : Kept(proc[w]) /\ Charged(proc[w], job)

\* A queue's step: rows keep their shape and tokens do not shrink.
Grows ==
    /\ job' \in [Jobs -> JobShape]
    /\ \A j \in Jobs : job[j].token <= job'[j].token

\* A process that is down, or starts, has all its slots.
LEMMA DownIsKept ==
    ASSUME NEW n \in Nat, NEW c \in BOOLEAN
    PROVE  /\ Kept([Down EXCEPT !.boots = n, !.cut = c])
           /\ Kept([Down EXCEPT !.pc = "registering", !.boots = n])
           /\ [Down EXCEPT !.boots = n, !.cut = c].active = {}
           /\ [Down EXCEPT !.boots = n, !.cut = c].claim = {}
           /\ [Down EXCEPT !.pc = "registering", !.boots = n].active = {}
           /\ [Down EXCEPT !.pc = "registering", !.boots = n].claim = {}
  <1>1. IsFiniteSet({}) /\ Cardinality({}) = 0
    BY FS_EmptySet
  <1> DEFINE q == [Down EXCEPT !.boots = n, !.cut = c]
             r == [Down EXCEPT !.pc = "registering", !.boots = n]
  <1>2. q \in ProcShape /\ r \in ProcShape
    BY ServiceAssumption DEF Down, ProcShape, NoId
  <1>3. /\ q.pc = "down" /\ q.active = {} /\ q.claim = {} /\ q.free = Slots
        /\ r.pc = "registering" /\ r.active = {} /\ r.claim = {} /\ r.free = Slots
    BY DEF Down
  <1> HIDE DEF q, r
  <1>4. Kept(q) /\ Kept(r)
    BY <1>1, <1>2, <1>3, ServiceAssumption DEF Kept, Engaged
  <1> QED
    BY <1>3, <1>4 DEF q, r

\* The initial states.
LEMMA ServiceInitially == ServiceInit => ServiceInv
  <1> SUFFICES ASSUME ServiceInit PROVE ServiceInv
    OBVIOUS
  <1>1. IsFiniteSet({}) /\ Cardinality({}) = 0
    BY FS_EmptySet
  <1>2. Kept(Down) /\ Down \in ProcShape /\ Down.active = {} /\ Down.claim = {}
    BY <1>1, ServiceAssumption DEF Down, Kept, ProcShape, Engaged, NoId
  <1> QED
    BY <1>2 DEF ServiceInit, ServiceInv, Charged, JobShape, NoId

\* What a lease does to the rows, and a report's refusal or acceptance.
LEMMA LeaseGrows ==
    ASSUME ServiceInv, NEW w \in Workers, NEW j \in Jobs, Leases(w, j)
    PROVE  Grows /\ job'[j].token = job[j].token + 1
  BY DEF ServiceInv, Leases, Grows, JobShape, ProcShape

\* The slots a process has are as before when its tasks, its claim and whether it
\* is engaged are.
LEMMA SameSlots ==
    ASSUME NEW p \in ProcShape, NEW q \in ProcShape, Kept(p),
           q.active = p.active, q.claim = p.claim, q.free = p.free,
           Engaged(q) = Engaged(p), (q.pc = "heard") <=> (p.pc = "heard")
    PROVE  Kept(q)
  BY DEF Kept

\* A slot is given back as the call ends, or with a task.
LEMMA SlotReturns ==
    ASSUME NEW p \in ProcShape, NEW q \in ProcShape, Kept(p),
           p.pc = "calling", q.pc \notin {"calling", "heard"},
           q.active = p.active, q.claim = p.claim, q.free = p.free + 1
    PROVE  Kept(q)
  <1>1. Cardinality(p.active) \in Nat /\ p.free \in Nat
    BY FS_CardinalityType DEF Kept, ProcShape
  <1>2. Engaged(p) = 1 /\ Engaged(q) = 0
    BY DEF Engaged
  <1> QED
    BY <1>1, <1>2 DEF Kept

\* A run that ends leaves the others, and gives its slot back.
LEMMA TaskReturns ==
    ASSUME NEW p \in ProcShape, Kept(p), NEW r \in p.active
    PROVE  Kept(Without(p, r)) /\ Without(p, r).active \subseteq p.active
           /\ Without(p, r).claim = p.claim
  <1> DEFINE q == Without(p, r)
  <1>1. q = [p EXCEPT !.active = @ \ {r}, !.free = @ + 1]
    BY DEF Without
  <1>2. /\ q \in ProcShape /\ q.active = p.active \ {r} /\ q.free = p.free + 1
        /\ q.claim = p.claim /\ q.pc = p.pc
    <2>1. p.active \ {r} \in SUBSET Tasks /\ p.free + 1 \in Nat
      BY DEF ProcShape
    <2> QED
      BY <1>1, <2>1 DEF ProcShape
  <1>3. IsFiniteSet(q.active) /\ Cardinality(q.active) = Cardinality(p.active) - 1
    <2>1. IsFiniteSet(p.active)
      BY DEF Kept
    <2>2. /\ IsFiniteSet(p.active \ {r})
          /\ Cardinality(p.active \ {r}) = Cardinality(p.active) - 1
      BY <2>1, FS_RemoveElement
    <2> HIDE DEF q
    <2> QED
      BY <1>2, <2>2
  <1>4. Cardinality(p.active) \in Nat /\ p.free \in Nat
    BY FS_CardinalityType DEF Kept, ProcShape
  <1>5. p.pc = "heard" => \E s \in Tasks \ q.active : q.claim = {s}
    BY <1>2 DEF Kept
  <1>6. Slots = q.free + Cardinality(q.active) + Engaged(q)
    BY <1>2, <1>3, <1>4 DEF Kept, Engaged
  <1> HIDE DEF q
  <1>7. Kept(q)
    BY <1>2, <1>3, <1>5, <1>6 DEF Kept
  <1> QED
    BY <1>2, <1>7 DEF q

\* The drain gives back as many slots as it cancels tasks.
LEMMA TasksReturn ==
    ASSUME NEW p \in ProcShape, NEW q \in ProcShape, Kept(p), NEW late \in SUBSET p.active,
           q.active = p.active \ late, q.free = p.free + Cardinality(late),
           q.claim = p.claim, q.pc = p.pc
    PROVE  Kept(q)
  <1>1. IsFiniteSet(late) /\ Cardinality(late) \in Nat
    BY FS_Subset, FS_CardinalityType DEF Kept
  <1>2. p.active \cap late = late /\ IsFiniteSet(p.active)
    BY DEF Kept
  <1>3. IsFiniteSet(q.active) /\ Cardinality(q.active) = Cardinality(p.active) - Cardinality(late)
    <2>1. /\ IsFiniteSet(p.active \ late)
          /\ Cardinality(p.active \ late)
               = Cardinality(p.active) - Cardinality(p.active \cap late)
      BY <1>2, FS_Difference
    <2> QED
      BY <1>2, <2>1
  <1>4. Cardinality(p.active) \in Nat /\ p.free \in Nat
    BY FS_CardinalityType DEF Kept, ProcShape
  <1>5. p.pc = "heard" => \E s \in Tasks \ q.active : q.claim = {s}
    BY DEF Kept
  <1>6. Slots = q.free + Cardinality(q.active) + Engaged(q)
    BY <1>1, <1>3, <1>4 DEF Kept, Engaged
  <1> QED
    BY <1>3, <1>5, <1>6 DEF Kept

-----------------------------------------------------------------------------
(***************************************************************************)
(* Steps.                                                                  *)
(***************************************************************************)
\* One process moves to a p that is in order, and the queue's tokens do not shrink.
LEMMA Moved ==
    ASSUME ServiceInv, NEW w \in Workers, NEW p, Goes(w, p), Kept(p), Charged(p, job'),
           Grows, node' \in [Workers -> Nat], rows' \in Nat
    PROVE  ServiceInv'
  <1>1. p \in ProcShape
    BY DEF Kept
  <1>2. proc' \in [Workers -> ProcShape] /\ job' \in [Jobs -> JobShape]
    BY <1>1 DEF ServiceInv, Goes, Grows
  <1>3. ASSUME NEW v \in Workers
        PROVE  Kept(proc'[v]) /\ Charged(proc'[v], job')
    <2>1. CASE v = w
      <3>1. proc'[v] = p
        BY <2>1 DEF Goes, ServiceInv
      <3> QED
        BY <3>1
    <2>2. CASE v # w
      <3>1. proc'[v] = proc[v] /\ Kept(proc[v]) /\ Charged(proc[v], job) /\ proc[v] \in ProcShape
        BY <2>2 DEF Goes, ServiceInv
      <3>2. ASSUME NEW r \in proc[v].active \cup proc[v].claim
            PROVE  r.token <= job'[r.job].token
        <4>1. r \in Tasks
          BY <3>1 DEF ProcShape
        <4>2. r.job \in Jobs /\ r.token \in Nat
          BY <4>1 DEF Tasks
        <4>3. job[r.job].token \in Nat /\ job'[r.job].token \in Nat
          BY <4>2, <1>2 DEF ServiceInv, JobShape
        <4>4. r.token <= job[r.job].token
          BY <3>1 DEF Charged
        <4>5. job[r.job].token <= job'[r.job].token
          BY <4>2 DEF Grows
        <4> QED
          BY <4>2, <4>3, <4>4, <4>5
      <3> QED
        BY <3>1, <3>2 DEF Charged
    <2> QED
      BY <2>1, <2>2
  <1> QED
    BY <1>2, <1>3 DEF ServiceInv, Kept, Charged

\* The tasks of a process stay charged when they are no more than before.
LEMMA StaysCharged ==
    ASSUME ServiceInv, NEW w \in Workers, NEW p, Grows,
           p.active \subseteq proc[w].active, p.claim \subseteq proc[w].claim
    PROVE  Charged(p, job')
  <1> SUFFICES ASSUME NEW r \in p.active \cup p.claim
               PROVE  r.token <= job'[r.job].token
    BY DEF Charged
  <1>1. r \in proc[w].active \cup proc[w].claim /\ proc[w] \in ProcShape
    BY DEF ServiceInv
  <1>2. r \in Tasks
    BY <1>1 DEF ProcShape
  <1>3. r.job \in Jobs /\ r.token \in Nat
    BY <1>2 DEF Tasks
  <1>4. job[r.job].token \in Nat /\ job'[r.job].token \in Nat
    BY <1>3 DEF ServiceInv, Grows, JobShape
  <1>5. r.token <= job[r.job].token
    BY <1>1 DEF ServiceInv, Charged
  <1>6. job[r.job].token <= job'[r.job].token
    BY <1>3 DEF Grows
  <1> QED
    BY <1>3, <1>4, <1>5, <1>6

\* A step of a process that neither takes nor returns a slot.
LEMMA SlotsApart ==
    ASSUME ServiceInv, NEW w \in Workers, NEW q \in ProcShape, Goes(w, q),
           q.active = proc[w].active, q.claim = proc[w].claim, q.free = proc[w].free,
           Engaged(q) = Engaged(proc[w]), (q.pc = "heard") <=> (proc[w].pc = "heard"),
           Grows, node' \in [Workers -> Nat], rows' \in Nat
    PROVE  ServiceInv'
  <1>1. Kept(q)
    BY SameSlots DEF ServiceInv
  <1>2. Charged(q, job')
    BY StaysCharged
  <1> QED
    BY <1>1, <1>2, Moved

\* A row that is not touched, and a row whose status alone changes, keep their token.
LEMMA RowsStay ==
    ASSUME ServiceInv, UNCHANGED job
    PROVE  Grows
  BY DEF ServiceInv, Grows, JobShape

\* A report, a reaper and a submission change the status alone.
LEMMA StatusGrows ==
    ASSUME ServiceInv, NEW j \in Jobs,
           NEW s \in {"unborn", "queued", "leased", "done", "failed"},
           job' = [job EXCEPT ![j].status = s]
    PROVE  Grows
  BY DEF ServiceInv, Grows, JobShape

\* Registering gives a natural identity.
LEMMA RegisterIsNat ==
    ASSUME ServiceInv, NEW w \in Workers
    PROVE  /\ Registered(w) \in Nat
           /\ Register(w) => node' \in [Workers -> Nat] /\ rows' \in Nat /\ job' = job
  <1>1. Registered(w) \in Nat
    BY DEF ServiceInv, Registered
  <1> QED
    BY <1>1 DEF ServiceInv, Register

\* The queue's, Redis's and the registry's steps touch no process.
LEMMA OutsideSteps ==
    ASSUME ServiceInv, UNCHANGED proc, Grows, node' \in [Workers -> Nat], rows' \in Nat
    PROVE  ServiceInv'
  <1>1. ASSUME NEW w \in Workers
        PROVE  Kept(proc'[w]) /\ Charged(proc'[w], job')
    <2>1. Charged(proc[w], job')
      BY StaysCharged
    <2> QED
      BY <2>1 DEF ServiceInv
  <1> QED
    BY <1>1 DEF ServiceInv, Grows, Kept, Charged

\* A submission and the reaper.
LEMMA QueueSteps ==
    ASSUME ServiceInv, NEW j \in Jobs, Submit(j) \/ Reap(j)
    PROVE  ServiceInv'
  <1>1. CASE Submit(j)
    <2>1. job' = [job EXCEPT ![j].status = "queued"] /\ UNCHANGED <<node, rows, proc>>
      BY <1>1 DEF Submit
    <2>2. Grows
      BY <2>1, StatusGrows
    <2> QED
      BY <2>1, <2>2, OutsideSteps DEF ServiceInv
  <1>2. CASE Reap(j)
    <2> DEFINE s == IF job[j].token < MaxAttempts THEN "queued" ELSE "failed"
    <2>1. job' = [job EXCEPT ![j].status = s] /\ UNCHANGED <<node, rows, proc>>
      BY <1>2 DEF Reap
    <2>2. s \in {"unborn", "queued", "leased", "done", "failed"}
      OBVIOUS
    <2> HIDE DEF s
    <2>3. Grows
      BY <2>1, <2>2, StatusGrows
    <2> QED
      BY <2>1, <2>3, OutsideSteps DEF ServiceInv
  <1> QED
    BY <1>1, <1>2

\* A lost bell and a lost row.
LEMMA OtherOutsideSteps ==
    ASSUME ServiceInv, NEW w \in Workers, Unring \/ Forget(w)
    PROVE  ServiceInv'
  <1>1. CASE Unring
    <2>1. UNCHANGED <<job, node, rows, proc>>
      BY <1>1 DEF Unring
    <2> QED
      BY <2>1, RowsStay, OutsideSteps DEF ServiceInv
  <1>2. CASE Forget(w)
    <2>1. UNCHANGED <<rows, proc>> /\ node' = [node EXCEPT ![w] = NoId]
      BY <1>2 DEF Forget
    <2>2. node' \in [Workers -> Nat] /\ rows' \in Nat
      BY <2>1 DEF ServiceInv, NoId
    <2>3. job' = [j \in Jobs |-> IF job[j].worker = node[w]
                                THEN [job[j] EXCEPT !.worker = NoId] ELSE job[j]]
      BY <1>2 DEF Forget
    <2>4. Grows
      BY <2>3 DEF ServiceInv, Grows, JobShape, NoId
    <2> QED
      BY <2>1, <2>2, <2>4, OutsideSteps
  <1> QED
    BY <1>1, <1>2

\* The start of a process, and its heartbeat.
LEMMA RegistrationSteps ==
    ASSUME ServiceInv, NEW w \in Workers, Registration(w)
    PROVE  ServiceInv'
  <1> DEFINE p == proc[w]
  <1>0. p \in ProcShape /\ Kept(p) /\ node \in [Workers -> Nat] /\ rows \in Nat
    BY DEF ServiceInv
  <1>r. Registered(w) \in Nat
    BY RegisterIsNat
  <1>1. CASE Boot(w)
    <2>1. p.boots + 1 \in Nat
      BY <1>0 DEF ProcShape
    <2> DEFINE q == [Down EXCEPT !.pc = "registering", !.boots = p.boots + 1]
    <2>2. Goes(w, q) /\ UNCHANGED <<job, node, rows>>
      BY <1>1 DEF Boot
    <2>3. Kept(q) /\ q.active = {} /\ q.claim = {}
      BY <2>1, DownIsKept
    <2> HIDE DEF q
    <2>4. Grows
      BY <2>2, RowsStay
    <2>5. Charged(q, job')
      BY <2>3, <2>4, StaysCharged
    <2> QED
      BY <1>0, <2>2, <2>3, <2>4, <2>5, Moved
  <1>2. CASE FirstRegistration(w)
    <2> DEFINE q == [p EXCEPT !.pc = "top", !.id = Registered(w),
                              !.runner = Registered(w), !.beat = "asleep"]
    <2>1. Goes(w, q) /\ Register(w) /\ p.pc = "registering"
      BY <1>2 DEF FirstRegistration
    <2>2. /\ q \in ProcShape /\ q.active = p.active /\ q.claim = p.claim /\ q.free = p.free
          /\ q.pc = "top"
      BY <1>0, <1>r DEF ProcShape
    <2> HIDE DEF q
    <2> QED
      BY <2>1, <2>2, RegisterIsNat, RowsStay, SlotsApart DEF Engaged
  <1>3. CASE GivesUpRegistering(w)
    <2> DEFINE q == [p EXCEPT !.pc = "left"]
    <2>1. Goes(w, q) /\ UNCHANGED <<job, node, rows>> /\ p.pc = "registering"
      BY <1>3 DEF GivesUpRegistering
    <2>2. /\ q \in ProcShape /\ q.active = p.active /\ q.claim = p.claim /\ q.free = p.free
          /\ q.pc = "left"
      BY <1>0 DEF ProcShape
    <2> HIDE DEF q
    <2> QED
      BY <1>0, <2>1, <2>2, RowsStay, SlotsApart DEF Engaged
  <1>4. CASE Heartbeat(w)
    <2> DEFINE q == [p EXCEPT !.beat = "lost"]
    <2>1. Goes(w, q) /\ UNCHANGED <<job, node, rows>>
      BY <1>4 DEF Heartbeat
    <2>2. /\ q \in ProcShape /\ q.active = p.active /\ q.claim = p.claim /\ q.free = p.free
          /\ q.pc = p.pc
      BY <1>0 DEF ProcShape
    <2> HIDE DEF q
    <2> QED
      BY <1>0, <2>1, <2>2, RowsStay, SlotsApart DEF Engaged
  <1>5. CASE HeartbeatRegisters(w)
    <2>1. CASE Goes(w, [p EXCEPT !.beat = "asleep"]) /\ UNCHANGED <<job, node, rows>>
      <3> DEFINE q == [p EXCEPT !.beat = "asleep"]
      <3>1. /\ q \in ProcShape /\ q.active = p.active /\ q.claim = p.claim /\ q.free = p.free
            /\ q.pc = p.pc
        BY <1>0 DEF ProcShape
      <3>2. Goes(w, q)
        BY <2>1
      <3> HIDE DEF q
      <3> QED
        BY <1>0, <2>1, <3>1, <3>2, RowsStay, SlotsApart DEF Engaged
    <2>2. CASE Register(w) /\ Goes(w, [p EXCEPT !.beat = "asleep", !.id = Registered(w)])
      <3> DEFINE q == [p EXCEPT !.beat = "asleep", !.id = Registered(w)]
      <3>1. /\ q \in ProcShape /\ q.active = p.active /\ q.claim = p.claim /\ q.free = p.free
            /\ q.pc = p.pc
        BY <1>0, <1>r DEF ProcShape
      <3>2. Goes(w, q)
        BY <2>2
      <3> HIDE DEF q
      <3> QED
        BY <2>2, <3>1, <3>2, RegisterIsNat, RowsStay, SlotsApart DEF Engaged
    <2> QED
      BY <1>5, <2>1, <2>2 DEF HeartbeatRegisters
  <1> QED
    BY <1>1, <1>2, <1>3, <1>4, <1>5 DEF Registration

\* The claim loop, where it takes no slot, gives none back and starts no task.
LEMMA IdleLoopSteps ==
    ASSUME ServiceInv, NEW w \in Workers, Top(w) \/ ClaimRegisters(w) \/ WaitForWork(w)
    PROVE  ServiceInv'
  <1> DEFINE p == proc[w]
  <1>0. p \in ProcShape /\ Kept(p) /\ node \in [Workers -> Nat] /\ rows \in Nat
    BY DEF ServiceInv
  <1>r. Registered(w) \in Nat
    BY RegisterIsNat
  <1>1. CASE Top(w)
    <2> DEFINE q == [p EXCEPT !.pc = IF p.stopping THEN "left" ELSE "acquiring"]
    <2>1. Goes(w, q) /\ UNCHANGED <<job, node, rows>> /\ p.pc = "top"
      BY <1>1 DEF Top
    <2>2. /\ q \in ProcShape /\ q.active = p.active /\ q.claim = p.claim /\ q.free = p.free
          /\ q.pc \in {"left", "acquiring"}
      BY <1>0 DEF ProcShape
    <2> HIDE DEF q
    <2> QED
      BY <1>0, <2>1, <2>2, RowsStay, SlotsApart DEF Engaged
  <1>2. CASE WaitForWork(w)
    <2> DEFINE q == [p EXCEPT !.pc = "top"]
    <2>1. Goes(w, q) /\ UNCHANGED <<job, node, rows>> /\ p.pc = "waiting"
      BY <1>2 DEF WaitForWork
    <2>2. /\ q \in ProcShape /\ q.active = p.active /\ q.claim = p.claim /\ q.free = p.free
          /\ q.pc = "top"
      BY <1>0 DEF ProcShape
    <2> HIDE DEF q
    <2> QED
      BY <1>0, <2>1, <2>2, RowsStay, SlotsApart DEF Engaged
  <1>3. CASE ClaimRegisters(w)
    <2>0. p.pc = "rejected"
      BY <1>3 DEF ClaimRegisters
    <2>1. CASE Goes(w, [p EXCEPT !.pc = "top"]) /\ UNCHANGED <<job, node, rows>>
      <3> DEFINE q == [p EXCEPT !.pc = "top"]
      <3>1. /\ q \in ProcShape /\ q.active = p.active /\ q.claim = p.claim /\ q.free = p.free
            /\ q.pc = "top"
        BY <1>0 DEF ProcShape
      <3>2. Goes(w, q)
        BY <2>1
      <3> HIDE DEF q
      <3> QED
        BY <1>0, <2>0, <2>1, <3>1, <3>2, RowsStay, SlotsApart DEF Engaged
    <2>2. CASE Register(w) /\ Goes(w, [p EXCEPT !.pc = "top", !.id = Registered(w),
                                                 !.runner = Registered(w)])
      <3> DEFINE q == [p EXCEPT !.pc = "top", !.id = Registered(w), !.runner = Registered(w)]
      <3>1. /\ q \in ProcShape /\ q.active = p.active /\ q.claim = p.claim /\ q.free = p.free
            /\ q.pc = "top"
        BY <1>0, <1>r DEF ProcShape
      <3>2. Goes(w, q)
        BY <2>2
      <3> HIDE DEF q
      <3> QED
        BY <2>0, <2>2, <3>1, <3>2, RegisterIsNat, RowsStay, SlotsApart DEF Engaged
    <2> QED
      BY <1>3, <2>1, <2>2 DEF ClaimRegisters
  <1> QED
    BY <1>1, <1>2, <1>3

\* A slot is taken for a call, or the loop stops.
LEMMA AcquireStep ==
    ASSUME ServiceInv, NEW w \in Workers, Acquire(w)
    PROVE  ServiceInv'
  <1> DEFINE p == proc[w]
  <1>0. p \in ProcShape /\ Kept(p) /\ node \in [Workers -> Nat] /\ rows \in Nat
    BY DEF ServiceInv
  <1>1. p.pc = "acquiring" /\ p.free > 0 /\ UNCHANGED <<job, node, rows>>
    BY DEF Acquire
  <1>2. Grows
    BY <1>1, RowsStay
  <1>3. CASE p.stopping
    <2> DEFINE q == [p EXCEPT !.pc = "left"]
    <2>1. Goes(w, q)
      BY <1>3 DEF Acquire
    <2>2. /\ q \in ProcShape /\ q.active = p.active /\ q.claim = p.claim /\ q.free = p.free
          /\ q.pc = "left"
      BY <1>0 DEF ProcShape
    <2> HIDE DEF q
    <2> QED
      BY <1>0, <1>1, <1>2, <2>1, <2>2, SlotsApart DEF Engaged
  <1>4. CASE ~p.stopping
    <2> DEFINE q == [p EXCEPT !.pc = "calling", !.asked = p.id, !.free = @ - 1]
    <2>1. Goes(w, q)
      BY <1>4 DEF Acquire
    <2>2. p.free - 1 \in Nat /\ p.free \in Nat
      BY <1>0, <1>1 DEF ProcShape
    <2>3. /\ q \in ProcShape /\ q.active = p.active /\ q.claim = p.claim
          /\ q.free = p.free - 1 /\ q.pc = "calling"
      BY <1>0, <2>2 DEF ProcShape
    <2> HIDE DEF q
    <2>4. Cardinality(p.active) \in Nat
      BY <1>0, FS_CardinalityType DEF Kept
    <2>5. Engaged(p) = 0 /\ Engaged(q) = 1
      BY <1>1, <2>3 DEF Engaged
    <2>6. Slots = q.free + Cardinality(q.active) + Engaged(q)
      BY <1>0, <2>2, <2>3, <2>4, <2>5 DEF Kept
    <2>7. q.claim = {}
      BY <1>0, <1>1, <2>3 DEF Kept
    <2>8. Kept(q)
      BY <1>0, <2>3, <2>6, <2>7 DEF Kept
    <2>9. Charged(q, job')
      BY <1>2, <2>3, StaysCharged
    <2> QED
      BY <1>0, <1>1, <1>2, <2>1, <2>8, <2>9, Moved
  <1> QED
    BY <1>3, <1>4

\* The call ends without a claim, whatever was committed for it.
LEMMA CallEndsSteps ==
    ASSUME ServiceInv, NEW w \in Workers, NoWork(w) \/ ClaimFailed(w) \/ ClaimRejected(w)
    PROVE  ServiceInv'
  <1> DEFINE p == proc[w]
  <1>0. p \in ProcShape /\ Kept(p) /\ node \in [Workers -> Nat] /\ rows \in Nat
    BY DEF ServiceInv
  <1>1. p.pc = "calling" /\ UNCHANGED <<node, rows>>
    BY DEF NoWork, ClaimFailed, ClaimRejected
  <1>2. Grows
    <2>1. CASE UNCHANGED job
      BY <2>1, RowsStay
    <2>2. CASE \E j \in Jobs : Leases(w, j)
      BY <2>2, LeaseGrows
    <2> QED
      BY <2>1, <2>2 DEF NoWork, ClaimFailed, ClaimRejected
  <1>3. PICK l \in {"top", "waiting", "rejected"} : Goes(w, [p EXCEPT !.pc = l, !.free = @ + 1])
    BY DEF NoWork, ClaimFailed, ClaimRejected
  <1> DEFINE q == [p EXCEPT !.pc = l, !.free = @ + 1]
  <1>4. p.free + 1 \in Nat
    BY <1>0 DEF ProcShape
  <1>5. /\ q \in ProcShape /\ q.active = p.active /\ q.claim = p.claim
        /\ q.free = p.free + 1 /\ q.pc = l
    BY <1>0, <1>4 DEF ProcShape
  <1>6. Goes(w, q)
    BY <1>3
  <1> HIDE DEF q
  <1>7. Kept(q)
    BY <1>0, <1>1, <1>5, SlotReturns
  <1>8. Charged(q, job')
    BY <1>2, <1>5, StaysCharged
  <1> QED
    BY <1>0, <1>1, <1>2, <1>6, <1>7, <1>8, Moved

\* A claim is of a task no process has: its token is a new one.
LEMMA ClaimAnsweredStep ==
    ASSUME ServiceInv, NEW w \in Workers, ClaimAnswered(w)
    PROVE  ServiceInv'
  <1> DEFINE p == proc[w]
  <1>0. p \in ProcShape /\ Kept(p) /\ Charged(p, job)
        /\ node \in [Workers -> Nat] /\ rows \in Nat /\ job \in [Jobs -> JobShape]
    BY DEF ServiceInv
  <1>1. p.pc = "calling" /\ UNCHANGED <<node, rows>>
    BY DEF ClaimAnswered
  <1>2. PICK j \in Jobs :
          /\ Leases(w, j)
          /\ Goes(w, [p EXCEPT !.pc = "heard",
                !.claim = {[job |-> j, token |-> job[j].token + 1, as |-> p.runner]}])
    BY DEF ClaimAnswered
  <1> DEFINE t == [job |-> j, token |-> job[j].token + 1, as |-> p.runner]
             q == [p EXCEPT !.pc = "heard", !.claim = {t}]
  <1>3. job[j].token \in Nat /\ p.runner \in Nat
    BY <1>0 DEF JobShape, ProcShape
  <1>4. t \in Tasks /\ t.job = j /\ t.token = job[j].token + 1
    BY <1>3 DEF Tasks
  <1>5. t \notin p.active
    <2> SUFFICES ASSUME t \in p.active PROVE FALSE
      OBVIOUS
    <2>1. t.token <= job[t.job].token
      BY <1>0 DEF Charged
    <2> QED
      BY <1>3, <1>4, <2>1
  <1>6. Goes(w, q)
    BY <1>2
  <1> HIDE DEF t
  <1>7. /\ q \in ProcShape /\ q.active = p.active /\ q.claim = {t}
        /\ q.free = p.free /\ q.pc = "heard"
    BY <1>0, <1>4 DEF ProcShape
  <1> HIDE DEF q
  <1>8. Engaged(q) = Engaged(p)
    BY <1>1, <1>7 DEF Engaged
  <1>9. Kept(q)
    BY <1>0, <1>4, <1>5, <1>7, <1>8 DEF Kept
  <1>10. Grows /\ job'[j].token = job[j].token + 1
    BY <1>2, LeaseGrows
  <1>11. Charged(q, job')
    <2>1. ASSUME NEW r \in p.active
          PROVE  r.token <= job'[r.job].token
      <3>1. r \in Tasks
        BY <1>0 DEF ProcShape
      <3>2. r.job \in Jobs /\ r.token \in Nat
        BY <3>1 DEF Tasks
      <3>3. job[r.job].token \in Nat /\ job'[r.job].token \in Nat
        BY <1>0, <1>10, <3>2 DEF Grows, JobShape
      <3>4. r.token <= job[r.job].token /\ job[r.job].token <= job'[r.job].token
        BY <1>0, <1>10, <3>2 DEF Charged, Grows
      <3> QED
        BY <3>2, <3>3, <3>4
    <2>2. t.token <= job'[t.job].token
      BY <1>3, <1>4, <1>10
    <2> QED
      BY <1>7, <2>1, <2>2 DEF Charged
  <1> QED
    BY <1>0, <1>1, <1>6, <1>9, <1>10, <1>11, Moved

\* The claim becomes a task: its slot is the task's from now on.
LEMMA SpawnStep ==
    ASSUME ServiceInv, NEW w \in Workers, Spawn(w)
    PROVE  ServiceInv'
  <1> DEFINE p == proc[w]
             q == [p EXCEPT !.pc = "top", !.claim = {}, !.active = @ \cup p.claim]
  <1>0. p \in ProcShape /\ Kept(p) /\ Charged(p, job)
        /\ node \in [Workers -> Nat] /\ rows \in Nat
    BY DEF ServiceInv
  <1>1. p.pc = "heard" /\ Goes(w, q) /\ UNCHANGED <<job, node, rows>>
    BY DEF Spawn
  <1>2. PICK t \in Tasks \ p.active : p.claim = {t}
    BY <1>0, <1>1 DEF Kept
  <1>3. p.active \cup {t} \in SUBSET Tasks
    BY <1>0, <1>2 DEF ProcShape
  <1>4. /\ q \in ProcShape /\ q.active = p.active \cup {t} /\ q.claim = {}
        /\ q.free = p.free /\ q.pc = "top"
    BY <1>0, <1>2, <1>3 DEF ProcShape
  <1> HIDE DEF q
  <1>5. IsFiniteSet(q.active) /\ Cardinality(q.active) = Cardinality(p.active) + 1
    <2>1. IsFiniteSet(p.active) /\ t \notin p.active
      BY <1>0, <1>2 DEF Kept
    <2>2. /\ IsFiniteSet(p.active \cup {t})
          /\ Cardinality(p.active \cup {t}) = Cardinality(p.active) + 1
      BY <2>1, FS_AddElement
    <2> QED
      BY <1>4, <2>2
  <1>6. Cardinality(p.active) \in Nat /\ p.free \in Nat
    BY <1>0, FS_CardinalityType DEF Kept, ProcShape
  <1>7. Engaged(p) = 1 /\ Engaged(q) = 0
    BY <1>1, <1>4 DEF Engaged
  <1>8. Slots = q.free + Cardinality(q.active) + Engaged(q)
    BY <1>0, <1>4, <1>5, <1>6, <1>7 DEF Kept
  <1>9. Kept(q)
    BY <1>4, <1>5, <1>8 DEF Kept
  <1>10. Charged(q, job')
    BY <1>0, <1>1, <1>2, <1>4 DEF Charged
  <1> QED
    BY <1>0, <1>1, <1>9, <1>10, RowsStay, Moved

\* The claim loop as a whole.
LEMMA ClaimLoopSteps ==
    ASSUME ServiceInv, NEW w \in Workers, ClaimLoop(w)
    PROVE  ServiceInv'
  BY IdleLoopSteps, AcquireStep, CallEndsSteps, ClaimAnsweredStep, SpawnStep DEF ClaimLoop

\* A run ends, and its slot with it.
LEMMA RunSteps ==
    ASSUME ServiceInv, NEW w \in Workers, NEW r \in proc[w].active,
           RunEnds(w, r) \/ RunFails(w, r)
    PROVE  ServiceInv'
  <1> DEFINE p == proc[w]
             q == Without(p, r)
  <1>0. p \in ProcShape /\ Kept(p) /\ node \in [Workers -> Nat] /\ rows \in Nat
    BY DEF ServiceInv
  <1>1. Goes(w, q) /\ UNCHANGED <<node, rows>>
    BY DEF RunEnds, RunFails
  <1>2. r \in Tasks
    BY <1>0 DEF ProcShape
  <1>3. r.job \in Jobs
    BY <1>2 DEF Tasks
  <1>4. Grows
    <2>1. CASE UNCHANGED job
      BY <2>1, RowsStay
    <2>2. CASE job' = [job EXCEPT ![r.job].status = "done"]
      BY <1>3, <2>2, StatusGrows
    <2>3. CASE job' = [job EXCEPT ![r.job].status = IF job[r.job].token < MaxAttempts
                                                    THEN "queued" ELSE "failed"]
      <3> DEFINE s == IF job[r.job].token < MaxAttempts THEN "queued" ELSE "failed"
      <3>1. s \in {"unborn", "queued", "leased", "done", "failed"}
        OBVIOUS
      <3>2. job' = [job EXCEPT ![r.job].status = s]
        BY <2>3
      <3> HIDE DEF s
      <3> QED
        BY <1>3, <3>1, <3>2, StatusGrows
    <2> QED
      BY <2>1, <2>2, <2>3 DEF RunEnds, RunFails
  <1>5. Kept(q) /\ q.active \subseteq p.active /\ q.claim = p.claim
    BY <1>0, TaskReturns
  <1> HIDE DEF q
  <1>6. Charged(q, job')
    BY <1>4, <1>5, StaysCharged
  <1> QED
    BY <1>0, <1>1, <1>4, <1>5, <1>6, Moved

\* The signal, the drain, the end of the process.
LEMMA ShutdownSteps ==
    ASSUME ServiceInv, NEW w \in Workers, Shutdown(w)
    PROVE  ServiceInv'
  <1> DEFINE p == proc[w]
  <1>0. p \in ProcShape /\ Kept(p) /\ node \in [Workers -> Nat] /\ rows \in Nat
        /\ p.boots \in Nat /\ p.cut \in BOOLEAN
    BY DEF ServiceInv, ProcShape
  <1>1. UNCHANGED <<job, node, rows>>
    BY DEF Shutdown, Sigterm, Drained, DrainWindowCloses, ProcessEnds, Kill
  <1>2. Grows
    BY <1>1, RowsStay
  <1>3. CASE Sigterm(w)
    <2> DEFINE q == [p EXCEPT !.stopping = TRUE, !.awaited = p.active,
                              !.drain = IF p.active = {} THEN "over" ELSE "waiting"]
    <2>1. Goes(w, q)
      BY <1>3 DEF Sigterm
    <2>2. /\ q \in ProcShape /\ q.active = p.active /\ q.claim = p.claim /\ q.free = p.free
          /\ q.pc = p.pc
      BY <1>0 DEF ProcShape
    <2> HIDE DEF q
    <2> QED
      BY <1>0, <1>1, <1>2, <2>1, <2>2, SlotsApart DEF Engaged
  <1>4. CASE Drained(w)
    <2> DEFINE q == [p EXCEPT !.drain = "over"]
    <2>1. Goes(w, q)
      BY <1>4 DEF Drained
    <2>2. /\ q \in ProcShape /\ q.active = p.active /\ q.claim = p.claim /\ q.free = p.free
          /\ q.pc = p.pc
      BY <1>0 DEF ProcShape
    <2> HIDE DEF q
    <2> QED
      BY <1>0, <1>1, <1>2, <2>1, <2>2, SlotsApart DEF Engaged
  <1>5. CASE DrainWindowCloses(w)
    <2> DEFINE late == p.awaited \cap p.active
               q == [p EXCEPT !.drain = "over", !.active = @ \ late,
                              !.free = @ + Cardinality(late)]
    <2>1. Goes(w, q)
      BY <1>5 DEF DrainWindowCloses
    <2>2. late \in SUBSET p.active
      OBVIOUS
    <2>3. Cardinality(late) \in Nat
      BY <1>0, <2>2, FS_Subset, FS_CardinalityType DEF Kept
    <2> HIDE DEF late
    <2>4. p.free + Cardinality(late) \in Nat /\ p.active \ late \in SUBSET Tasks
      BY <1>0, <2>3 DEF ProcShape
    <2>5. /\ q \in ProcShape /\ q.active = p.active \ late /\ q.claim = p.claim
          /\ q.free = p.free + Cardinality(late) /\ q.pc = p.pc
      BY <1>0, <2>4 DEF ProcShape
    <2> HIDE DEF q
    <2>6. Kept(q)
      BY <1>0, <2>2, <2>5, TasksReturn
    <2>7. Charged(q, job')
      BY <1>2, <2>5, StaysCharged
    <2> QED
      BY <1>0, <1>1, <1>2, <2>1, <2>6, <2>7, Moved
  <1>6. CASE ProcessEnds(w) \/ Kill(w)
    <2> DEFINE c == p.cut \/ (p.drain = "waiting" /\ p.awaited \cap p.active # {})
    <2>1. c \in BOOLEAN
      BY <1>0
    <2>2. PICK b \in BOOLEAN : Goes(w, [Down EXCEPT !.boots = p.boots, !.cut = b])
      BY <1>0, <1>6, <2>1 DEF ProcessEnds, Kill
    <2> DEFINE q == [Down EXCEPT !.boots = p.boots, !.cut = b]
    <2>3. Kept(q) /\ q.active = {} /\ q.claim = {} /\ Goes(w, q)
      BY <1>0, <2>2, DownIsKept
    <2> HIDE DEF q
    <2>4. Charged(q, job')
      BY <2>3 DEF Charged
    <2> QED
      BY <1>0, <1>1, <1>2, <2>3, <2>4, Moved
  <1> QED
    BY <1>3, <1>4, <1>5, <1>6 DEF Shutdown

-----------------------------------------------------------------------------
\* Every step keeps the invariant.
LEMMA ServiceInvariant == ServiceSpec => []ServiceInv
  <1>1. ServiceInv /\ [ServiceNext]_serviceVars => ServiceInv'
    <2> SUFFICES ASSUME ServiceInv, [ServiceNext]_serviceVars
                 PROVE  ServiceInv'
      OBVIOUS
    <2>1. CASE UNCHANGED serviceVars
      BY <2>1, RowsStay, OutsideSteps DEF serviceVars, ServiceInv
    <2>2. CASE \E j \in Jobs : Submit(j) \/ Reap(j)
      BY <2>2, QueueSteps
    <2>3. CASE Unring
      <3>1. UNCHANGED <<job, node, rows, proc>>
        BY <2>3 DEF Unring
      <3> QED
        BY <3>1, RowsStay, OutsideSteps DEF ServiceInv
    <2>4. ASSUME NEW w \in Workers,
                 \/ Forget(w) \/ Registration(w) \/ ClaimLoop(w) \/ Shutdown(w)
                 \/ \E r \in proc[w].active : RunEnds(w, r) \/ RunFails(w, r)
          PROVE  ServiceInv'
      BY <2>4, OtherOutsideSteps, RegistrationSteps, ClaimLoopSteps, ShutdownSteps, RunSteps
    <2> QED
      BY <2>1, <2>2, <2>3, <2>4 DEF ServiceNext
  <1> QED
    BY <1>1, ServiceInitially, PTL DEF ServiceSpec

\* Every slot is free, held by the claim under way, or held by one run, whatever
\* call, rejection, empty queue, drain or end of a run came between (main.py:109, 148).
THEOREM SlotsAreConserved == ServiceSpec => []SlotsConserved
  <1>1. ServiceInv => SlotsConserved
    BY DEF ServiceInv, SlotsConserved, Kept, Engaged
  <1> QED
    BY <1>1, ServiceInvariant, PTL

-----------------------------------------------------------------------------
(***************************************************************************)
(* The directories.                                                        *)
(***************************************************************************)
\* No run outlives its process.
DownIsIdle(p) == p.pc = "down" => p.active = {}

\* A directory that is not a killed process's leaving has a run at work in it, and a
\* process that starts starts without one.
FilesInv ==
    /\ files \in [Workers -> [Jobs -> Nat]]
    /\ DirectoryHasRun
    /\ \A w \in Workers : DownIsIdle(proc[w])

\* No directory is made, and no run ends.
LEMMA NothingRemoved ==
    ASSUME ServiceInv, FilesInv, files' = files,
           \A w \in Workers : proc[w].active \subseteq proc'[w].active /\ DownIsIdle(proc'[w])
    PROVE  FilesInv'
  BY DEF FilesInv, DirectoryHasRun, DownIsIdle

\* One process's directories change, and those that are still a run's have one.
LEMMA DirectoriesMove ==
    ASSUME ServiceInv, FilesInv, NEW w \in Workers, NEW p, Goes(w, p), DownIsIdle(p),
           NEW d \in [Jobs -> Nat],
           files' = [files EXCEPT ![w] = d],
           \A j \in Jobs : d[j] \in 1..MaxAttempts => \E r \in p.active : r.job = j
    PROVE  FilesInv'
  <1>1. files' \in [Workers -> [Jobs -> Nat]]
    BY DEF FilesInv
  <1>2. ASSUME NEW v \in Workers, NEW j \in Jobs, files'[v][j] \in 1..MaxAttempts
        PROVE  \E r \in proc'[v].active : r.job = j
    <2>1. CASE v = w
      <3>1. proc'[v] = p /\ files'[v] = d
        BY <2>1 DEF Goes, ServiceInv, FilesInv
      <3> QED
        BY <1>2, <3>1
    <2>2. CASE v # w
      <3>1. proc'[v] = proc[v] /\ files'[v] = files[v]
        BY <2>2 DEF Goes, ServiceInv, FilesInv
      <3> QED
        BY <1>2, <3>1 DEF FilesInv, DirectoryHasRun
    <2> QED
      BY <2>1, <2>2
  <1>3. ASSUME NEW v \in Workers PROVE DownIsIdle(proc'[v])
    BY DEF Goes, ServiceInv, FilesInv
  <1> QED
    BY <1>1, <1>2, <1>3 DEF FilesInv, DirectoryHasRun, DownIsIdle

\* Runs are cancelled: their directories go, and every other run stays.
LEMMA CancelledLeaveNothing ==
    ASSUME ServiceInv, FilesInv, NEW w \in Workers, NEW p, Goes(w, p), DownIsIdle(p),
           NEW late \in SUBSET proc[w].active, Cancelled(w, late),
           proc[w].active \ late \subseteq p.active
    PROVE  FilesInv'
  <1> DEFINE d == [j \in Jobs |-> IF \E r \in late : r.job = j THEN 0 ELSE files[w][j]]
  <1>1. files' = [files EXCEPT ![w] = d]
    BY DEF Cancelled, FilesInv
  <1>2. d \in [Jobs -> Nat]
    BY DEF FilesInv
  <1>3. ASSUME NEW j \in Jobs, d[j] \in 1..MaxAttempts
        PROVE  \E r \in p.active : r.job = j
    <2>1. (\A r \in late : r.job # j) /\ files[w][j] \in 1..MaxAttempts
      BY <1>3
    <2>2. PICK r \in proc[w].active : r.job = j
      BY <2>1 DEF FilesInv, DirectoryHasRun
    <2> QED
      BY <2>1, <2>2
  <1> HIDE DEF d
  <1> QED
    BY <1>1, <1>2, <1>3, DirectoriesMove

\* A run that is over takes its directory with it; another attempt at the same job
\* in the same process loses its own.
LEMMA RunLeavesNothing ==
    ASSUME ServiceInv, FilesInv, NEW w \in Workers, NEW r \in proc[w].active,
           Goes(w, Without(proc[w], r)), Cleans(w, r.job)
    PROVE  FilesInv'
  <1>1. /\ proc[w] \in ProcShape /\ Kept(proc[w])
    BY DEF ServiceInv
  <1>2. Without(proc[w], r).active = proc[w].active \ {r}
    BY <1>1 DEF Without, ProcShape
  <1> DEFINE p == Without(proc[w], r)
             d == [files[w] EXCEPT ![r.job] = 0]
  <1>3. p.active = proc[w].active \ {r} /\ Goes(w, p) /\ DownIsIdle(p)
    <2>1. p.pc = proc[w].pc /\ proc[w].pc # "down"
      BY <1>1 DEF Without, ProcShape, FilesInv, DownIsIdle
    <2> QED
      BY <1>2, <2>1 DEF DownIsIdle
  <1>4. files' = [files EXCEPT ![w] = d]
    BY DEF Cleans, FilesInv
  <1>5. d \in [Jobs -> Nat]
    BY DEF FilesInv
  <1>6. ASSUME NEW j \in Jobs, d[j] \in 1..MaxAttempts
        PROVE  \E t \in p.active : t.job = j
    <2>1. j # r.job /\ files[w][j] \in 1..MaxAttempts
      BY <1>6, ServiceAssumption DEF FilesInv
    <2>2. PICK t \in proc[w].active : t.job = j
      BY <2>1 DEF FilesInv, DirectoryHasRun
    <2> QED
      BY <1>3, <2>1, <2>2
  <1> HIDE DEF p, d
  <1> QED
    BY <1>3, <1>4, <1>5, <1>6, DirectoriesMove

\* A run makes its directory as its task is created.
LEMMA SpawnMakesDirectory ==
    ASSUME ServiceInv, FilesInv, NEW w \in Workers, Spawn(w)
    PROVE  FilesInv'
  <1> DEFINE old == proc[w]
             p   == [old EXCEPT !.pc = "top", !.claim = {}, !.active = @ \cup old.claim]
             d   == [j \in Jobs |-> IF \E r \in old.claim : r.job = j
                                    THEN (CHOOSE r \in old.claim : r.job = j).token
                                    ELSE files[w][j]]
  <1>1. old \in ProcShape
    BY DEF ServiceInv
  <1>2. Goes(w, p) /\ p.active = old.active \cup old.claim /\ DownIsIdle(p)
    BY <1>1 DEF Spawn, ProcShape, DownIsIdle
  <1>3. files' = [files EXCEPT ![w] = d]
    BY DEF Spawn, FilesInv
  <1>4. d \in [Jobs -> Nat]
    <2>1. ASSUME NEW j \in Jobs, \E r \in old.claim : r.job = j
          PROVE  (CHOOSE r \in old.claim : r.job = j).token \in Nat
      <3>1. (CHOOSE r \in old.claim : r.job = j) \in old.claim
        BY <2>1
      <3>2. (CHOOSE r \in old.claim : r.job = j) \in Tasks
        BY <1>1, <3>1 DEF ProcShape
      <3> QED
        BY <3>2 DEF Tasks
    <2> QED
      BY <2>1 DEF FilesInv
  <1>5. ASSUME NEW j \in Jobs, d[j] \in 1..MaxAttempts
        PROVE  \E r \in p.active : r.job = j
    <2>1. CASE \E r \in old.claim : r.job = j
      BY <1>2, <2>1
    <2>2. CASE ~\E r \in old.claim : r.job = j
      <3>1. files[w][j] \in 1..MaxAttempts
        BY <1>5, <2>2
      <3>2. \E r \in old.active : r.job = j
        BY <3>1 DEF FilesInv, DirectoryHasRun
      <3> QED
        BY <1>2, <3>2
    <2> QED
      BY <2>1, <2>2
  <1> HIDE DEF p, d
  <1> QED
    BY <1>2, <1>3, <1>4, <1>5, DirectoriesMove

\* A killed process leaves its directories, and nothing that is a run's.
LEMMA KillLeavesLeftovers ==
    ASSUME ServiceInv, FilesInv, NEW w \in Workers, Kill(w)
    PROVE  FilesInv'
  <1> DEFINE p == [Down EXCEPT !.boots = proc[w].boots, !.cut = proc[w].cut]
             d == [j \in Jobs |-> IF files[w][j] = 0 THEN 0 ELSE Leftover]
  <1>1. Goes(w, p) /\ DownIsIdle(p)
    BY DEF Kill, Down, DownIsIdle
  <1>2. files' = [files EXCEPT ![w] = d]
    BY DEF Kill, FilesInv
  <1>3. d \in [Jobs -> Nat] /\ \A j \in Jobs : d[j] \notin 1..MaxAttempts
    BY ServiceAssumption DEF Leftover
  <1> HIDE DEF p, d
  <1> QED
    BY <1>1, <1>2, <1>3, DirectoriesMove

\* The steps of a process that neither make nor remove a directory end no run.
LEMMA RunsGoOn ==
    ASSUME ServiceInv, FilesInv, NEW w \in Workers,
           \/ Registration(w) \/ Sigterm(w) \/ Drained(w)
           \/ Top(w) \/ Acquire(w) \/ ClaimAnswered(w) \/ NoWork(w) \/ ClaimFailed(w)
           \/ ClaimRejected(w) \/ ClaimRegisters(w) \/ WaitForWork(w)
    PROVE  FilesInv'
  <1>1. \A v \in Workers : proc[v] \in ProcShape /\ Kept(proc[v])
    BY DEF ServiceInv
  <1>2. files' = files
    BY DEF Registration, Boot, FirstRegistration, GivesUpRegistering, Heartbeat,
       HeartbeatRegisters, Register, Sigterm, Drained, Top, Acquire, ClaimAnswered, NoWork,
       ClaimFailed, ClaimRejected, ClaimRegisters, WaitForWork
  <1>3. PICK p \in ProcShape : p = proc[w] /\ DownIsIdle(p)
    BY <1>1 DEF FilesInv
  <1>4. proc \in [Workers -> ProcShape]
    BY DEF ServiceInv
  <1>5. Boot(w) \/ (proc'[w].active = p.active /\ (proc'[w].pc # "down" \/ proc'[w].pc = p.pc))
    <2>1. CASE FirstRegistration(w)
      BY <1>3, <1>4, <2>1 DEF FirstRegistration, Goes, ProcShape
    <2>2. CASE GivesUpRegistering(w)
      BY <1>3, <1>4, <2>2 DEF GivesUpRegistering, Goes, ProcShape
    <2>3. CASE Heartbeat(w)
      BY <1>3, <1>4, <2>3 DEF Heartbeat, Goes, ProcShape
    <2>4. CASE HeartbeatRegisters(w)
      <3>1. CASE Goes(w, [p EXCEPT !.beat = "asleep"])
        BY <1>3, <1>4, <3>1 DEF Goes, ProcShape
      <3>2. CASE Goes(w, [p EXCEPT !.beat = "asleep", !.id = Registered(w)])
        BY <1>3, <1>4, <3>2 DEF Goes, ProcShape
      <3> QED
        BY <1>3, <2>4, <3>1, <3>2 DEF HeartbeatRegisters
    <2>5. CASE Sigterm(w)
      BY <1>3, <1>4, <2>5 DEF Sigterm, Goes, ProcShape
    <2>6. CASE Drained(w)
      BY <1>3, <1>4, <2>6 DEF Drained, Goes, ProcShape
    <2>7. CASE Top(w)
      BY <1>3, <1>4, <2>7 DEF Top, Goes, ProcShape
    <2>8. CASE Acquire(w)
      BY <1>3, <1>4, <2>8 DEF Acquire, Goes, ProcShape
    <2>9. CASE WaitForWork(w)
      BY <1>3, <1>4, <2>9 DEF WaitForWork, Goes, ProcShape
    <2>10. CASE ClaimAnswered(w)
      <3>1. PICK c : Goes(w, [p EXCEPT !.pc = "heard", !.claim = {c}])
        BY <1>3, <2>10 DEF ClaimAnswered
      <3> QED
        BY <1>3, <1>4, <3>1 DEF Goes, ProcShape
    <2>11. CASE NoWork(w)
      BY <1>3, <1>4, <2>11 DEF NoWork, Goes, ProcShape
    <2>12. CASE ClaimFailed(w)
      BY <1>3, <1>4, <2>12 DEF ClaimFailed, Goes, ProcShape
    <2>13. CASE ClaimRejected(w)
      BY <1>3, <1>4, <2>13 DEF ClaimRejected, Goes, ProcShape
    <2>14. CASE ClaimRegisters(w)
      <3>1. CASE Goes(w, [p EXCEPT !.pc = "top"])
        BY <1>3, <1>4, <3>1 DEF Goes, ProcShape
      <3>2. CASE Goes(w, [p EXCEPT !.pc = "top", !.id = Registered(w),
                                    !.runner = Registered(w)])
        BY <1>3, <1>4, <3>2 DEF Goes, ProcShape
      <3> QED
        BY <1>3, <2>14, <3>1, <3>2 DEF ClaimRegisters
    <2> QED
      BY <2>1, <2>2, <2>3, <2>4, <2>5, <2>6, <2>7, <2>8, <2>9,
         <2>10, <2>11, <2>12, <2>13, <2>14 DEF Registration
  <1>6. proc[w].active \subseteq proc'[w].active /\ DownIsIdle(proc'[w])
    <2>1. CASE Boot(w)
      <3>1. p.active = {} /\ proc'[w].pc = "registering"
        BY <1>3, <1>4, <2>1 DEF Boot, Goes, Down, DownIsIdle
      <3> QED
        BY <1>3, <3>1 DEF DownIsIdle
    <2>2. CASE ~Boot(w)
      BY <1>3, <1>5, <2>2 DEF DownIsIdle
    <2> QED
      BY <2>1, <2>2
  <1>7. \A v \in Workers \ {w} : proc'[v] = proc[v]
    <2>1. \E q : Goes(w, q)
      BY DEF Registration, Boot, FirstRegistration, GivesUpRegistering, Heartbeat,
         HeartbeatRegisters, Sigterm, Drained, Top, Acquire, ClaimAnswered, NoWork,
         ClaimFailed, ClaimRejected, ClaimRegisters, WaitForWork
    <2> QED
      BY <1>4, <2>1 DEF Goes
  <1>8. ASSUME NEW v \in Workers
        PROVE  proc[v].active \subseteq proc'[v].active /\ DownIsIdle(proc'[v])
    BY <1>6, <1>7 DEF FilesInv
  <1> QED
    BY <1>2, <1>8, NothingRemoved

\* Every step keeps the directories in order.
LEMMA FilesStep ==
    ASSUME ServiceInv, FilesInv, [ServiceNext]_serviceVars
    PROVE  FilesInv'
  <1>1. CASE files' = files /\ proc' = proc
    BY <1>1, NothingRemoved DEF FilesInv
  <1>2. ASSUME NEW w \in Workers, Shutdown(w) PROVE FilesInv'
    <2>1. CASE Sigterm(w) \/ Drained(w)
      BY <2>1, RunsGoOn
    <2>2. CASE DrainWindowCloses(w)
      <3> DEFINE late == proc[w].awaited \cap proc[w].active
                 p == [proc[w] EXCEPT !.drain = "over", !.active = @ \ late,
                                      !.free = @ + Cardinality(late)]
      <3>1. Goes(w, p) /\ Cancelled(w, late) /\ late \in SUBSET proc[w].active
        BY <2>2 DEF DrainWindowCloses
      <3>2. p.active = proc[w].active \ late /\ p.pc = proc[w].pc
        BY DEF ServiceInv, ProcShape
      <3>3. DownIsIdle(p)
        BY <3>2 DEF FilesInv, DownIsIdle
      <3> HIDE DEF late, p
      <3> QED
        BY <3>1, <3>2, <3>3, CancelledLeaveNothing
    <2>3. CASE ProcessEnds(w)
      <3> DEFINE p == [Down EXCEPT !.boots = proc[w].boots,
                         !.cut = \/ proc[w].cut
                                 \/ /\ proc[w].drain = "waiting"
                                    /\ proc[w].awaited \cap proc[w].active # {}]
      <3>1. Goes(w, p) /\ DownIsIdle(p)
        BY <2>3 DEF ProcessEnds, Down, DownIsIdle
      <3>2. Cancelled(w, proc[w].active)
        BY <2>3 DEF ProcessEnds
      <3> HIDE DEF p
      <3> QED
        BY <3>1, <3>2, CancelledLeaveNothing
    <2>4. CASE Kill(w)
      BY <2>4, KillLeavesLeftovers
    <2> QED
      BY <1>2, <2>1, <2>2, <2>3, <2>4 DEF Shutdown
  <1>3. ASSUME NEW w \in Workers, Registration(w) \/ ClaimLoop(w) PROVE FilesInv'
    BY <1>3, RunsGoOn, SpawnMakesDirectory DEF ClaimLoop
  <1>4. ASSUME NEW w \in Workers, NEW r \in proc[w].active, RunEnds(w, r) \/ RunFails(w, r)
        PROVE  FilesInv'
    BY <1>4, RunLeavesNothing DEF RunEnds, RunFails
  <1>5. UNCHANGED serviceVars \/ (\E j \in Jobs : Submit(j) \/ Reap(j)) \/ Unring
          \/ (\E w \in Workers : Forget(w)) => files' = files /\ proc' = proc
    BY DEF serviceVars, Submit, Reap, Unring, Forget
  <1> QED
    BY <1>1, <1>2, <1>3, <1>4, <1>5 DEF ServiceNext

\* Whatever ends a run -- success, failure, a lost lease, the drain, the end of its
\* process -- removes its directory, whichever other attempts at its job the process has:
\* only a kill leaves one behind (workspace.py:53).
THEOREM DirectoriesHaveRuns == ServiceSpec => []DirectoryHasRun
  <1>1. ServiceInit => FilesInv
    BY ServiceAssumption DEF ServiceInit, FilesInv, DirectoryHasRun, DownIsIdle, Down
  <1>2. ServiceInv /\ FilesInv /\ [ServiceNext]_serviceVars => FilesInv'
    BY FilesStep
  <1>3. FilesInv => DirectoryHasRun
    BY DEF FilesInv
  <1> QED
    BY <1>1, <1>2, <1>3, ServiceInvariant, PTL DEF ServiceSpec

=============================================================================
