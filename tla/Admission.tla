----------------------------- MODULE Admission -----------------------------
(***************************************************************************)
(* How one user's submissions become jobs: create_generation, the          *)
(* Idempotency-Key in Redis and in PostgreSQL, and the concurrency limit.  *)
(*                                                                         *)
(* A submission is handled in steps that other submissions, other API      *)
(* processes and the loss of Redis come between: claim the key, check the  *)
(* request, count the running jobs, insert, commit, record the job under   *)
(* the key.  Nothing ties Redis to the transaction.                        *)
(***************************************************************************)
EXTENDS Integers, Sequences, FiniteSets

CONSTANTS
    Clients,  \* connections of the user: each carries one submission at a time
    Keys,     \* Idempotency-Keys the user sends
    NoKey,    \* a submission without the header
    Limit,    \* concurrency_limit_for the user
    MaxJobs   \* bound: jobs ever committed

ASSUME AdmissionAssumption ==
    /\ IsFiniteSet(Clients) /\ Clients # {}
    /\ NoKey \notin Keys
    /\ Limit \in Nat
    /\ MaxJobs \in Nat

VARIABLES
    key,       \* key[k]: what Redis holds under k
    row,       \* the user's committed jobs, in the order of their commits
    req,       \* req[c]: the submission on c, or the last one and its answer
    abandoned  \* history: keys left pending by a request that could not say more

vars == <<key, row, req, abandoned>>

\* What Redis holds under a key besides the number of a job.
Unset   == 0
Pending == -1

Row == [key : Keys \cup {NoKey}, running : BOOLEAN]

\* A submission holds its key, or has none, in these phases.
Holding == {"checking", "inserting", "inserted", "committed", "failing"}
Phase   == {"idle", "reading"} \cup Holding
Reply   == {"none", "accepted", "conflict", "refused", "integrity_error", "error"}

Submission == [phase : Phase, key : Keys \cup {NoKey}, job : Nat, reply : Reply]
Quiet      == [phase |-> "idle", key |-> NoKey, job |-> 0, reply |-> "none"]

Numbers(s) == {i \in 1..Len(s) : s[i].running}
Running    == Cardinality(Numbers(row))

Carried(k)     == \E i \in 1..Len(row) : row[i].key = k
Uncommitted(k) == \E c \in Clients : req[c].phase = "inserted" /\ req[c].key = k

Init ==
    /\ key = [k \in Keys |-> Unset]
    /\ row = <<>>
    /\ req = [c \in Clients |-> Quiet]
    /\ abandoned = {}

Goes(c, phase) == req' = [req EXCEPT ![c] = [@ EXCEPT !.phase = phase]]
Fails(c, reply) == req' = [req EXCEPT ![c] = [@ EXCEPT !.phase = "failing", !.reply = reply]]
Answers(c, reply, j) ==
    req' = [req EXCEPT ![c] = [@ EXCEPT !.phase = "idle", !.reply = reply, !.job = j]]

Writes(k, value) ==
    /\ key' = [key EXCEPT ![k] = value]
    /\ abandoned' = abandoned \ {k}

\* c goes away; if its key is pending, nobody will say what became of it.
Abandons(c) ==
    abandoned' = IF req[c].phase \in Holding /\ req[c].key # NoKey /\ key[req[c].key] = Pending
                 THEN abandoned \cup {req[c].key} ELSE abandoned

Untouched == UNCHANGED <<key, abandoned>>

(***************************************************************************)
(* reserve: SET NX, and a GET of its own when the key was taken.  A value  *)
(* that is gone by then is reported as pending.                            *)
(***************************************************************************)
Arrives(c, k, phase) ==
    req' = [req EXCEPT ![c] = [phase |-> phase, key |-> k, job |-> 0, reply |-> "none"]]

Submit(c) ==
    /\ req[c].phase = "idle"
    /\ Arrives(c, NoKey, "checking") /\ Untouched
    /\ UNCHANGED row

Reserve(c, k) ==
    /\ req[c].phase = "idle"
    /\ \/ key[k] = Unset /\ Arrives(c, k, "checking") /\ Writes(k, Pending)
       \/ key[k] # Unset /\ Arrives(c, k, "reading") /\ Untouched
    /\ UNCHANGED row

ReadHolder(c) ==
    LET holder == key[req[c].key]
    IN  /\ req[c].phase = "reading"
        /\ \/ holder \in {Unset, Pending} /\ Answers(c, "conflict", 0)
           \/ holder \notin {Unset, Pending} /\ Answers(c, "accepted", holder)
        /\ UNCHANGED <<key, row, abandoned>>

(***************************************************************************)
(* create: the request rate, validation and the inputs can all refuse; the *)
(* count of committed active jobs comes last.                              *)
(***************************************************************************)
\* Mutation: a refused submission keeps its reservation.
RefuseAtOnce(c) ==
    /\ req[c].phase = "checking"
    /\ Answers(c, "refused", 0)
    /\ UNCHANGED <<key, row, abandoned>>

Refuse(c) ==
    /\ req[c].phase = "checking"
    /\ Fails(c, "refused")
    /\ UNCHANGED <<key, row, abandoned>>

\* Mutation: the limit may be reached once more.
AdmittedAtLimit == Running <= Limit

Admitted == Running < Limit

Count(c) ==
    /\ req[c].phase = "checking"
    /\ \/ Admitted /\ Goes(c, "inserting")
       \/ ~Admitted /\ Fails(c, "refused")
    /\ UNCHANGED <<key, row, abandoned>>

(***************************************************************************)
(* create_job flushes, so the unique index speaks here and not at the      *)
(* commit: an insert waits for an uncommitted one with its key, and fails  *)
(* on a committed one, outside the handler create has for that.            *)
(***************************************************************************)
\* Mutation: the index sees committed rows only.
BlockedNever(k) == FALSE

Blocked(k) == k # NoKey /\ Uncommitted(k)

Duplicate(k) == k # NoKey /\ Carried(k)

Insert(c) ==
    LET k == req[c].key
    IN  /\ req[c].phase = "inserting"
        /\ \/ ~Blocked(k) /\ Duplicate(k) /\ Fails(c, "integrity_error")
           \/ ~Blocked(k) /\ ~Duplicate(k) /\ Goes(c, "inserted")
           \/ Fails(c, "error")  \* any other exception before the commit
        /\ UNCHANGED <<key, row, abandoned>>

NewRow(c) == Append(row, [key |-> req[c].key, running |-> TRUE])

Commit(c) ==
    /\ req[c].phase = "inserted" /\ Len(row) < MaxJobs
    /\ row' = NewRow(c)
    /\ req' = [req EXCEPT ![c] = [@ EXCEPT !.phase = "committed", !.job = Len(row) + 1]]
    /\ UNCHANGED <<key, abandoned>>

\* The database's answer to the commit is lost, before or after it took effect.
CommitUnheard(c) ==
    /\ req[c].phase = "inserted"
    /\ \/ UNCHANGED row
       \/ Len(row) < MaxJobs /\ row' = NewRow(c)
    /\ Fails(c, "error")
    /\ UNCHANGED <<key, abandoned>>

(***************************************************************************)
(* complete after the commit, release after an error.  Both write the key  *)
(* whatever it holds by now; each is one more call that can fail.          *)
(***************************************************************************)
Record(c) ==
    /\ req[c].phase = "committed"
    /\ Answers(c, "accepted", req[c].job)
    /\ IF req[c].key = NoKey THEN Untouched ELSE Writes(req[c].key, req[c].job)
    /\ UNCHANGED row

Release(c) ==
    /\ req[c].phase = "failing"
    /\ Answers(c, req[c].reply, 0)
    /\ IF req[c].key = NoKey THEN Untouched ELSE Writes(req[c].key, Unset)
    /\ UNCHANGED row

RedisFails(c) ==
    /\ req[c].phase \in {"committed", "failing"} /\ req[c].key # NoKey
    /\ Answers(c, "error", 0) /\ Abandons(c)
    /\ UNCHANGED <<key, row>>

(***************************************************************************)
(* The rest of the world: a process dies, a key expires or Redis loses it, *)
(* a job reaches a terminal status.                                        *)
(***************************************************************************)
Crash(c) ==
    /\ req[c].phase # "idle"
    /\ req' = [req EXCEPT ![c] = Quiet] /\ Abandons(c)
    /\ UNCHANGED <<key, row>>

KeyExpires(k) == key[k] # Unset /\ Writes(k, Unset) /\ UNCHANGED <<row, req>>

JobEnds(i) ==
    /\ row[i].running
    /\ row' = [row EXCEPT ![i] = [@ EXCEPT !.running = FALSE]]
    /\ UNCHANGED <<key, req, abandoned>>

Next ==
    \/ \E c \in Clients :
         \/ Submit(c) \/ ReadHolder(c) \/ Refuse(c) \/ Count(c) \/ Insert(c)
         \/ Commit(c) \/ CommitUnheard(c) \/ Record(c) \/ Release(c)
         \/ RedisFails(c) \/ Crash(c)
         \/ \E k \in Keys : Reserve(c, k)
    \/ \E k \in Keys : KeyExpires(k)
    \/ \E i \in 1..Len(row) : JobEnds(i)

Spec == Init /\ [][Next]_vars

(***************************************************************************)
(* Properties                                                              *)
(***************************************************************************)

\* Shape of the state.  Redis under a key holds nothing, "pending" or the
\* number of a committed job; only a submission with a key reads one, and one
\* that is past its commit has a committed job.
AdmissionTypeOK ==
    /\ row \in Seq(Row)
    /\ key \in [Keys -> {Unset, Pending} \cup 1..Len(row)]
    /\ req \in [Clients -> Submission]
    /\ \A c \in Clients :
         /\ req[c].phase = "reading" => req[c].key # NoKey
         /\ req[c].phase = "committed" => req[c].job \in 1..Len(row)
    /\ abandoned \subseteq Keys

\* Two jobs never carry one Idempotency-Key, whatever Redis forgets and
\* whoever deletes whose reservation; and a submission that is told a job is
\* told the one that carries its key.  The unique index of models/generation.py
\* and the mapping of services/idempotency.py.
OneJobPerKey ==
    /\ \A i, j \in 1..Len(row) : row[i].key = row[j].key /\ row[i].key # NoKey => i = j
    /\ \A c \in Clients :
         req[c].reply = "accepted" =>
           req[c].job \in 1..Len(row) /\ row[req[c].job].key = req[c].key

\* A key that blocks its retries with 409 belongs to a submission that is
\* still being handled, unless its owner died or lost Redis: no error path of
\* create_generation leaves a key behind.
PendingIsOwned ==
    \A k \in Keys \ abandoned :
      key[k] = Pending => \E c \in Clients : req[c].phase \in Holding /\ req[c].key = k

\* check_generation_concurrency counts before the insert, so the limit is not
\* kept exactly; it is passed by at most the submissions in flight beside the
\* one that met it, however many have been handled.
OvershootIsBounded == Running <= Limit + Cardinality(Clients) - 1

=============================================================================
