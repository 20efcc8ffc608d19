-------------------------- MODULE Admission_proofs --------------------------
(***************************************************************************)
(* Theorems about Admission, for every set of connections and keys, every  *)
(* limit and every bound.                                                  *)
(***************************************************************************)
EXTENDS Admission, FiniteSetTheorems, TLAPS

USE AdmissionAssumption DEF AdmissionAssumption

(***************************************************************************)
(* Type correctness.                                                       *)
(***************************************************************************)
LEMMA NewRowFacts ==
    ASSUME AdmissionTypeOK, NEW c \in Clients
    PROVE  /\ NewRow(c) \in Seq(Row)
           /\ Len(row) \in Nat
           /\ Len(NewRow(c)) = Len(row) + 1
           /\ 1..Len(row) \subseteq 1..Len(NewRow(c))
           /\ \A i \in 1..Len(row) : NewRow(c)[i] = row[i]
           /\ NewRow(c)[Len(row) + 1] = [key |-> req[c].key, running |-> TRUE]
<1>1. [key |-> req[c].key, running |-> TRUE] \in Row
  BY DEF AdmissionTypeOK, Submission, Row
<1>2. QED
  BY <1>1 DEF AdmissionTypeOK, NewRow

\* What AdmissionTypeOK says of the submissions.
RequestsOK ==
    /\ req \in [Clients -> Submission]
    /\ \A c \in Clients :
         /\ req[c].phase = "reading" => req[c].key # NoKey
         /\ req[c].phase = "committed" => req[c].job \in 1..Len(row)

\* No step takes a committed job away.
JobsStay == Len(row) \in Nat /\ Len(row') \in Nat /\ Len(row) <= Len(row')

\* One submission changes within its type, and jobs stay.
LEMMA RequestTypes ==
    ASSUME RequestsOK, JobsStay, NEW c \in Clients, NEW s \in Submission,
           s.phase = "reading" => s.key # NoKey,
           s.phase = "committed" => s.job \in 1..Len(row'),
           req' = [req EXCEPT ![c] = s]
    PROVE  RequestsOK'
<1>1. \A d \in Clients : req[d].job \in 1..Len(row) => req[d].job \in 1..Len(row')
  BY DEF JobsStay
<1> QED
  BY <1>1 DEF RequestsOK

\* A submission moved to another place keeps its type.
LEMMA GoesTypes ==
    ASSUME RequestsOK, JobsStay, NEW c \in Clients
    PROVE  /\ \A p \in Holding \ {"committed"} : Goes(c, p) => RequestsOK'
           /\ \A r \in Reply : Fails(c, r) => RequestsOK'
           /\ \A r \in Reply, j \in Nat : Answers(c, r, j) => RequestsOK'
           /\ \A k \in Keys \cup {NoKey}, p \in {"checking", "reading"} :
                Arrives(c, k, p) /\ (p = "reading" => k # NoKey) => RequestsOK'
<1>0. req[c] \in Submission
  BY DEF RequestsOK
<1>1. ASSUME NEW p \in Holding \ {"committed"}, Goes(c, p) PROVE RequestsOK'
  <2>1. [req[c] EXCEPT !.phase = p] \in Submission /\ p # "reading"
    BY <1>0 DEF Submission, Phase, Holding
  <2> QED
    BY <1>0, <1>1, <2>1, RequestTypes DEF Goes, Submission
<1>2. ASSUME NEW r \in Reply, Fails(c, r) PROVE RequestsOK'
  <2>1. [req[c] EXCEPT !.phase = "failing", !.reply = r] \in Submission
    BY <1>0 DEF Submission, Phase, Holding
  <2> QED
    BY <1>0, <1>2, <2>1, RequestTypes DEF Fails, Submission
<1>3. ASSUME NEW r \in Reply, NEW j \in Nat, Answers(c, r, j) PROVE RequestsOK'
  <2>1. [req[c] EXCEPT !.phase = "idle", !.reply = r, !.job = j] \in Submission
    BY <1>0 DEF Submission, Phase
  <2> QED
    BY <1>0, <1>3, <2>1, RequestTypes DEF Answers, Submission
<1>4. ASSUME NEW k \in Keys \cup {NoKey}, NEW p \in {"checking", "reading"}, Arrives(c, k, p),
             p = "reading" => k # NoKey
      PROVE  RequestsOK'
  <2>1. [phase |-> p, key |-> k, job |-> 0, reply |-> "none"] \in Submission
    BY DEF Submission, Reply, Phase, Holding
  <2> QED
    BY <1>4, <2>1, RequestTypes DEF Arrives
<1> QED
  BY <1>1, <1>2, <1>3, <1>4

\* Types are inductive.
LEMMA TypeInductive == AdmissionTypeOK /\ [Next]_vars => AdmissionTypeOK'
<1> SUFFICES ASSUME AdmissionTypeOK, [Next]_vars PROVE AdmissionTypeOK'
  OBVIOUS
<1>a. /\ RequestsOK
      /\ Len(row) \in Nat
      /\ UNCHANGED row => JobsStay
      /\ \A c \in Clients : req[c] \in Submission /\ req[c].key \in Keys \cup {NoKey}
  BY DEF AdmissionTypeOK, RequestsOK, Submission, JobsStay
<1>b. ASSUME RequestsOK', Untouched, UNCHANGED row PROVE AdmissionTypeOK'
  BY <1>b DEF AdmissionTypeOK, RequestsOK, Untouched
<1>c. ASSUME NEW c \in Clients, RequestsOK', Abandons(c), UNCHANGED <<key, row>>
      PROVE  AdmissionTypeOK'
  BY <1>a, <1>c DEF AdmissionTypeOK, RequestsOK, Abandons
<1>d. ASSUME NEW k \in Keys, NEW v \in {Unset, Pending} \cup 1..Len(row),
             RequestsOK', Writes(k, v), UNCHANGED row
      PROVE  AdmissionTypeOK'
  BY <1>d DEF AdmissionTypeOK, RequestsOK, Writes
<1>e. ASSUME RequestsOK', UNCHANGED <<key, abandoned>>, row' \in Seq(Row), JobsStay
      PROVE  AdmissionTypeOK'
  BY <1>e DEF AdmissionTypeOK, RequestsOK, JobsStay
<1>f. \A c \in Clients : row' = NewRow(c) => row' \in Seq(Row) /\ JobsStay
  <2> TAKE c \in Clients
  <2> HAVE row' = NewRow(c)
  <2>1. row' \in Seq(Row) /\ Len(row) \in Nat /\ Len(row') = Len(row) + 1
    BY NewRowFacts
  <2> QED
    BY <2>1 DEF JobsStay
<1>1. ASSUME NEW c \in Clients, Submit(c) PROVE AdmissionTypeOK'
  BY <1>1, <1>a, <1>b, GoesTypes DEF Submit
<1>2. ASSUME NEW c \in Clients, NEW k \in Keys, Reserve(c, k) PROVE AdmissionTypeOK'
  BY <1>2, <1>a, <1>b, <1>d, GoesTypes DEF Reserve
<1>3. ASSUME NEW c \in Clients, ReadHolder(c) PROVE AdmissionTypeOK'
  <2>1. req[c].key \in Keys /\ key[req[c].key] \in {Unset, Pending} \cup Nat
    BY <1>3, <1>a DEF ReadHolder, AdmissionTypeOK
  <2>2. PICK reply \in Reply, j \in Nat : Answers(c, reply, j)
    BY <1>3, <2>1 DEF ReadHolder, Reply
  <2> QED
    BY <1>3, <2>2, <1>a, <1>b, GoesTypes DEF ReadHolder, Untouched
<1>4. ASSUME NEW c \in Clients, Refuse(c) PROVE AdmissionTypeOK'
  BY <1>4, <1>a, <1>b, GoesTypes DEF Refuse, Untouched, Reply
<1>5. ASSUME NEW c \in Clients, Count(c) PROVE AdmissionTypeOK'
  BY <1>5, <1>a, <1>b, GoesTypes DEF Count, Untouched, Reply, Holding
<1>6. ASSUME NEW c \in Clients, Insert(c) PROVE AdmissionTypeOK'
  BY <1>6, <1>a, <1>b, GoesTypes DEF Insert, Untouched, Reply, Holding
<1>7. ASSUME NEW c \in Clients, Commit(c) PROVE AdmissionTypeOK'
  <2>1. [req[c] EXCEPT !.phase = "committed", !.job = Len(row) + 1] \in Submission
    <3>1. Len(row) + 1 \in Nat /\ "committed" \in Phase
      BY <1>a DEF Phase, Holding
    <3> QED
      BY <1>a, <3>1 DEF Submission
  <2>2. Len(row') = Len(row) + 1 /\ JobsStay
    BY <1>7, <1>f, NewRowFacts DEF Commit
  <2>3. RequestsOK'
    <3>1. Len(row) + 1 \in 1..Len(row')
      BY <2>2, <1>a
    <3>2. req' = [req EXCEPT ![c] = [req[c] EXCEPT !.phase = "committed", !.job = Len(row) + 1]]
      BY <1>7 DEF Commit
    <3>3. [req[c] EXCEPT !.phase = "committed", !.job = Len(row) + 1].phase = "committed"
          /\ [req[c] EXCEPT !.phase = "committed", !.job = Len(row) + 1].job = Len(row) + 1
      BY <1>a DEF Submission
    <3> QED
      BY <1>a, <2>1, <2>2, <3>1, <3>2, <3>3, RequestTypes
  <2> QED
    BY <1>7, <1>e, <1>f, <2>3 DEF Commit
<1>8. ASSUME NEW c \in Clients, CommitUnheard(c) PROVE AdmissionTypeOK'
  <2>1. row' \in Seq(Row) /\ JobsStay
    BY <1>8, <1>a, <1>f DEF CommitUnheard, AdmissionTypeOK
  <2>2. RequestsOK'
    BY <1>8, <1>a, <2>1, GoesTypes DEF CommitUnheard, Reply
  <2> QED
    BY <1>8, <1>e, <2>1, <2>2 DEF CommitUnheard
<1>9. ASSUME NEW c \in Clients, Record(c) PROVE AdmissionTypeOK'
  <2>1. req[c].job \in 1..Len(row) /\ req[c].job \in Nat
    BY <1>9, <1>a DEF Record, RequestsOK, Submission
  <2>2. RequestsOK'
    BY <1>9, <1>a, <2>1, GoesTypes DEF Record, Reply
  <2> QED
    BY <1>9, <1>a, <1>b, <1>d, <2>1, <2>2 DEF Record
<1>10. ASSUME NEW c \in Clients, Release(c) PROVE AdmissionTypeOK'
  <2>1. RequestsOK'
    BY <1>10, <1>a, GoesTypes DEF Release, Submission
  <2> QED
    BY <1>10, <1>a, <1>b, <1>d, <2>1 DEF Release
<1>11. ASSUME NEW c \in Clients, RedisFails(c) PROVE AdmissionTypeOK'
  BY <1>11, <1>a, <1>c, GoesTypes DEF RedisFails, Reply
<1>12. ASSUME NEW c \in Clients, Crash(c) PROVE AdmissionTypeOK'
  <2>1. Quiet \in Submission /\ Quiet.phase = "idle"
    BY DEF Quiet, Submission, Phase, Reply
  <2> QED
    BY <1>12, <1>a, <1>c, <2>1, RequestTypes DEF Crash
<1>13. ASSUME NEW k \in Keys, KeyExpires(k) PROVE AdmissionTypeOK'
  BY <1>13, <1>a, <1>d DEF KeyExpires, RequestsOK
<1>14. ASSUME NEW i \in 1..Len(row), JobEnds(i) PROVE AdmissionTypeOK'
  <2>1. row[i] \in Row
    BY <1>14 DEF AdmissionTypeOK
  <2>2. [row[i] EXCEPT !.running = FALSE] \in Row
    BY <2>1 DEF Row
  <2>3. row' \in Seq(Row) /\ Len(row') = Len(row)
    BY <1>14, <2>2 DEF JobEnds, AdmissionTypeOK
  <2> QED
    BY <1>14, <1>a, <1>e, <2>3 DEF JobEnds, JobsStay, RequestsOK
<1>15. CASE UNCHANGED vars
  BY <1>15 DEF vars, AdmissionTypeOK
<1> QED
  BY <1>1, <1>2, <1>3, <1>4, <1>5, <1>6, <1>7, <1>8, <1>9, <1>10, <1>11, <1>12, <1>13,
     <1>14, <1>15 DEF Next

\* The state keeps its shape, AdmissionTypeOK; a key in Redis never names a
\* job that is not committed.
THEOREM AdmissionTypeCorrect == Spec => []AdmissionTypeOK
<1>1. Init => AdmissionTypeOK
  BY DEF Init, AdmissionTypeOK, Submission, Phase, Reply, Quiet, Row
<1> QED
  BY <1>1, TypeInductive, PTL DEF Spec

(***************************************************************************)
(* One job per key.  The index is what decides: nothing here says that a   *)
(* key reserved in Redis is reserved, because it may not be.               *)
(***************************************************************************)

\* What the unique index makes of an insert that has not been committed.
InsertsAreFirst ==
    \A c \in Clients :
      req[c].phase = "inserted" /\ req[c].key # NoKey =>
        /\ ~Carried(req[c].key)
        /\ \A d \in Clients : req[d].phase = "inserted" /\ req[d].key = req[c].key => d = c

\* What Redis and the submissions say of jobs is so.
JobsAreNamed ==
    /\ \A k \in Keys : key[k] \in 1..Len(row) => row[key[k]].key = k
    /\ \A c \in Clients :
         /\ req[c].phase = "committed" => row[req[c].job].key = req[c].key
         /\ req[c].phase # "idle" => req[c].reply # "accepted"

KeyInv == AdmissionTypeOK /\ OneJobPerKey /\ InsertsAreFirst /\ JobsAreNamed

\* Committed jobs keep their numbers and their keys.
RowsStay ==
    /\ 1..Len(row) \subseteq 1..Len(row')
    /\ \A i \in 1..Len(row) : row'[i].key = row[i].key

\* A step of c's handler: what becomes of its submission, and of the others'.
Others(c) == \A d \in Clients \ {c} : req'[d] = req[d]

\* The fields of a submission, and of the others, after one of its steps.
LEMMA StepFields ==
    ASSUME AdmissionTypeOK, NEW c \in Clients
    PROVE  /\ \A p : Goes(c, p) =>
                /\ Others(c)
                /\ req'[c].phase = p /\ req'[c].key = req[c].key
                /\ req'[c].job = req[c].job /\ req'[c].reply = req[c].reply
           /\ \A r : Fails(c, r) =>
                /\ Others(c)
                /\ req'[c].phase = "failing" /\ req'[c].key = req[c].key
                /\ req'[c].job = req[c].job /\ req'[c].reply = r
           /\ \A r, j : Answers(c, r, j) =>
                /\ Others(c)
                /\ req'[c].phase = "idle" /\ req'[c].key = req[c].key
                /\ req'[c].job = j /\ req'[c].reply = r
           /\ \A k, p : Arrives(c, k, p) =>
                /\ Others(c)
                /\ req'[c].phase = p /\ req'[c].key = k
                /\ req'[c].job = 0 /\ req'[c].reply = "none"
<1>1. /\ c \in DOMAIN req /\ req[c] \in Submission
      /\ \A s : req' = [req EXCEPT ![c] = s] => Others(c) /\ req'[c] = s
  BY DEF AdmissionTypeOK, Others
<1>2. ASSUME NEW p, Goes(c, p)
      PROVE  /\ Others(c)
             /\ req'[c].phase = p /\ req'[c].key = req[c].key
             /\ req'[c].job = req[c].job /\ req'[c].reply = req[c].reply
  BY <1>1, <1>2 DEF Goes, Submission
<1>3. ASSUME NEW r, Fails(c, r)
      PROVE  /\ Others(c)
             /\ req'[c].phase = "failing" /\ req'[c].key = req[c].key
             /\ req'[c].job = req[c].job /\ req'[c].reply = r
  BY <1>1, <1>3 DEF Fails, Submission
<1>4. ASSUME NEW r, NEW j, Answers(c, r, j)
      PROVE  /\ Others(c)
             /\ req'[c].phase = "idle" /\ req'[c].key = req[c].key
             /\ req'[c].job = j /\ req'[c].reply = r
  BY <1>1, <1>4 DEF Answers, Submission
<1>5. ASSUME NEW k, NEW p, Arrives(c, k, p)
      PROVE  /\ Others(c)
             /\ req'[c].phase = p /\ req'[c].key = k
             /\ req'[c].job = 0 /\ req'[c].reply = "none"
  BY <1>1, <1>5 DEF Arrives
<1> QED
  BY <1>2, <1>3, <1>4, <1>5

\* A commit adds one row.
LEMMA CommitAddsOne ==
    ASSUME KeyInv, NEW c \in Clients, req[c].phase = "inserted", row' = NewRow(c)
    PROVE  /\ RowsStay
           /\ Len(row) + 1 \in 1..Len(row') /\ row'[Len(row) + 1].key = req[c].key
           /\ \A i \in 1..Len(row') : i \in 1..Len(row) \/ i = Len(row) + 1
           /\ \A i, j \in 1..Len(row') :
                row'[i].key = row'[j].key /\ row'[i].key # NoKey => i = j
           /\ \A k : k # req[c].key /\ ~Carried(k) => ~Carried(k)'
<1>1. /\ Len(row) \in Nat
      /\ Len(row') = Len(row) + 1
      /\ \A i \in 1..Len(row) : row'[i] = row[i]
      /\ row'[Len(row) + 1].key = req[c].key
  <2>1. row'[Len(row) + 1] = [key |-> req[c].key, running |-> TRUE]
    BY NewRowFacts DEF KeyInv
  <2> QED
    BY <2>1, NewRowFacts DEF KeyInv
<1>2. \A i \in 1..Len(row') : i \in 1..Len(row) \/ i = Len(row) + 1
  BY <1>1
<1>3. req[c].key # NoKey => \A i \in 1..Len(row) : row[i].key # req[c].key
  BY DEF KeyInv, InsertsAreFirst, Carried
<1>4. \A i, j \in 1..Len(row') : row'[i].key = row'[j].key /\ row'[i].key # NoKey => i = j
  BY <1>1, <1>2, <1>3 DEF KeyInv, OneJobPerKey
<1> QED
  BY <1>1, <1>2, <1>4 DEF RowsStay, Carried

\* The key invariant is inductive.
LEMMA KeyInductive == KeyInv /\ [Next]_vars => KeyInv'
<1> SUFFICES ASSUME KeyInv, [Next]_vars PROVE KeyInv'
  OBVIOUS
<1>a. /\ AdmissionTypeOK /\ AdmissionTypeOK'
      /\ Len(row) \in Nat
      /\ \A c \in Clients : req[c].key \in Keys \cup {NoKey}
  BY TypeInductive DEF KeyInv, AdmissionTypeOK, Submission
\* A step of c that adds no job, keeps its key and is not its insert.
<1>b. ASSUME NEW c \in Clients, Others(c),
             \/ req'[c].phase # "inserted"
             \/ req'[c].phase = req[c].phase /\ req'[c].key = req[c].key,
             req'[c].reply = "accepted" =>
               /\ req'[c].phase = "idle"
               /\ req'[c].job \in 1..Len(row) /\ row[req'[c].job].key = req'[c].key,
             req'[c].phase = "committed" => row[req'[c].job].key = req'[c].key,
             \A k \in Keys : key'[k] \in 1..Len(row) => row[key'[k]].key = k,
             UNCHANGED row
      PROVE  KeyInv'
  <2>1. OneJobPerKey'
    BY <1>b DEF KeyInv, OneJobPerKey, Others
  <2>2. InsertsAreFirst'
    BY <1>b DEF KeyInv, InsertsAreFirst, Carried, Others
  <2>3. JobsAreNamed'
    BY <1>b DEF KeyInv, JobsAreNamed, Others
  <2> QED
    BY <1>a, <2>1, <2>2, <2>3 DEF KeyInv
<1>c. \A k \in Keys : key[k] \in 1..Len(row) => row[key[k]].key = k
  BY DEF KeyInv, JobsAreNamed
<1>d. ASSUME NEW k \in Keys, NEW v, v \in 1..Len(row) => row[v].key = k, Writes(k, v)
      PROVE  \A l \in Keys : key'[l] \in 1..Len(row) => row[key'[l]].key = l
  BY <1>a, <1>c, <1>d DEF Writes, AdmissionTypeOK
<1>e. Unset \notin 1..Len(row) /\ Pending \notin 1..Len(row)
  BY <1>a DEF Unset, Pending
<1>f. \A c \in Clients :
        /\ req[c].phase # "idle" => req[c].reply # "accepted"
        /\ req[c].phase = "committed" =>
             req[c].job \in 1..Len(row) /\ row[req[c].job].key = req[c].key
  BY DEF KeyInv, JobsAreNamed, AdmissionTypeOK
\* The ways a handler goes on, as cases of <1>b.
<1>g. ASSUME NEW c \in Clients, NEW k, NEW p \in {"checking", "reading"}, Arrives(c, k, p),
             \A l \in Keys : key'[l] \in 1..Len(row) => row[key'[l]].key = l,
             UNCHANGED row
      PROVE  KeyInv'
  <2>1. /\ Others(c) /\ req'[c].reply = "none"
        /\ req'[c].phase # "inserted" /\ req'[c].phase # "committed"
    BY <1>a, <1>g, StepFields
  <2> QED
    BY <1>b, <1>g, <2>1
<1>h. ASSUME NEW c \in Clients, NEW r \in Reply \ {"accepted"}, Fails(c, r),
             UNCHANGED <<key, row>>
      PROVE  KeyInv'
  <2>1. Others(c) /\ req'[c].phase = "failing" /\ req'[c].reply = r
    BY <1>a, <1>h, StepFields
  <2> QED
    BY <1>b, <1>c, <1>h, <2>1
<1>i. ASSUME NEW c \in Clients, NEW r, NEW j, Answers(c, r, j),
             r = "accepted" => j \in 1..Len(row) /\ row[j].key = req[c].key,
             \A l \in Keys : key'[l] \in 1..Len(row) => row[key'[l]].key = l,
             UNCHANGED row
      PROVE  KeyInv'
  <2>1. /\ Others(c) /\ req'[c].phase = "idle" /\ req'[c].key = req[c].key
        /\ req'[c].job = j /\ req'[c].reply = r
    BY <1>a, <1>i, StepFields
  <2> QED
    BY <1>b, <1>i, <2>1
<1>1. ASSUME NEW c \in Clients, Submit(c) PROVE KeyInv'
  BY <1>1, <1>c, <1>g DEF Submit, Untouched
<1>2. ASSUME NEW c \in Clients, NEW k \in Keys, Reserve(c, k) PROVE KeyInv'
  BY <1>2, <1>c, <1>d, <1>e, <1>g DEF Reserve, Untouched
<1>3. ASSUME NEW c \in Clients, ReadHolder(c) PROVE KeyInv'
  <2>1. req[c].key \in Keys
    BY <1>3, <1>a DEF ReadHolder, AdmissionTypeOK
  <2>2. key[req[c].key] \in {Unset, Pending} \cup 1..Len(row)
    BY <1>a, <2>1 DEF AdmissionTypeOK
  <2>3. CASE Answers(c, "conflict", 0)
    BY <1>3, <1>c, <1>i, <2>3 DEF ReadHolder
  <2>4. CASE Answers(c, "accepted", key[req[c].key]) /\ key[req[c].key] \notin {Unset, Pending}
    BY <1>3, <1>c, <1>i, <2>1, <2>2, <2>4 DEF ReadHolder
  <2> QED
    BY <1>3, <2>3, <2>4 DEF ReadHolder
<1>4. ASSUME NEW c \in Clients, Refuse(c) PROVE KeyInv'
  BY <1>4, <1>h DEF Refuse, Reply
<1>5. ASSUME NEW c \in Clients, Count(c) PROVE KeyInv'
  <2>1. CASE Goes(c, "inserting")
    <3>1. /\ Others(c) /\ req'[c].phase = "inserting" /\ req'[c].reply = req[c].reply
      BY <1>a, <2>1, StepFields
    <3> QED
      BY <1>5, <1>b, <1>c, <1>f, <3>1 DEF Count
  <2> QED
    BY <1>5, <1>h, <2>1 DEF Count, Reply
<1>6. ASSUME NEW c \in Clients, Insert(c) PROVE KeyInv'
  <2>1. CASE Goes(c, "inserted") /\ ~Duplicate(req[c].key) /\ ~Blocked(req[c].key)
    <3>1. /\ UNCHANGED <<key, row>>
          /\ req[c].phase = "inserting"
          /\ req[c].key # NoKey => ~Carried(req[c].key) /\ ~Uncommitted(req[c].key)
      BY <1>6, <2>1 DEF Insert, Duplicate, Blocked
    <3>2. /\ Others(c)
          /\ req'[c].phase = "inserted" /\ req'[c].key = req[c].key
          /\ req'[c].reply = req[c].reply
      BY <1>a, <2>1, StepFields
    <3>3. req'[c].reply # "accepted"
      BY <1>f, <3>1, <3>2
    <3>4. OneJobPerKey'
      BY <3>1, <3>2, <3>3 DEF KeyInv, OneJobPerKey, Others
    <3>5. InsertsAreFirst'
      BY <3>1, <3>2 DEF KeyInv, InsertsAreFirst, Carried, Uncommitted, Others
    <3>6. JobsAreNamed'
      BY <1>f, <3>1, <3>2, <3>3 DEF KeyInv, JobsAreNamed, Others
    <3> QED
      BY <1>a, <3>4, <3>5, <3>6 DEF KeyInv
  <2> QED
    BY <1>6, <1>h, <2>1 DEF Insert, Reply
\* A commit: c's row, and c itself past its insert.
<1>j. ASSUME NEW c \in Clients, req[c].phase = "inserted", row' = NewRow(c), UNCHANGED key,
             Others(c), req'[c].key = req[c].key, req'[c].reply # "accepted",
             req'[c].phase \in {"committed", "failing"},
             req'[c].phase = "committed" => req'[c].job = Len(row) + 1
      PROVE  KeyInv'
  <2>1. /\ RowsStay
        /\ row'[Len(row) + 1].key = req[c].key
        /\ \A i, j \in 1..Len(row') :
             row'[i].key = row'[j].key /\ row'[i].key # NoKey => i = j
        /\ \A k : k # req[c].key /\ ~Carried(k) => ~Carried(k)'
    BY <1>j, CommitAddsOne
  <2>2. \A d \in Clients \ {c} : req'[d] = req[d]
    BY <1>j DEF Others
  <2>3. OneJobPerKey'
    <3>1. \A d \in Clients \ {c} : req[d].reply = "accepted" =>
            req[d].job \in 1..Len(row') /\ row'[req[d].job].key = req[d].key
      BY <2>1 DEF RowsStay, KeyInv, OneJobPerKey
    <3> QED
      BY <1>j, <2>1, <2>2, <3>1 DEF OneJobPerKey
  <2>4. InsertsAreFirst'
    <3>1. \A d \in Clients : d # c /\ req[d].phase = "inserted" /\ req[d].key # NoKey =>
            req[d].key # req[c].key /\ ~Carried(req[d].key)
      BY <1>j DEF KeyInv, InsertsAreFirst
    <3>2. \A d \in Clients : req'[d].phase = "inserted" => d # c
      BY <1>j, <2>2
    <3>3. \A d \in Clients : d # c /\ req[d].phase = "inserted" /\ req[d].key # NoKey =>
            ~\E n \in 1..Len(row') : row'[n].key = req[d].key
      BY <2>1, <3>1 DEF Carried
    <3>4. \A d, e \in Clients : /\ req[d].phase = "inserted" /\ req[d].key # NoKey
                               /\ req[e].phase = "inserted" /\ req[e].key = req[d].key => e = d
      BY DEF KeyInv, InsertsAreFirst
    <3> QED
      BY <2>2, <3>2, <3>3, <3>4 DEF InsertsAreFirst, Carried
  <2>5. JobsAreNamed'
    <3>1. \A k \in Keys : key[k] \in 1..Len(row') => row'[key[k]].key = k
      <4>1. \A k \in Keys : key[k] \in 1..Len(row') => key[k] \in 1..Len(row)
        BY <1>a, <1>e DEF AdmissionTypeOK, Unset, Pending
      <4> QED
        BY <1>c, <2>1, <4>1 DEF RowsStay
    <3>2. \A d \in Clients \ {c} : req[d].phase = "committed" => row'[req[d].job].key = req[d].key
      BY <1>f, <2>1 DEF RowsStay
    <3>3. \A d \in Clients \ {c} : req[d].phase # "idle" => req[d].reply # "accepted"
      BY <1>f
    <3> QED
      BY <1>j, <2>1, <2>2, <3>1, <3>2, <3>3 DEF JobsAreNamed
  <2> QED
    BY <1>a, <2>3, <2>4, <2>5 DEF KeyInv
<1>7. ASSUME NEW c \in Clients, Commit(c) PROVE KeyInv'
  <2>1. /\ Others(c) /\ req'[c].phase = "committed" /\ req'[c].key = req[c].key
        /\ req'[c].job = Len(row) + 1 /\ req'[c].reply = req[c].reply
    BY <1>7, <1>a DEF Commit, Others, AdmissionTypeOK, Submission
  <2> QED
    BY <1>7, <1>f, <1>j, <2>1 DEF Commit
<1>8. ASSUME NEW c \in Clients, CommitUnheard(c) PROVE KeyInv'
  <2>1. /\ Others(c) /\ req'[c].phase = "failing" /\ req'[c].key = req[c].key
        /\ req'[c].reply = "error"
    BY <1>8, <1>a, StepFields DEF CommitUnheard
  <2>2. CASE UNCHANGED row
    BY <1>8, <1>h, <2>2 DEF CommitUnheard, Reply
  <2>3. CASE row' = NewRow(c)
    BY <1>8, <1>j, <2>1, <2>3 DEF CommitUnheard
  <2> QED
    BY <1>8, <2>2, <2>3 DEF CommitUnheard
<1>9. ASSUME NEW c \in Clients, Record(c) PROVE KeyInv'
  BY <1>9, <1>a, <1>c, <1>d, <1>f, <1>i DEF Record, Untouched
<1>10. ASSUME NEW c \in Clients, Release(c) PROVE KeyInv'
  BY <1>10, <1>a, <1>c, <1>d, <1>e, <1>f, <1>i DEF Release, Untouched
<1>11. ASSUME NEW c \in Clients, RedisFails(c) PROVE KeyInv'
  BY <1>11, <1>c, <1>i DEF RedisFails
<1>12. ASSUME NEW c \in Clients, Crash(c) PROVE KeyInv'
  <2>1. Others(c) /\ req'[c].phase = "idle" /\ req'[c].reply = "none"
    BY <1>12, <1>a DEF Crash, Quiet, Others, AdmissionTypeOK
  <2> QED
    BY <1>12, <1>b, <1>c, <2>1 DEF Crash
<1>13. ASSUME NEW k \in Keys, KeyExpires(k) PROVE KeyInv'
  <2>1. \A l \in Keys : key'[l] \in 1..Len(row) => row[key'[l]].key = l
    BY <1>13, <1>d, <1>e DEF KeyExpires
  <2> QED
    BY <1>13, <1>a, <2>1 DEF KeyExpires, KeyInv, OneJobPerKey, InsertsAreFirst, Carried, JobsAreNamed
<1>14. ASSUME NEW i \in 1..Len(row), JobEnds(i) PROVE KeyInv'
  <2>1. /\ Len(row') = Len(row) /\ UNCHANGED <<key, req>>
        /\ \A j \in 1..Len(row) : row'[j].key = row[j].key
    BY <1>14, <1>a DEF JobEnds, AdmissionTypeOK, Row
  <2>2. OneJobPerKey'
    BY <2>1 DEF KeyInv, OneJobPerKey
  <2>3. InsertsAreFirst'
    BY <2>1 DEF KeyInv, InsertsAreFirst, Carried
  <2>4. JobsAreNamed'
    BY <1>c, <1>f, <2>1 DEF JobsAreNamed
  <2> QED
    BY <1>a, <2>2, <2>3, <2>4 DEF KeyInv
<1>15. CASE UNCHANGED vars
  BY <1>15, <1>a DEF vars, KeyInv, OneJobPerKey, InsertsAreFirst, Carried, JobsAreNamed
<1> QED
  BY <1>1, <1>2, <1>3, <1>4, <1>5, <1>6, <1>7, <1>8, <1>9, <1>10, <1>11, <1>12, <1>13,
     <1>14, <1>15 DEF Next

\* OneJobPerKey: two jobs never carry one key, whatever Redis forgets, and
\* every submission that is told a job is told the one with its key.
THEOREM KeysMakeOneJob == Spec => []OneJobPerKey
<1>1. Init => KeyInv
  BY DEF Init, KeyInv, AdmissionTypeOK, OneJobPerKey, InsertsAreFirst, JobsAreNamed,
         Submission, Phase, Reply, Quiet, Row
<1>2. KeyInv => OneJobPerKey
  BY DEF KeyInv
<1> QED
  BY <1>1, <1>2, KeyInductive, PTL DEF Spec

(***************************************************************************)
(* No reservation is forgotten.                                            *)
(***************************************************************************)
LEMMA PendingInductive ==
    AdmissionTypeOK /\ PendingIsOwned /\ [Next]_vars => PendingIsOwned'
<1> SUFFICES ASSUME AdmissionTypeOK, PendingIsOwned, [Next]_vars PROVE PendingIsOwned'
  OBVIOUS
<1>a. \A c \in Clients : req[c].key \in Keys \cup {NoKey}
  BY DEF AdmissionTypeOK, Submission
\* c goes on holding its key, or never held one.
<1>b. ASSUME NEW c \in Clients, Others(c), UNCHANGED <<key, abandoned>>,
             req[c].phase \in Holding => req'[c].phase \in Holding /\ req'[c].key = req[c].key
      PROVE  PendingIsOwned'
  BY <1>b DEF PendingIsOwned, Others
\* c has done with its key, and says so.
<1>c. ASSUME NEW c \in Clients, Others(c), req[c].key \in Keys, NEW v, v # Pending,
             Writes(req[c].key, v)
      PROVE  PendingIsOwned'
  BY <1>c DEF PendingIsOwned, Others, Writes, AdmissionTypeOK
\* c cannot.
<1>d. ASSUME NEW c \in Clients, Others(c), Abandons(c), UNCHANGED key PROVE PendingIsOwned'
  <2>1. abandoned \subseteq abandoned'
    BY <1>d DEF Abandons
  <2>2. SUFFICES ASSUME NEW k \in Keys, k \notin abandoned', key[k] = Pending
                 PROVE  \E d \in Clients : req'[d].phase \in Holding /\ req'[d].key = k
    BY <1>d DEF PendingIsOwned
  <2>3. PICK d \in Clients : req[d].phase \in Holding /\ req[d].key = k
    BY <2>1, <2>2 DEF PendingIsOwned
  <2>4. d # c
    BY <1>d, <2>2, <2>3 DEF Abandons
  <2> QED
    BY <1>d, <2>3, <2>4 DEF Others
<1>1. ASSUME NEW c \in Clients, Submit(c) PROVE PendingIsOwned'
  BY <1>1, <1>b, StepFields DEF Submit, Untouched, Holding
<1>2. ASSUME NEW c \in Clients, NEW k \in Keys, Reserve(c, k) PROVE PendingIsOwned'
  <2>1. CASE Arrives(c, k, "reading") /\ Untouched
    BY <1>2, <1>b, <2>1, StepFields DEF Reserve, Untouched, Holding
  <2>2. CASE Arrives(c, k, "checking") /\ Writes(k, Pending)
    <3>1. /\ Others(c) /\ req'[c].phase \in Holding /\ req'[c].key = k
          /\ req[c].phase \notin Holding
      BY <1>2, <2>2, StepFields DEF Reserve, Holding
    <3> QED
      BY <2>2, <3>1 DEF PendingIsOwned, Writes, Others, AdmissionTypeOK
  <2> QED
    BY <1>2, <2>1, <2>2 DEF Reserve
<1>3. ASSUME NEW c \in Clients, ReadHolder(c) PROVE PendingIsOwned'
  <2>1. PICK r, j : Answers(c, r, j)
    BY <1>3 DEF ReadHolder
  <2> QED
    BY <1>3, <1>b, <2>1, StepFields DEF ReadHolder, Holding
<1>4. ASSUME NEW c \in Clients, Refuse(c) \/ Count(c) PROVE PendingIsOwned'
  BY <1>4, <1>b, StepFields DEF Refuse, Count, Holding
<1>5. ASSUME NEW c \in Clients, Insert(c) PROVE PendingIsOwned'
  BY <1>5, <1>b, StepFields DEF Insert, Holding
<1>6. ASSUME NEW c \in Clients, Commit(c) PROVE PendingIsOwned'
  <2>1. Others(c) /\ req'[c].phase = "committed" /\ req'[c].key = req[c].key
    BY <1>6 DEF Commit, Others, AdmissionTypeOK, Submission
  <2> QED
    BY <1>6, <1>b, <2>1 DEF Commit, Holding
<1>7. ASSUME NEW c \in Clients, CommitUnheard(c) PROVE PendingIsOwned'
  BY <1>7, <1>b, StepFields DEF CommitUnheard, Holding
<1>8. ASSUME NEW c \in Clients, Record(c) PROVE PendingIsOwned'
  <2>1. req[c].job # Pending
    BY <1>8 DEF Record, AdmissionTypeOK, Submission, Pending
  <2>2. Others(c)
    BY <1>8, StepFields DEF Record
  <2>3. CASE req[c].key = NoKey
    BY <1>8, <2>2, <2>3 DEF Record, Untouched, PendingIsOwned, Others
  <2> QED
    BY <1>8, <1>a, <1>c, <2>1, <2>2, <2>3 DEF Record
<1>9. ASSUME NEW c \in Clients, Release(c) PROVE PendingIsOwned'
  <2>1. Others(c) /\ Unset # Pending
    BY <1>9, StepFields DEF Release, Unset, Pending
  <2>2. CASE req[c].key = NoKey
    BY <1>9, <2>1, <2>2 DEF Release, Untouched, PendingIsOwned, Others
  <2> QED
    BY <1>9, <1>a, <1>c, <2>1, <2>2 DEF Release
<1>10. ASSUME NEW c \in Clients, RedisFails(c) PROVE PendingIsOwned'
  BY <1>10, <1>d, StepFields DEF RedisFails
<1>11. ASSUME NEW c \in Clients, Crash(c) PROVE PendingIsOwned'
  BY <1>11, <1>d DEF Crash, Others, AdmissionTypeOK
<1>12. ASSUME NEW k \in Keys, KeyExpires(k) PROVE PendingIsOwned'
  BY <1>12 DEF KeyExpires, Writes, PendingIsOwned, Unset, Pending, AdmissionTypeOK
<1>13. CASE UNCHANGED <<key, req, abandoned>>
  BY <1>13 DEF PendingIsOwned
<1> QED
  BY <1>1, <1>2, <1>3, <1>4, <1>5, <1>6, <1>7, <1>8, <1>9, <1>10, <1>11, <1>12, <1>13
  DEF Next, JobEnds, vars

\* PendingIsOwned: a key that answers 409 is being handled, or its request
\* died or lost Redis.
THEOREM ReservationsAreOwned == Spec => []PendingIsOwned
<1>1. Init => AdmissionTypeOK /\ PendingIsOwned
  BY DEF Init, AdmissionTypeOK, PendingIsOwned, Submission, Phase, Reply, Quiet, Row,
         Unset, Pending
<1> QED
  BY <1>1, TypeInductive, PendingInductive, PTL DEF Spec

(***************************************************************************)
(* The concurrency limit.  Running alone is not inductive: a submission    *)
(* that has been admitted adds a job however many there are by then, so    *)
(* it has to be counted from its admission on.                             *)
(***************************************************************************)
PastCount == {c \in Clients : req[c].phase \in {"inserting", "inserted"}}

WithinBudget == Running + Cardinality(PastCount) <= Limit + Cardinality(Clients) - 1

\* Running jobs and admitted submissions are finitely many.
LEMMA Sizes ==
    ASSUME AdmissionTypeOK
    PROVE  /\ IsFiniteSet(Numbers(row)) /\ Running \in Nat
           /\ \A S \in SUBSET Clients :
                /\ IsFiniteSet(S) /\ Cardinality(S) \in Nat
                /\ Cardinality(S) <= Cardinality(Clients)
                /\ \A T \in SUBSET S : Cardinality(T) <= Cardinality(S)
           /\ Cardinality(Clients) \in Nat \ {0}
<1>1. IsFiniteSet(1..Len(row)) /\ Numbers(row) \in SUBSET (1..Len(row))
  BY FS_Interval DEF AdmissionTypeOK, Numbers
<1>2. IsFiniteSet(Numbers(row)) /\ Running \in Nat
  BY <1>1, FS_Subset, FS_CardinalityType DEF Running
<1>3. \A S \in SUBSET Clients :
        IsFiniteSet(S) /\ Cardinality(S) \in Nat /\ Cardinality(S) <= Cardinality(Clients)
  BY FS_Subset, FS_CardinalityType
<1>4. \A S \in SUBSET Clients : \A T \in SUBSET S : Cardinality(T) <= Cardinality(S)
  BY <1>3, FS_Subset
<1>5. Cardinality(Clients) # 0
  BY FS_EmptySet
<1> QED
  BY <1>2, <1>3, <1>4, <1>5

\* The number of running jobs is a natural number.
LEMMA RunningIsNat == ASSUME NEW s \in Seq(Row) PROVE Cardinality(Numbers(s)) \in Nat
<1>1. IsFiniteSet(1..Len(s)) /\ Numbers(s) \in SUBSET (1..Len(s))
  BY FS_Interval DEF Numbers
<1> QED
  BY <1>1, FS_Subset, FS_CardinalityType

\* The budget is inductive.
LEMMA BudgetInductive ==
    AdmissionTypeOK /\ WithinBudget /\ [Next]_vars => WithinBudget'
<1> SUFFICES ASSUME AdmissionTypeOK, WithinBudget, [Next]_vars PROVE WithinBudget'
  OBVIOUS
<1>a. /\ PastCount \in SUBSET Clients /\ PastCount' \in SUBSET Clients
      /\ Running \in Nat /\ Running' \in Nat /\ Limit \in Nat
      /\ Cardinality(PastCount) \in Nat /\ Cardinality(PastCount') \in Nat
      /\ Cardinality(Clients) \in Nat
  <2>1. PastCount \in SUBSET Clients /\ PastCount' \in SUBSET Clients
    BY DEF PastCount
  <2>2. Running' \in Nat
    BY TypeInductive, RunningIsNat DEF AdmissionTypeOK, Running
  <2> QED
    BY <2>1, <2>2, Sizes
\* Nothing is admitted and nothing committed.
<1>b. ASSUME PastCount' \subseteq PastCount, Running' <= Running PROVE WithinBudget'
  <2>1. Cardinality(PastCount') <= Cardinality(PastCount)
    BY <1>a, <1>b, Sizes
  <2> QED
    BY <1>a, <1>b, <2>1 DEF WithinBudget
<1>c. ASSUME NEW c \in Clients, Others(c), UNCHANGED row,
             req'[c].phase \in {"inserting", "inserted"} => c \in PastCount
      PROVE  WithinBudget'
  <2>1. Running' = Running
    BY <1>c DEF Running, Numbers
  <2>2. PastCount' \subseteq PastCount
    BY <1>c DEF PastCount, Others
  <2> QED
    BY <1>a, <1>b, <2>1, <2>2
\* c's job takes c's place.
<1>d. ASSUME NEW c \in Clients, Others(c), req[c].phase = "inserted", row' = NewRow(c),
             req'[c].phase \notin {"inserting", "inserted"}
      PROVE  WithinBudget'
  <2>1. c \in PastCount /\ PastCount' = PastCount \ {c}
    BY <1>d DEF PastCount, Others
  <2>2. Cardinality(PastCount') = Cardinality(PastCount) - 1
    BY <1>a, <2>1, Sizes, FS_RemoveElement
  <2>3. Numbers(row') = Numbers(row) \cup {Len(row) + 1} /\ Len(row) + 1 \notin Numbers(row)
    <3>1. /\ Len(row) \in Nat /\ Len(row') = Len(row) + 1
          /\ \A i \in 1..Len(row) : row'[i] = row[i]
      BY <1>d, NewRowFacts
    <3>2. row'[Len(row) + 1].running
      <4>1. row'[Len(row) + 1] = [key |-> req[c].key, running |-> TRUE]
        BY <1>d, NewRowFacts
      <4> QED
        BY <4>1
    <3>3. \A i \in 1..Len(row') : i \in 1..Len(row) \/ i = Len(row) + 1
      BY <3>1
    <3> QED
      BY <3>1, <3>2, <3>3 DEF Numbers
  <2>4. Running' = Running + 1
    BY <2>3, Sizes, FS_AddElement DEF Running
  <2> QED
    BY <1>a, <2>2, <2>4 DEF WithinBudget
<1>1. ASSUME NEW c \in Clients, Submit(c) PROVE WithinBudget'
  BY <1>1, <1>c, StepFields DEF Submit
<1>2. ASSUME NEW c \in Clients, NEW k \in Keys, Reserve(c, k) PROVE WithinBudget'
  BY <1>2, <1>c, StepFields DEF Reserve
<1>3. ASSUME NEW c \in Clients, ReadHolder(c) PROVE WithinBudget'
  <2>1. PICK r, j : Answers(c, r, j)
    BY <1>3 DEF ReadHolder
  <2> QED
    BY <1>3, <1>c, <2>1, StepFields DEF ReadHolder
<1>4. ASSUME NEW c \in Clients, Refuse(c) PROVE WithinBudget'
  BY <1>4, <1>c, StepFields DEF Refuse
<1>5. ASSUME NEW c \in Clients, Count(c) PROVE WithinBudget'
  <2>1. CASE ~Admitted
    BY <1>5, <1>c, <2>1, StepFields DEF Count
  <2>2. CASE Admitted
    <3>1. Running' = Running /\ Running < Limit
      BY <1>5, <2>2 DEF Count, Admitted, Running, Numbers
    <3>2. Cardinality(PastCount') <= Cardinality(Clients)
      BY <1>a, Sizes
    <3> QED
      BY <1>a, <3>1, <3>2 DEF WithinBudget
  <2> QED
    BY <2>1, <2>2
<1>6. ASSUME NEW c \in Clients, Insert(c) PROVE WithinBudget'
  BY <1>6, <1>c, StepFields DEF Insert, PastCount
<1>7. ASSUME NEW c \in Clients, Commit(c) PROVE WithinBudget'
  BY <1>7, <1>d DEF Commit, Others, AdmissionTypeOK, Submission
<1>8. ASSUME NEW c \in Clients, CommitUnheard(c) PROVE WithinBudget'
  BY <1>8, <1>c, <1>d, StepFields DEF CommitUnheard
<1>9. ASSUME NEW c \in Clients, Record(c) PROVE WithinBudget'
  BY <1>9, <1>c, StepFields DEF Record
<1>10. ASSUME NEW c \in Clients, Release(c) PROVE WithinBudget'
  BY <1>10, <1>c, StepFields DEF Release
<1>11. ASSUME NEW c \in Clients, RedisFails(c) PROVE WithinBudget'
  BY <1>11, <1>c, StepFields DEF RedisFails
<1>12. ASSUME NEW c \in Clients, Crash(c) PROVE WithinBudget'
  BY <1>12, <1>c DEF Crash, Quiet, Others, AdmissionTypeOK
<1>13. ASSUME NEW i \in 1..Len(row), JobEnds(i) PROVE WithinBudget'
  <2>1. Numbers(row') \in SUBSET Numbers(row)
    BY <1>13 DEF JobEnds, Numbers, AdmissionTypeOK, Row
  <2>2. Running' <= Running
    BY <2>1, Sizes, FS_Subset DEF Running
  <2> QED
    BY <1>13, <1>b, <2>2 DEF JobEnds, PastCount
<1>14. CASE UNCHANGED <<row, req>>
  BY <1>14, <1>a, <1>b DEF Running, Numbers, PastCount
<1> QED
  BY <1>1, <1>2, <1>3, <1>4, <1>5, <1>6, <1>7, <1>8, <1>9, <1>10, <1>11, <1>12, <1>13, <1>14
  DEF Next, KeyExpires, vars

\* OvershootIsBounded: a user passes the limit by less than the number of
\* submissions that can be in flight.
THEOREM OvershootsAreBounded == Spec => []OvershootIsBounded
<1>1. Init => AdmissionTypeOK /\ WithinBudget
  <2> SUFFICES ASSUME Init PROVE AdmissionTypeOK /\ WithinBudget
    OBVIOUS
  <2>1. AdmissionTypeOK
    BY DEF Init, AdmissionTypeOK, Submission, Phase, Reply, Quiet, Row
  <2>2. Running = 0 /\ Cardinality(PastCount) = 0
    <3>1. Numbers(row) = {} /\ PastCount = {}
      BY DEF Init, Numbers, PastCount, Quiet
    <3> QED
      BY <3>1, FS_EmptySet DEF Running
  <2> QED
    BY <2>1, <2>2, Sizes DEF WithinBudget
<1>2. AdmissionTypeOK /\ WithinBudget => OvershootIsBounded
  <2> SUFFICES ASSUME AdmissionTypeOK, WithinBudget PROVE OvershootIsBounded
    OBVIOUS
  <2>1. PastCount \in SUBSET Clients
    BY DEF PastCount
  <2> QED
    BY <2>1, Sizes DEF WithinBudget, OvershootIsBounded
<1> QED
  BY <1>1, <1>2, TypeInductive, BudgetInductive, PTL DEF Spec
=============================================================================
