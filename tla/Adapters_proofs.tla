---------------------------- MODULE Adapters_proofs ----------------------------
(***************************************************************************)
(* For any drafts, videos and songs: what planning, rendering and writing  *)
(* of a job never do.                                                      *)
(***************************************************************************)
EXTENDS Adapters, FiniteSetTheorems, SequenceTheorems, WellFoundedInduction, TLAPS

(***************************************************************************)
(* Numbers.                                                                *)
(***************************************************************************)
\* Every set of naturals that is not empty has a least member.
LEMMA LeastNumber ==
    ASSUME NEW T \in SUBSET Nat, T # {}
    PROVE  \E k \in T : \A i \in T : k <= i
  <1>1. PICK k \in T : \A i \in T : ~(<<i, k>> \in OpToRel(<, Nat))
    BY NatLessThanWellFounded, WFMin
  <1>2. ASSUME NEW i \in T PROVE k <= i
    <2>1. ~(i < k)
      BY <1>1 DEF OpToRel
    <2> QED
      BY <2>1
  <1> QED
    BY <1>2

\* What holds of 0, and of k where it holds of k - 1, holds up to n.
LEMMA UpTo ==
    ASSUME NEW n \in Nat, NEW T, 0 \in T, \A k \in 1..n : k - 1 \in T => k \in T
    PROVE  0..n \subseteq T
  <1> DEFINE Out == {k \in 0..n : k \notin T}
  <1>1. SUFFICES ASSUME Out # {} PROVE FALSE
    OBVIOUS
  <1>2. PICK k \in Out : \A i \in Out : k <= i
    <2>1. Out \in SUBSET Nat
      OBVIOUS
    <2> HIDE DEF Out
    <2> QED
      BY <1>1, <2>1, LeastNumber
  <1>3. k \in 1..n /\ k - 1 \in 0..n
    OBVIOUS
  <1>4. k - 1 \in T
    BY <1>2, <1>3
  <1> QED
    BY <1>3, <1>4

\* A function can be iterated: from x, n times.
Iterable(S, n, x, F)    == n \in Nat /\ x \in S /\ F \in [(1..n) \X S -> S]
Iterated(S, n, x, F, f) ==
    f \in [0..n -> S] /\ f[0] = x /\ \A k \in 1..n : f[k] = F[<<k, f[k - 1]>>]

\* Such an iteration exists.
LEMMA IterationExists ==
    ASSUME NEW S, NEW n, NEW x, NEW F, Iterable(S, n, x, F)
    PROVE  \E f : Iterated(S, n, x, F, f)
  <1>0. n \in Nat /\ x \in S /\ F \in [(1..n) \X S -> S]
    BY DEF Iterable
  <1> DEFINE Iterates(f, m) == f[0] = x /\ \A k \in 1..m : f[k] = F[<<k, f[k - 1]>>]
             T == {m \in 0..n : \E f \in [0..m -> S] : Iterates(f, m)}
  <1>1. 0 \in T
    <2>1. [k \in 0..0 |-> x] \in [0..0 -> S] /\ Iterates([k \in 0..0 |-> x], 0)
      BY <1>0
    <2>2. \E f \in [0..0 -> S] : Iterates(f, 0)
      <3> HIDE DEF Iterates
      <3> QED
        BY <2>1
    <2> QED
      BY <1>0, <2>2
  <1>2. ASSUME NEW m \in 1..n, m - 1 \in T PROVE m \in T
    <2>1. PICK f \in [0..(m - 1) -> S] : Iterates(f, m - 1)
      BY <1>2
    <2>2. PICK y \in S : y = F[<<m, f[m - 1]>>]
      BY <1>0
    <2> DEFINE g == [k \in 0..m |-> IF k = m THEN y ELSE f[k]]
    <2>3. g \in [0..m -> S] /\ g[0] = f[0] /\ g[m] = y
      BY <1>0
    <2>4. ASSUME NEW k \in 1..m PROVE g[k] = F[<<k, g[k - 1]>>]
      <3>1. g[k - 1] = f[k - 1]
        BY <1>0
      <3>2. k # m => k \in 1..(m - 1) /\ g[k] = f[k]
        BY <1>0
      <3>3. k # m => f[k] = F[<<k, f[k - 1]>>]
        BY <2>1, <3>2
      <3> HIDE DEF g
      <3> QED
        BY <2>2, <2>3, <3>1, <3>2, <3>3
    <2>5. Iterates(g, m)
      <3> HIDE DEF g
      <3> QED
        BY <2>1, <2>3, <2>4
    <2>6. \E h \in [0..m -> S] : Iterates(h, m)
      <3> HIDE DEF Iterates, g
      <3> QED
        BY <2>3, <2>5
    <2> QED
      BY <2>6
  <1>3. n \in T
    <2> HIDE DEF T
    <2> QED
      BY <1>0, <1>1, <1>2, UpTo
  <1>4. PICK f \in [0..n -> S] : Iterates(f, n)
    BY <1>3
  <1> QED
    BY <1>4 DEF Iterated

(***************************************************************************)
(* A step of the adapters is at most one step of each of their parts.      *)
(***************************************************************************)
DirectorMoves == BeginPlanning \/ PlanningEnds \/ DirectorNext
VideoMoves    == VideoNext \/ \E outcome \in {"ready", "failed", "stopped"} : Directed(outcome)

\* Whatever step the adapters take, each part takes a step of its own or none.
LEMMA StepsAreLocal ==
    ASSUME [AdaptersNext]_adapterVars
    PROVE  /\ DirectorMoves \/ UNCHANGED directorVars
           /\ VideoMoves \/ UNCHANGED videoVars
           /\ MusicNext \/ UNCHANGED musicVars
  <1>1. CASE UNCHANGED adapterVars
    BY <1>1 DEF adapterVars
  <1>2. CASE BeginPlanning
    BY <1>2 DEF BeginPlanning, DirectorMoves
  <1>3. CASE PlanningEnds
    <2>1. UNCHANGED musicVars /\ DirectorMoves
      BY <1>3 DEF PlanningEnds, DirectorMoves
    <2>2. VideoMoves
      BY <1>3 DEF PlanningEnds, VideoMoves
    <2> QED
      BY <2>1, <2>2
  <1>4. CASE DirectorStep /\ UNCHANGED <<videoVars, musicVars>>
    BY <1>4 DEF DirectorMoves, DirectorNext
  <1>5. CASE VideoStep /\ UNCHANGED <<directorVars, musicVars>>
    BY <1>5 DEF VideoMoves, VideoNext
  <1>6. CASE MusicStep /\ UNCHANGED <<directorVars, videoVars>>
    BY <1>6 DEF MusicNext
  <1>7. CASE RenderActs
    BY <1>7 DEF RenderActs, VideoMoves, VideoNext
  <1>8. CASE CancelVideo
    BY <1>8 DEF CancelVideo, VideoMoves, VideoNext, DirectorMoves, DirectorNext
  <1>9. CASE Abort
    BY <1>9 DEF Abort, VideoMoves, VideoNext, DirectorMoves, DirectorNext, MusicNext
  <1>10. CASE MusicCancel /\ UNCHANGED <<directorVars, videoVars>>
    BY <1>10 DEF MusicNext
  <1> QED
    BY <1>1, <1>2, <1>3, <1>4, <1>5, <1>6, <1>7, <1>8, <1>9, <1>10 DEF AdaptersNext, AdapterStep

(***************************************************************************)
(* Director.                                                               *)
(***************************************************************************)
\* The plans of drafts that are not refused.
Usable == {Parsed(d, anchored, grounds) :
              d \in {d \in Drafts : Verdict[d] # "refused"},
              anchored \in BOOLEAN, grounds \in SUBSET {"stated", "seen"}}

DirectorState ==
    [at : {"idle", "looking", "next", "asking", "ready", "failed", "stopped"},
     anchored : BOOLEAN, lineage : BOOLEAN, facts : BOOLEAN, chain : Chains \cup {<<>>},
     sample : BOOLEAN, notes : BOOLEAN, asked : SUBSET {Local, Hosted}, cancelled : BOOLEAN,
     best : Usable \cup {NoPlan}, plan : Usable \cup {NoPlan}]

\* The inductive invariant.  A chain is a suffix of the one it began as, which ends
\* at the local planner, and it is shortened only past a planner that was asked.
DirectorInv ==
    /\ director \in DirectorState /\ planner \in BOOLEAN
    /\ director.sample => director.notes
    /\ director.at \in {"looking", "asking"} => director.chain # <<>>
    /\ director.at = "asking" => Head(director.chain) \in director.asked
    /\ director.at = "next" /\ director.chain = <<>> => Local \in director.asked
    /\ director.at = "failed" => Local \in director.asked
    /\ director.at = "ready" => director.plan \in Usable

\* A chain ends at the local planner, however much of it is left.
LEMMA ChainsEndLocal ==
    ASSUME NEW chain \in Chains
    PROVE  /\ chain # <<>> /\ Head(chain) \in {Local, Hosted}
           /\ Tail(chain) \in Chains \cup {<<>>}
           /\ Tail(chain) = <<>> => Head(chain) = Local
  <1>1. CASE chain = <<Local>>
    <2>1. chain # <<>> /\ Head(chain) = Local /\ Tail(chain) = <<>>
      BY <1>1
    <2> QED
      BY <2>1
  <1>2. CASE chain = <<Hosted, Local>>
    <2>1. chain # <<>> /\ Head(chain) = Hosted /\ Tail(chain) = <<Local>> /\ <<Local>> # <<>>
      BY <1>2
    <2> QED
      BY <2>1 DEF Chains
  <1> QED
    BY <1>1, <1>2 DEF Chains

\* The planning goes on with another sample or another planner.
LEMMA OnwardKeeps ==
    ASSUME DirectorInv, director.at = "asking", NEW best \in Usable \cup {NoPlan},
           NEW d, d = Onward([director EXCEPT !.best = best], TRUE)
    PROVE  /\ d \in DirectorState
           /\ d.at = "next" /\ (d.sample => d.notes)
           /\ d.chain = <<>> => Local \in d.asked
  <1>1. director \in DirectorState /\ director.chain \in Chains /\ director.chain # <<>>
        /\ Head(director.chain) \in director.asked
    BY DEF DirectorInv, DirectorState
  <1>2. Tail(director.chain) \in Chains \cup {<<>>}
        /\ (Tail(director.chain) = <<>> => Head(director.chain) = Local)
    BY <1>1, ChainsEndLocal
  <1>3. CASE director.sample
    <2>1. d = [[director EXCEPT !.best = best]
                 EXCEPT !.at = "next", !.chain = Tail(@), !.sample = FALSE, !.notes = FALSE]
      BY <1>1, <1>3 DEF Onward, DirectorState
    <2>2. d \in DirectorState
      BY ZenonT(40), <1>1, <1>2, <2>1 DEF DirectorState
    <2>3. d.chain = Tail(director.chain) /\ d.asked = director.asked /\ d.at = "next" /\ ~d.sample
      BY <1>1, <2>1 DEF DirectorState
    <2> QED
      BY <1>1, <1>2, <2>2, <2>3
  <1>4. CASE ~director.sample
    <2>1. d = [[director EXCEPT !.best = best] EXCEPT !.at = "next", !.sample = TRUE, !.notes = TRUE]
      BY <1>1, <1>4 DEF Onward, DirectorState
    <2>2. d \in DirectorState
      BY ZenonT(40), <1>1, <2>1 DEF DirectorState
    <2>3. d.chain = director.chain /\ d.asked = director.asked /\ d.at = "next" /\ d.notes
      BY <1>1, <2>1 DEF DirectorState
    <2> QED
      BY <1>1, <2>2, <2>3
  <1> QED
    BY <1>3, <1>4

\* Planning keeps its invariant.
LEMMA DirectorStays ==
    ASSUME DirectorInv, DirectorMoves \/ UNCHANGED directorVars,
           video.job \in VideoJobs, video.cancelled \in BOOLEAN
    PROVE  DirectorInv'
  <1> USE DEF DirectorTo
  <1>0. /\ director \in DirectorState /\ planner \in BOOLEAN
        /\ director.chain \in Chains \cup {<<>>}
        /\ director.best \in Usable \cup {NoPlan}
    BY DEF DirectorInv, DirectorState
  <1>1. CASE UNCHANGED directorVars
    BY <1>1 DEF directorVars, DirectorInv
  <1>2. CASE BeginPlanning
    <2>1. PICK chain \in Chains, lineage \in BOOLEAN :
            director' = [Planning("looking", video.job.still \/ video.job.kind = "extension",
                                  lineage, chain) EXCEPT !.cancelled = video.cancelled]
      BY <1>2 DEF BeginPlanning
    <2>2. PICK anchored \in BOOLEAN, cancelled \in BOOLEAN :
            /\ anchored = (video.job.still \/ video.job.kind = "extension")
            /\ cancelled = video.cancelled
      BY VideoAssumption DEF VideoAssumption, VideoRequest
    <2>3. director' = [Planning("looking", anchored, lineage, chain) EXCEPT !.cancelled = cancelled]
      BY <2>1, <2>2
    <2>4. director' \in DirectorState
      BY ZenonT(40), <2>3 DEF DirectorState, Planning
    <2>5. /\ director'.at = "looking" /\ director'.sample = FALSE /\ director'.chain = chain
      BY <2>3 DEF Planning
    <2>6. planner' = planner /\ chain # <<>>
      BY <1>2, ChainsEndLocal DEF BeginPlanning
    <2> QED
      BY <1>0, <2>4, <2>5, <2>6 DEF DirectorInv
  <1>3. CASE PlanningEnds
    <2>1. director' = Planning("idle", FALSE, FALSE, <<>>) /\ planner' = planner
      BY <1>3 DEF PlanningEnds
    <2>2. director' \in DirectorState
      BY ZenonT(40), <2>1 DEF DirectorState, Planning
    <2>3. director'.at = "idle" /\ director'.sample = FALSE
      BY <2>1 DEF Planning
    <2> QED
      BY <1>0, <2>1, <2>2, <2>3 DEF DirectorInv
  <1>4. CASE LookAtPicture
    <2>1. PICK seen \in BOOLEAN : director' = [director EXCEPT !.at = "next", !.facts = seen]
      BY <1>4 DEF LookAtPicture
    <2>2. director.at = "looking" /\ planner' = planner
      BY <1>4 DEF LookAtPicture
    <2>3. director' \in DirectorState
      BY ZenonT(40), <1>0, <2>1 DEF DirectorState
    <2>4. /\ director'.at = "next" /\ director'.chain = director.chain
          /\ director'.sample = director.sample /\ director'.notes = director.notes
      BY <1>0, <2>1 DEF DirectorState
    <2> QED
      BY <1>0, <2>2, <2>3, <2>4 DEF DirectorInv
  <1>5. CASE AskPlanner
    <2>1. CASE director.cancelled
      <3>1. director' = [director EXCEPT !.at = "stopped"] /\ planner' = planner
        BY <1>5, <2>1 DEF AskPlanner
      <3>2. director' \in DirectorState
        BY ZenonT(40), <1>0, <3>1 DEF DirectorState
      <3>3. /\ director'.at = "stopped"
            /\ director'.sample = director.sample /\ director'.notes = director.notes
        BY <1>0, <3>1 DEF DirectorState
      <3> QED
        BY <1>0, <3>1, <3>2, <3>3 DEF DirectorInv
    <2>2. CASE ~director.cancelled
      <3>1. /\ director' = [director EXCEPT !.at = "asking", !.asked = @ \cup {Head(director.chain)}]
            /\ planner' \in BOOLEAN /\ director.chain \in Chains
        BY <1>0, <1>5, <2>2 DEF AskPlanner
      <3>2. Head(director.chain) \in {Local, Hosted} /\ director.chain # <<>>
        BY <3>1, ChainsEndLocal
      <3>3. director' \in DirectorState
        BY ZenonT(40), <1>0, <3>1, <3>2 DEF DirectorState
      <3>4. /\ director'.at = "asking" /\ director'.chain = director.chain
            /\ director'.asked = director.asked \cup {Head(director.chain)}
            /\ director'.sample = director.sample /\ director'.notes = director.notes
        BY <1>0, <3>1 DEF DirectorState
      <3> QED
        BY <3>1, <3>2, <3>3, <3>4 DEF DirectorInv
    <2> QED
      BY <2>1, <2>2
  <1>6. CASE Answer
    <2>0. director.at = "asking" /\ planner' = FALSE
      BY <1>6 DEF Answer
    <2>1. PICK d \in Drafts :
            director' = CASE Verdict[d] = "refused" -> Onward(director, TRUE)
                          [] Verdict[d] = "sparse"  ->
                               Onward([director EXCEPT !.best = IF @ = NoPlan
                                         THEN Parsed(d, director.anchored, Grounds) ELSE @], TRUE)
                          [] Verdict[d] = "good"    ->
                               [director EXCEPT !.at = "ready",
                                                !.plan = Parsed(d, director.anchored, Grounds)]
      BY <1>6 DEF Answer
    <2>2. Verdict[d] \in {"refused", "sparse", "good"}
      BY DEF Verdict
    <2>3. CASE Verdict[d] = "refused"
      <3>1. director' = Onward([director EXCEPT !.best = director.best], TRUE)
        <4>1. [director EXCEPT !.best = director.best] = director
          BY <1>0 DEF DirectorState
        <4> QED
          BY <2>1, <2>3, <4>1
      <3>2. PICK d2 : d2 = director'
        OBVIOUS
      <3>3. /\ d2 \in DirectorState /\ d2.at = "next" /\ (d2.sample => d2.notes)
            /\ d2.chain = <<>> => Local \in d2.asked
        BY <1>0, <2>0, <3>1, <3>2, OnwardKeeps
      <3> QED
        BY <2>0, <3>2, <3>3 DEF DirectorInv
    <2>4. Verdict[d] # "refused" => Parsed(d, director.anchored, Grounds) \in Usable
      <3>1. Grounds \in SUBSET {"stated", "seen"} /\ director.anchored \in BOOLEAN
        BY <1>0 DEF Grounds, DirectorState
      <3> QED
        BY <3>1 DEF Usable
    <2>5. CASE Verdict[d] = "sparse"
      <3>1. PICK best \in Usable \cup {NoPlan} :
              best = IF director.best = NoPlan THEN Parsed(d, director.anchored, Grounds)
                     ELSE director.best
        BY <1>0, <2>4, <2>5
      <3>2. director' = Onward([director EXCEPT !.best = best], TRUE)
        BY <2>1, <2>5, <3>1
      <3>3. PICK d2 : d2 = director'
        OBVIOUS
      <3>4. /\ d2 \in DirectorState /\ d2.at = "next" /\ (d2.sample => d2.notes)
            /\ d2.chain = <<>> => Local \in d2.asked
        BY <2>0, <3>2, <3>3, OnwardKeeps
      <3> QED
        BY <2>0, <3>3, <3>4 DEF DirectorInv
    <2>6. CASE Verdict[d] = "good"
      <3>1. PICK plan \in Usable : plan = Parsed(d, director.anchored, Grounds)
        BY <2>4, <2>6
      <3>2. director' = [director EXCEPT !.at = "ready", !.plan = plan]
        BY <2>1, <2>6, <3>1
      <3>3. director' \in DirectorState
        BY ZenonT(40), <1>0, <3>2 DEF DirectorState
      <3>4. /\ director'.at = "ready" /\ director'.plan = plan
            /\ director'.sample = director.sample /\ director'.notes = director.notes
        BY <1>0, <3>2 DEF DirectorState
      <3> QED
        BY <2>0, <3>3, <3>4 DEF DirectorInv
    <2> QED
      BY <2>2, <2>3, <2>5, <2>6
  <1>7. CASE AnswerUnusable
    <2>1. [director EXCEPT !.best = director.best] = director
      BY <1>0 DEF DirectorState
    <2>2. director.at = "asking" /\ director' = Onward([director EXCEPT !.best = director.best], TRUE)
      BY <1>7, <2>1 DEF AnswerUnusable
    <2>3. PICK d2 : d2 = director'
      OBVIOUS
    <2>4. /\ d2 \in DirectorState /\ d2.at = "next" /\ (d2.sample => d2.notes)
          /\ d2.chain = <<>> => Local \in d2.asked
      BY <1>0, <2>2, <2>3, OnwardKeeps
    <2>5. planner' = FALSE
      BY <1>7 DEF AnswerUnusable
    <2> QED
      BY <2>3, <2>4, <2>5 DEF DirectorInv
  <1>8. CASE SkipProvider
    <2>1. /\ director.at = "asking" /\ Head(director.chain) = Hosted /\ planner' = planner
          /\ director' = [director EXCEPT !.chain = Tail(@), !.sample = FALSE, !.notes = FALSE,
                                          !.at = "next"]
      BY <1>8 DEF SkipProvider
    <2>2. director.chain \in Chains
      BY <1>0, <2>1 DEF DirectorInv
    <2>3. Tail(director.chain) \in Chains
      BY <2>1, <2>2, ChainsEndLocal, DirectorAssumption DEF DirectorAssumption
    <2>4. director' \in DirectorState
      BY ZenonT(40), <1>0, <2>1, <2>3 DEF DirectorState
    <2>5. director'.at = "next" /\ director'.sample = FALSE /\ director'.chain = Tail(director.chain)
      BY <1>0, <2>1 DEF DirectorState
    <2>6. Tail(director.chain) # <<>>
      BY <2>3, ChainsEndLocal
    <2> QED
      BY <1>0, <2>1, <2>4, <2>5, <2>6 DEF DirectorInv
  <1>9. CASE LocalPlannerFails
    <2>1. /\ director.at = "asking" /\ Head(director.chain) = Local /\ planner' = FALSE
          /\ director' = [director EXCEPT !.at = "failed"]
      BY <1>9 DEF LocalPlannerFails
    <2>2. director' \in DirectorState
      BY ZenonT(40), <1>0, <2>1 DEF DirectorState
    <2>3. /\ director'.at = "failed" /\ director'.asked = director.asked
          /\ director'.sample = director.sample /\ director'.notes = director.notes
      BY <1>0, <2>1 DEF DirectorState
    <2> QED
      BY <2>1, <2>2, <2>3 DEF DirectorInv
  <1>10. CASE ChainSpent
    <2>1. PICK at \in {"failed", "ready"} : at = IF director.best = NoPlan THEN "failed" ELSE "ready"
      OBVIOUS
    <2>2. /\ director.at = "next" /\ director.chain = <<>> /\ planner' = planner
          /\ director' = [director EXCEPT !.at = at, !.plan = director.best]
      BY <1>10, <2>1 DEF ChainSpent
    <2>3. director' \in DirectorState
      BY ZenonT(40), <1>0, <2>2 DEF DirectorState
    <2>4. /\ director'.at = at /\ director'.asked = director.asked /\ director'.plan = director.best
          /\ director'.sample = director.sample /\ director'.notes = director.notes
      BY <1>0, <2>2 DEF DirectorState
    <2> QED
      BY <1>0, <2>1, <2>2, <2>3, <2>4 DEF DirectorInv
  <1>11. CASE DirectorCancelled
    <2>1. director' = [director EXCEPT !.cancelled = TRUE] /\ planner' = planner
      BY <1>11 DEF DirectorCancelled
    <2>2. director' \in DirectorState
      BY ZenonT(40), <1>0, <2>1 DEF DirectorState
    <2>3. /\ director'.at = director.at /\ director'.chain = director.chain
          /\ director'.asked = director.asked /\ director'.plan = director.plan
          /\ director'.sample = director.sample /\ director'.notes = director.notes
      BY <1>0, <2>1 DEF DirectorState
    <2> QED
      BY <2>1, <2>2, <2>3 DEF DirectorInv
  <1>12. CASE DirectorAborted
    <2>1. director' = [director EXCEPT !.at = "stopped"] /\ planner' = planner
      BY <1>12 DEF DirectorAborted
    <2>2. director' \in DirectorState
      BY ZenonT(40), <1>0, <2>1 DEF DirectorState
    <2>3. /\ director'.at = "stopped"
          /\ director'.sample = director.sample /\ director'.notes = director.notes
      BY <1>0, <2>1 DEF DirectorState
    <2> QED
      BY <2>1, <2>2, <2>3 DEF DirectorInv
  <1> QED
    BY <1>1, <1>2, <1>3, <1>4, <1>5, <1>6, <1>7, <1>8, <1>9, <1>10, <1>11, <1>12
    DEF DirectorMoves, DirectorNext, DirectorStep

\* The trim takes lines away, none that the user wrote, and changes nothing else.
OnlySilences(timeline, t) ==
    \A k \in DOMAIN timeline :
        /\ t[k].start = timeline[k].start /\ t[k].end = timeline[k].end
        /\ t[k].speaker = timeline[k].speaker /\ t[k].exits = timeline[k].exits
        /\ \/ t[k].line = timeline[k].line
           \/ t[k].line = <<>> /\ ~Protected(timeline[k].line)

LEMMA TrimOnlySilences ==
    ASSUME NEW n \in Nat, NEW timeline \in [1..n -> TimelineEvent]
    PROVE  Trimmed(timeline) \in {t \in [1..n -> TimelineEvent] : OnlySilences(timeline, t)}
  <1> DEFINE S == {t \in [1..n -> TimelineEvent] : OnlySilences(timeline, t)}
             Budget == (SpeechBudget * 115) \div 100
             Fits(k, t) == SpokenWords(t) <= Budget \/ ~Speaks(t[k]) \/ Protected(t[k].line)
             After(i, t) == IF Fits(n + 1 - i, t) THEN t ELSE Silenced(t, n + 1 - i)
             Cuts(g) == g = [i \in 0..n |-> IF i = 0 THEN timeline ELSE After(i, g[i - 1])]
             cut == CHOOSE g : Cuts(g)
  <1>1. timeline \in Seq(TimelineEvent) /\ Len(timeline) = n
    OBVIOUS
  <1>2. Trimmed(timeline) = cut[n]
    <2> HIDE DEF Fits
    <2> QED
      BY <1>1 DEF Trimmed, Fits
  <1>3. ASSUME NEW i \in 1..n, NEW t \in S PROVE After(i, t) \in S
    <2>1. PICK k \in 1..n : k = n + 1 - i
      OBVIOUS
    <2>2. PICK e \in TimelineEvent : e = t[k]
      OBVIOUS
    <2>3. PICK silent \in TimelineEvent : silent = [e EXCEPT !.line = <<>>]
      BY ZenonT(40), EmptySeq DEF TimelineEvent
    <2>4. /\ silent.start = e.start /\ silent.end = e.end /\ silent.speaker = e.speaker
          /\ silent.exits = e.exits /\ silent.line = <<>>
      BY <2>3 DEF TimelineEvent
    <2>5. Silenced(t, k) = [m \in 1..n |-> IF m = k THEN silent ELSE t[m]]
      BY <2>2, <2>3 DEF Silenced
    <2>6. Silenced(t, k) \in [1..n -> TimelineEvent]
      BY <2>5
    <2>7. ASSUME ~Fits(k, t) PROVE Silenced(t, k) \in S
      <3>1. e.line # <<>> /\ ~Protected(e.line)
        BY <2>2, <2>7 DEF Speaks
      <3>2. e.line = timeline[k].line
        BY <2>2, <3>1 DEF OnlySilences
      <3>3. OnlySilences(timeline, Silenced(t, k))
        BY <2>2, <2>4, <2>5, <3>1, <3>2 DEF OnlySilences
      <3> QED
        BY <2>6, <3>3
    <2> HIDE DEF Fits, S
    <2> QED
      BY <2>1, <2>7
  <1>4. timeline \in S
    BY DEF OnlySilences
  <1> HIDE DEF Fits, After, S
  <1>5. \E g : Cuts(g)
    <2> DEFINE F == [p \in (1..n) \X S |-> After(p[1], p[2])]
    <2>1. Iterable(S, n, timeline, F)
      BY <1>3, <1>4 DEF Iterable
    <2>2. PICK g : Iterated(S, n, timeline, F, g)
      <3> HIDE DEF F
      <3> QED
        BY <2>1, IterationExists
    <2>3. g \in [0..n -> S] /\ g[0] = timeline /\ \A k \in 1..n : g[k] = F[<<k, g[k - 1]>>]
      BY <2>2 DEF Iterated
    <2>4. ASSUME NEW k \in 1..n PROVE g[k] = After(k, g[k - 1])
      <3>1. g[k - 1] \in S
        BY <2>3
      <3> QED
        BY <2>3, <3>1
    <2>5. Cuts(g)
      BY <2>3, <2>4
    <2> QED
      BY <2>5
  <1>6. Cuts(cut)
    <2> HIDE DEF Cuts
    <2> QED
      BY <1>5
  <1> HIDE DEF cut
  <1>7. 0..n \subseteq {i \in 0..n : cut[i] \in S}
    <2> DEFINE T == {i \in 0..n : cut[i] \in S}
    <2>1. 0 \in T
      BY <1>4, <1>6
    <2>2. ASSUME NEW k \in 1..n, k - 1 \in T PROVE k \in T
      BY <1>3, <1>6, <2>2
    <2> HIDE DEF T
    <2>3. 0..n \subseteq T
      BY <2>1, <2>2, UpTo
    <2> QED
      BY <2>3 DEF T
  <1> QED
    BY <1>2, <1>7 DEF S

\* An event is cut to the video's end, and is otherwise as it was.
LEMMA ClippedIsEvent ==
    ASSUME NEW e \in TimelineEvent
    PROVE  /\ Clipped(e) \in TimelineEvent
           /\ Clipped(e).start = e.start /\ Clipped(e).speaker = e.speaker
           /\ Clipped(e).exits = e.exits /\ Clipped(e).line = e.line
           /\ Clipped(e).end <= Duration
  <1>1. e.end \in Int /\ Duration \in Int
    BY DirectorAssumption DEF DirectorAssumption, TimelineEvent
  <1>2. PICK x \in Int : x = (IF e.end < Duration THEN e.end ELSE Duration)
    BY <1>1
  <1>3. [e EXCEPT !.end = x] \in TimelineEvent
    BY ZenonT(40) DEF TimelineEvent
  <1>4. Clipped(e) = [e EXCEPT !.end = x]
    BY <1>2 DEF Clipped
  <1>5. /\ [e EXCEPT !.end = x].start = e.start /\ [e EXCEPT !.end = x].speaker = e.speaker
        /\ [e EXCEPT !.end = x].exits = e.exits /\ [e EXCEPT !.end = x].line = e.line
        /\ [e EXCEPT !.end = x].end = x
    BY DEF TimelineEvent
  <1>6. x <= Duration
    BY <1>1, <1>2
  <1> QED
    BY <1>3, <1>4, <1>5, <1>6

\* A plan has the cast and the events of the draft it was made of.
LEMMA UsableIsPlan ==
    ASSUME NEW p \in Usable \cup {NoPlan}
    PROVE  IsPlan(p)
  <1>1. CASE p = NoPlan
    BY <1>1 DEF IsPlan
  <1>2. CASE p \in Usable
    <2>1. PICK d \in Drafts, anchored \in BOOLEAN, grounds \in SUBSET {"stated", "seen"} :
            p = Parsed(d, anchored, grounds)
      BY <1>2 DEF Usable
    <2>2. d \in PlanDraft /\ d.timeline \in Seq(TimelineEvent)
      BY DirectorAssumption DEF DirectorAssumption, PlanDraft
    <2>3. PICK n \in Nat : n = Len(d.timeline) /\ d.timeline \in [1..n -> TimelineEvent]
      BY <2>2
    <2> DEFINE clipped == [i \in DOMAIN d.timeline |-> Clipped(d.timeline[i])]
    <2>4. clipped \in [1..n -> TimelineEvent]
      BY <2>3, ClippedIsEvent
    <2>5. FinalTimeline[d] = Trimmed(clipped)
      BY DEF FinalTimeline
    <2>6. Trimmed(clipped) \in [1..n -> TimelineEvent]
      <3> HIDE DEF clipped
      <3> QED
        BY <2>4, TrimOnlySilences
    <2>7. p.cast = d.cast /\ p.timeline = FinalTimeline[d]
      BY <2>1 DEF Parsed
    <2>8. Len(p.timeline) = n
      BY <2>5, <2>6, <2>7
    <2> QED
      BY <2>3, <2>7, <2>8 DEF IsPlan
  <1> QED
    BY <1>1, <1>2

\* What is planned with is a plan; what is ready speaks the user's lines.
LEMMA DirectorIsSafe ==
    ASSUME DirectorInv
    PROVE  /\ DirectorTypeOK /\ FailureAskedLocal
           /\ director.at = "ready" => PlanSpeaks(director.plan.timeline)
  <1>1. director \in DirectorState
    BY DEF DirectorInv
  <1>2. IsPlan(director.best) /\ IsPlan(director.plan)
    BY <1>1, UsableIsPlan DEF DirectorState
  <1>3. DirectorTypeOK
    BY <1>1, <1>2 DEF DirectorInv, DirectorTypeOK, DirectorState
  <1>4. FailureAskedLocal
    BY DEF DirectorInv, FailureAskedLocal
  <1>5. ASSUME director.at = "ready" PROVE PlanSpeaks(director.plan.timeline)
    <2>1. PICK d \in Drafts, anchored \in BOOLEAN, grounds \in SUBSET {"stated", "seen"} :
            Verdict[d] # "refused" /\ director.plan = Parsed(d, anchored, grounds)
      BY <1>5 DEF DirectorInv, Usable
    <2>2. director.plan.timeline = FinalTimeline[d]
      BY <2>1 DEF Parsed
    <2>3. PlanSpeaks(FinalTimeline[d])
      BY <2>1 DEF Verdict
    <2> QED
      BY <2>2, <2>3
  <1> QED
    BY <1>3, <1>4, <1>5

(***************************************************************************)
(* Lengths.                                                                *)
(***************************************************************************)
\* The sum is the one function that starts at 0 and adds each value.
Adds(g, n, f) == g[0] = 0 /\ \A i \in 1..n : g[i] = g[i - 1] + f[i]

\* The sum is the last value of any function that adds the summands one by one.
LEMMA SumIs ==
    ASSUME NEW n \in Nat, NEW f, \A i \in 1..n : f[i] \in Int
    PROVE  /\ SumTo(n, f) \in Int
           /\ \A g : Adds(g, n, f) => SumTo(n, f) = g[n]
  <1> DEFINE Sums(s) == s = [i \in 0..n |-> IF i = 0 THEN 0 ELSE s[i - 1] + f[i]]
             sum == CHOOSE s : Sums(s)
  <1>1. SumTo(n, f) = sum[n]
    BY DEF SumTo
  <1>2. \E s : Sums(s)
    <2> DEFINE F == [p \in (1..n) \X Int |-> p[2] + f[p[1]]]
    <2>1. Iterable(Int, n, 0, F)
      BY DEF Iterable
    <2>2. PICK s : Iterated(Int, n, 0, F, s)
      <3> HIDE DEF F
      <3> QED
        BY <2>1, IterationExists
    <2>3. s \in [0..n -> Int] /\ s[0] = 0 /\ \A k \in 1..n : s[k] = F[<<k, s[k - 1]>>]
      BY <2>2 DEF Iterated
    <2>4. ASSUME NEW k \in 1..n PROVE s[k] = s[k - 1] + f[k]
      <3>1. s[k - 1] \in Int
        BY <2>3
      <3> QED
        BY <2>3, <3>1
    <2>5. Sums(s)
      BY <2>3, <2>4
    <2> QED
      BY <2>5
  <1>3. Sums(sum)
    <2> HIDE DEF Sums
    <2> QED
      BY <1>2
  <1>4. sum[0] = 0 /\ \A i \in 1..n : sum[i] = sum[i - 1] + f[i]
    <2> HIDE DEF sum
    <2> QED
      BY <1>3
  <1> HIDE DEF sum
  <1>5. 0..n \subseteq {i \in 0..n : sum[i] \in Int}
    <2> DEFINE T == {i \in 0..n : sum[i] \in Int}
    <2>1. 0 \in T /\ \A k \in 1..n : k - 1 \in T => k \in T
      BY <1>4
    <2> HIDE DEF T
    <2>2. 0..n \subseteq T
      BY <2>1, UpTo
    <2> QED
      BY <2>2 DEF T
  <1>6. ASSUME NEW g, Adds(g, n, f)
        PROVE  sum[n] = g[n]
    <2> DEFINE T == {i \in 0..n : sum[i] = g[i]}
    <2>1. 0 \in T /\ \A k \in 1..n : k - 1 \in T => k \in T
      BY <1>4, <1>6 DEF Adds
    <2> HIDE DEF T
    <2>2. 0..n \subseteq T
      BY <2>1, UpTo
    <2> QED
      BY <2>2 DEF T
  <1> QED
    BY <1>1, <1>5, <1>6

\* A sum of positive numbers is no less than their count.
LEMMA SumOfPositive ==
    ASSUME NEW n \in Nat, NEW f, \A i \in 1..n : f[i] \in Nat \ {0}
    PROVE  SumTo(n, f) \in Nat /\ SumTo(n, f) >= n
  <1>1. \A i \in 1..n : f[i] \in Int
    OBVIOUS
  <1> DEFINE F == [p \in (1..n) \X Int |-> p[2] + f[p[1]]]
  <1>2. Iterable(Int, n, 0, F)
    BY <1>1 DEF Iterable
  <1>3. PICK g : Iterated(Int, n, 0, F, g)
    <2> HIDE DEF F
    <2> QED
      BY <1>2, IterationExists
  <1>4. g \in [0..n -> Int] /\ g[0] = 0 /\ \A k \in 1..n : g[k] = F[<<k, g[k - 1]>>]
    BY <1>3 DEF Iterated
  <1>5. ASSUME NEW k \in 1..n PROVE g[k] = g[k - 1] + f[k]
    <2>1. g[k - 1] \in Int
      BY <1>4
    <2> QED
      BY <1>4, <2>1
  <1> DEFINE T == {i \in 0..n : g[i] \in Int /\ g[i] >= i}
  <1>6. 0 \in T /\ \A k \in 1..n : k - 1 \in T => k \in T
    <2>1. 0 \in T
      <3> HIDE DEF F
      <3> QED
        BY <1>4
    <2>2. ASSUME NEW k \in 1..n, k - 1 \in T PROVE k \in T
      <3>1. g[k] = g[k - 1] + f[k] /\ f[k] >= 1 /\ f[k] \in Int
        BY <1>5
      <3>2. g[k - 1] \in Int /\ g[k - 1] >= k - 1
        BY <2>2
      <3> HIDE DEF F
      <3> QED
        BY <3>1, <3>2
    <2> QED
      BY <2>1, <2>2
  <1>7. 0..n \subseteq T
    <2> HIDE DEF T
    <2> QED
      BY <1>6, UpTo
  <1>8. SumTo(n, f) = g[n]
    <2>1. Adds(g, n, f)
      <3> HIDE DEF F
      <3> QED
        BY <1>4, <1>5 DEF Adds
    <2> QED
      BY <1>1, <2>1, SumIs
  <1> QED
    BY <1>7, <1>8

\* Rounding gives integers.
LEMMA RoundedType ==
    ASSUME NEW a \in Int, NEW b \in Nat \ {0}
    PROVE  Rounded(a, b) \in Int /\ CeilDiv(a, b) \in Int
  BY DEF Rounded, CeilDiv

\* Division rounds down.
LEMMA DivBounds ==
    ASSUME NEW a \in Int, NEW b \in Nat \ {0}
    PROVE  /\ a \div b \in Int /\ a % b \in 0..(b - 1)
           /\ (a \div b) * b <= a /\ a < (a \div b) * b + b
           /\ a = (a \div b) * b + (a % b)
  OBVIOUS

\* Multiplication by a natural keeps the order.
LEMMA ProductsGrow ==
    ASSUME NEW a \in Int, NEW b \in Int, NEW w \in Nat, a <= b
    PROVE  a * w <= b * w
  OBVIOUS

\* Division by a number keeps it too.
LEMMA DivMono ==
    ASSUME NEW a \in Int, NEW c \in Int, NEW b \in Nat \ {0}, a <= c
    PROVE  a \div b <= c \div b
  <1> DEFINE q == a \div b
             r == c \div b
  <1>1. q \in Int /\ r \in Int /\ q * b <= a /\ c < r * b + b
    BY DivBounds
  <1> HIDE DEF q, r
  <1>2. ASSUME q >= r + 1 PROVE FALSE
    <2>1. q * b >= (r + 1) * b
      BY <1>1, <1>2
    <2>2. (r + 1) * b = r * b + b
      BY <1>1
    <2> QED
      BY <1>1, <2>1, <2>2
  <1>3. q <= r
    BY <1>1, <1>2
  <1> QED
    BY <1>3 DEF q, r

\* Division that rounds up gives the least number of parts that is enough.
LEMMA CeilDivIs ==
    ASSUME NEW a \in Nat \ {0}, NEW b \in Nat \ {0}
    PROVE  /\ CeilDiv(a, b) \in Nat \ {0}
           /\ a <= CeilDiv(a, b) * b /\ (CeilDiv(a, b) - 1) * b < a
  <1> DEFINE n == (a + b - 1) \div b
  <1>1. n \in Int /\ n * b <= a + b - 1 /\ a + b - 1 < n * b + b
    <2>1. a + b - 1 \in Int
      OBVIOUS
    <2> QED
      BY <2>1, DivBounds
  <1> HIDE DEF n
  <1>2. (n - 1) * b = n * b - b
    BY <1>1
  <1>3. n >= 1
    <2>1. n <= 0 => n * b <= 0
      BY <1>1
    <2> QED
      BY <1>1, <2>1
  <1> QED
    BY <1>1, <1>2, <1>3 DEF CeilDiv, n

(***************************************************************************)
(* What a plan's captions say of who is there, and its lines of who spoke. *)
(***************************************************************************)
\* Nobody leaves twice, or speaks once they have left.
DepartsOnce(t) ==
    /\ \A j, k \in DOMAIN t : \A c \in t[j].exits : c \in t[k].exits => j = k
    /\ \A j, k \in DOMAIN t : j < k /\ t[k].speaker \in t[j].exits => t[k].start < t[j].end

\* Which is what the parser's check of a timeline comes to.
LEMMA DeparturesAreFinal ==
    ASSUME NEW n \in Nat, NEW t \in [1..n -> TimelineEvent], ~ExitContradicted(t)
    PROVE  DepartsOnce(t)
  <1>1. ASSUME NEW j \in 1..n, NEW k \in 1..n, j < k, NEW c \in t[j].exits
        PROVE  c \notin t[k].exits
    <2>1. j \in LeftBy(t, c, k - 1)
      BY <1>1 DEF LeftBy
    <2> QED
      BY <2>1 DEF ExitContradicted
  <1>2. \A j, k \in 1..n : \A c \in t[j].exits : c \in t[k].exits => j = k
    <2> SUFFICES ASSUME NEW j \in 1..n, NEW k \in 1..n, NEW c \in t[j].exits, c \in t[k].exits
                 PROVE  j = k
      OBVIOUS
    <2>1. j < k \/ k < j \/ j = k
      OBVIOUS
    <2> QED
      BY <1>1, <2>1
  <1>3. ASSUME NEW j \in 1..n, NEW k \in 1..n, j < k, t[k].speaker \in t[j].exits
        PROVE  t[k].start < t[j].end
    <2>1. j \in LeftBy(t, t[k].speaker, k - 1)
      BY <1>3 DEF LeftBy
    <2>2. \A m \in LeftBy(t, t[k].speaker, k - 1) : m = j
      BY <1>2, <1>3 DEF LeftBy
    <2>3. \A m \in LeftBy(t, t[k].speaker, k - 1) : j <= m
      BY <2>2
    <2>4. ~(t[k].start >= t[j].end)
      BY <2>1, <2>3 DEF ExitContradicted
    <2>5. t[k].start \in Int /\ t[j].end \in Int
      BY DEF TimelineEvent
    <2> QED
      BY <2>4, <2>5
  <1> QED
    BY <1>2, <1>3 DEF DepartsOnce

\* A plan that may be rendered: events of its cast, in the video, whose exits are final.
PlanIsSound(p) ==
    /\ \A k \in DOMAIN p.timeline :
         LET e == p.timeline[k] IN
         e.start >= 0 /\ e.speaker \in p.cast \cup {Nobody} /\ e.exits \subseteq p.cast
    /\ DepartsOnce(p.timeline)

\* Every plan that may be used is sound.
LEMMA UsableIsSound ==
    ASSUME NEW p \in Usable
    PROVE  PlanIsSound(p) /\ \E n \in Nat : p.timeline \in [1..n -> TimelineEvent]
  <1>1. PICK d \in Drafts, anchored \in BOOLEAN, grounds \in SUBSET {"stated", "seen"} :
          Verdict[d] # "refused" /\ p = Parsed(d, anchored, grounds)
    BY DEF Usable
  <1>2. d \in PlanDraft /\ d.timeline \in Seq(TimelineEvent)
    BY DirectorAssumption DEF DirectorAssumption, PlanDraft
  <1>3. PICK n \in Nat : n = Len(d.timeline) /\ d.timeline \in [1..n -> TimelineEvent]
    BY <1>2
  <1> DEFINE clipped == [i \in DOMAIN d.timeline |-> Clipped(d.timeline[i])]
  <1>4. clipped \in [1..n -> TimelineEvent]
    BY <1>3, ClippedIsEvent
  <1>5. p.cast = d.cast /\ p.timeline = Trimmed(clipped)
    BY <1>1 DEF Parsed, FinalTimeline
  <1>6. ~Refused(d)
    BY <1>1 DEF Verdict
  <1>7. ~ExitContradicted(clipped)
    BY <1>6 DEF Refused
  <1>8. \A k \in 1..n : /\ clipped[k].start = d.timeline[k].start
                        /\ clipped[k].speaker = d.timeline[k].speaker
                        /\ clipped[k].exits = d.timeline[k].exits
    BY <1>3, ClippedIsEvent
  <1>9. \A k \in 1..n : ~EventRefused(d.timeline[k], d.cast)
    BY <1>3, <1>6 DEF Refused
  <1> HIDE DEF clipped
  <1>10. DepartsOnce(clipped)
    BY <1>4, <1>7, DeparturesAreFinal
  <1>11. p.timeline \in [1..n -> TimelineEvent] /\ OnlySilences(clipped, p.timeline)
    BY <1>4, <1>5, TrimOnlySilences
  <1>12. \A k \in 1..n : /\ p.timeline[k].start = clipped[k].start
                         /\ p.timeline[k].end = clipped[k].end
                         /\ p.timeline[k].speaker = clipped[k].speaker
                         /\ p.timeline[k].exits = clipped[k].exits
    BY <1>4, <1>11 DEF OnlySilences
  <1>13. DepartsOnce(p.timeline)
    BY <1>4, <1>10, <1>11, <1>12 DEF DepartsOnce
  <1>14. ASSUME NEW k \in 1..n
         PROVE  /\ p.timeline[k].start >= 0
                /\ p.timeline[k].speaker \in p.cast \cup {Nobody}
                /\ p.timeline[k].exits \subseteq p.cast
    <2>1. d.timeline[k].start \in Int
      BY <1>3 DEF TimelineEvent
    <2> QED
      BY <1>5, <1>8, <1>9, <1>12, <2>1 DEF EventRefused
  <1> QED
    BY <1>11, <1>13, <1>14 DEF PlanIsSound

\* In a timeline in sequence, what comes later starts and ends later.
LEMMA SequenceAscends ==
    ASSUME NEW n \in Nat, NEW t \in [1..n -> TimelineEvent], InSequence(t),
           NEW j \in 1..n, NEW k \in 1..n, j < k
    PROVE  t[j].end <= t[k].start
  <1>1. \A i \in 1..n : t[i].start \in Int /\ t[i].end \in Int /\ t[i].start < t[i].end
    BY DEF InSequence, TimelineEvent
  <1>2. \A i \in 1..(n - 1) : t[i].end <= t[i + 1].start
    BY DEF InSequence
  <1> DEFINE T == {m \in 0..(n - 1) : j + m + 1 <= n => t[j].end <= t[j + m + 1].start}
  <1>3. 0 \in T
    BY <1>2
  <1>4. ASSUME NEW m \in 1..(n - 1), m - 1 \in T PROVE m \in T
    <2> SUFFICES ASSUME j + m + 1 <= n PROVE t[j].end <= t[j + m + 1].start
      OBVIOUS
    <2>1. t[j].end <= t[j + m].start
      BY <1>4
    <2>2. j + m \in 1..(n - 1)
      OBVIOUS
    <2>3. t[j + m].end <= t[j + m + 1].start
      BY <1>2, <2>2
    <2> QED
      BY <1>1, <2>1, <2>2, <2>3
  <1> HIDE DEF T
  <1>5. 0..(n - 1) \subseteq T
    BY <1>3, <1>4, UpTo
  <1>6. k - j - 1 \in T
    BY <1>5
  <1> QED
    BY <1>6 DEF T

\* A later event is rendered in the same section or in a later one.
LEMMA SectionsFollow ==
    ASSUME NEW n \in Nat \ {0}, NEW e \in TimelineEvent, NEW f \in TimelineEvent,
           0 <= e.start, e.start + e.end <= f.start + f.end, e.start < e.end
    PROVE  /\ SectionOf(e, n) \in 0..(n - 1) /\ SectionOf(f, n) \in 0..(n - 1)
           /\ SectionOf(e, n) <= SectionOf(f, n)
  <1>1. e.start \in Int /\ e.end \in Int /\ f.start \in Int /\ f.end \in Int
    BY DEF TimelineEvent
  <1>2. PICK a \in Nat, b \in Nat, D \in Nat \ {0} :
          a = e.start + e.end /\ b = f.start + f.end /\ D = 2 * Duration
    BY <1>1, DirectorAssumption DEF DirectorAssumption
  <1>3. PICK x \in Nat, y \in Nat : x = a * n /\ y = b * n
    BY <1>2
  <1>4. PICK p \in Int, q \in Int : p = x \div D /\ q = y \div D /\ x < p * D + D
    <2>1. D \in Nat \ {0} /\ x \in Int /\ y \in Int
      BY <1>2, <1>3
    <2> HIDE <1>2, <1>3
    <2>2. x \div D \in Int /\ x < (x \div D) * D + D
      BY <2>1, DivBounds
    <2>3. y \div D \in Int
      BY <2>1, DivBounds
    <2> QED
      BY <2>2, <2>3
  <1>5. 0 <= p /\ p <= q
    <2>1. x <= y
      BY <1>2, <1>3, ProductsGrow
    <2>2. p <= q
      <3>1. D \in Nat \ {0} /\ x \in Int /\ y \in Int
        BY <1>2, <1>3
      <3>2. x \div D <= y \div D
        BY <2>1, <3>1, DivMono
      <3> QED
        BY <1>4, <3>2
    <2>3. x < p * D + D
      BY <1>4
    <2>4. p <= 0 - 1 => p * D <= (0 - 1) * D
      BY <1>2, <1>4, ProductsGrow
    <2>5. p * D \in Int /\ (0 - 1) * D = 0 - D
      BY <1>2, <1>4
    <2> QED
      BY <1>2, <1>3, <1>4, <2>2, <2>3, <2>4, <2>5
  <1>6. SectionOf(e, n) = (IF p < n - 1 THEN p ELSE n - 1)
    BY <1>2, <1>3, <1>4 DEF SectionOf
  <1>7. SectionOf(f, n) = (IF q < n - 1 THEN q ELSE n - 1)
    BY <1>2, <1>3, <1>4 DEF SectionOf
  <1> QED
    BY <1>4, <1>5, <1>6, <1>7

\* What GoneAreGone says of one section of a plan.
GoneFrom(p, n, i) ==
    LET caption == Caption(p, n, i)
        said    == caption.says
        exits   == {k \in DOMAIN said : p.timeline[k].exits # {}}
    IN  /\ \A k \in DOMAIN said : said[k].speaker \in caption.cast \cup {Nobody}
        /\ \A k \in exits : (\A m \in exits : m <= k) => said[k].remain = caption.stay

\* A plan in sequence never brings back who has left.
LEMMA GoneStayGone ==
    ASSUME NEW p, PlanIsSound(p), NEW N \in Nat, p.timeline \in [1..N -> TimelineEvent],
           InSequence(p.timeline), NEW n \in Nat \ {0}, NEW i \in 0..(n - 1)
    PROVE  GoneFrom(p, n, i)
  <1> DEFINE t == p.timeline
             At(k) == SectionOf(t[k], n)
             events == EventsOf(p, n, i)
             cast == CastOf(p, n, i)
             stay == Stay(p, cast, events)
  <1>1. \A k \in 1..N : t[k] \in TimelineEvent /\ t[k].start \in Int /\ t[k].end \in Int
                         /\ t[k].start < t[k].end /\ 0 <= t[k].start
    BY DEF InSequence, PlanIsSound, TimelineEvent
  <1>2. \A j, k \in 1..N : j < k => t[j].end <= t[k].start
    BY SequenceAscends
  <1>3. \A k \in 1..N : At(k) \in 0..(n - 1)
    <2> SUFFICES ASSUME NEW k \in 1..N PROVE SectionOf(t[k], n) \in 0..(n - 1)
      OBVIOUS
    <2>1. t[k].start + t[k].end <= t[k].start + t[k].end
      BY <1>1
    <2> QED
      BY <1>1, <2>1, SectionsFollow
  <1>4. \A j, k \in 1..N : At(j) < At(k) => j < k
    <2> SUFFICES ASSUME NEW j \in 1..N, NEW k \in 1..N, k <= j PROVE At(k) <= At(j)
      BY <1>3
    <2>1. CASE k = j
      BY <1>3, <2>1
    <2>2. CASE k < j
      <3>1. t[k].end <= t[j].start
        BY <1>2, <2>2
      <3>2. t[k].start + t[k].end <= t[j].start + t[j].end
        <4>1. t[k].start < t[k].end /\ t[j].start < t[j].end
          BY <1>1
        <4>2. /\ t[k].start \in Int /\ t[k].end \in Int
              /\ t[j].start \in Int /\ t[j].end \in Int
          BY <1>1
        <4> QED
          BY <3>1, <4>1, <4>2
      <3> QED
        BY <1>1, <3>2, SectionsFollow
    <2> QED
      BY <2>1, <2>2
  <1>5. events = {k \in 1..N : At(k) = i}
    BY DEF EventsOf
  <1>6. cast = {c \in p.cast : \A k \in 1..N : At(k) < i => c \notin t[k].exits}
    <2>1. \A k \in 1..N : At(k) < i => k \in EventsOf(p, n, At(k)) /\ At(k) \in 0..(i - 1)
      BY <1>3 DEF EventsOf
    <2>2. \A s \in 0..(i - 1) : \A k \in EventsOf(p, n, s) : k \in 1..N /\ At(k) < i
      BY <1>3 DEF EventsOf
    <2> HIDE DEF At
    <2> QED
      BY <2>1, <2>2 DEF CastOf, ExitsOf, cast
  <1>7. stay = {c \in p.cast : \A k \in 1..N : At(k) <= i => c \notin t[k].exits}
    <2>1. stay = {c \in cast : \A k \in events : c \notin t[k].exits}
      BY DEF Stay, ExitsOf
    <2> HIDE DEF At, cast, events, stay
    <2> QED
      BY <1>3, <1>5, <1>6, <2>1
  <1>8. ASSUME NEW k \in events
        PROVE  Uttered(p, t[k]).speaker \in cast \cup {Nobody}
    <2>1. k \in 1..N /\ At(k) = i
      BY <1>5
    <2> SUFFICES ASSUME t[k].speaker # Nobody PROVE t[k].speaker \in cast
      BY DEF Uttered
    <2>2. t[k].speaker \in p.cast
      BY <2>1 DEF PlanIsSound
    <2>3. ASSUME NEW j \in 1..N, At(j) < i PROVE t[k].speaker \notin t[j].exits
      <3>1. j < k
        BY <1>4, <2>1, <2>3
      <3>2. t[j].end <= t[k].start
        BY <1>2, <2>1, <3>1
      <3>3. t[k].speaker \in t[j].exits => t[k].start < t[j].end
        BY <2>1, <3>1 DEF PlanIsSound, DepartsOnce
      <3>4. t[k].start \in Int /\ t[j].end \in Int
        BY <1>1, <2>1
      <3> QED
        BY <3>2, <3>3, <3>4
    <2> HIDE DEF At, cast
    <2> QED
      BY <1>6, <2>2, <2>3
  <1>9. ASSUME NEW k \in events, t[k].exits # {},
               \A m \in events : t[m].exits # {} => m <= k
        PROVE  Uttered(p, t[k]).remain = stay
    <2>1. k \in 1..N /\ At(k) = i
      BY <1>5
    <2>2. Uttered(p, t[k]).remain = PresentAt(p, t[k].end)
      BY <1>9 DEF Uttered, AfterExit
    <2>3. ASSUME NEW j \in 1..N, NEW c \in t[j].exits
          PROVE  \A m \in 1..(j - 1) : c \notin t[m].exits
      BY <2>3 DEF PlanIsSound, DepartsOnce
    <2>4. PresentAt(p, t[k].end) =
            {c \in p.cast : \A j \in 1..N : c \in t[j].exits => t[j].end > t[k].end}
      BY <2>3 DEF PresentAt
    <2>5. ASSUME NEW j \in 1..N, t[j].exits # {}
          PROVE  t[j].end > t[k].end <=> At(j) > i
      <3>1. ASSUME At(j) > i PROVE t[j].end > t[k].end
        <4>1. k < j
          BY <1>4, <2>1, <3>1
        <4>2. t[k].end <= t[j].start
          BY <1>2, <2>1, <4>1
        <4> QED
          BY <1>1, <2>1, <4>2
      <3>2. ASSUME t[j].end > t[k].end PROVE At(j) > i
        <4>1. j > k
          <5>1. CASE j < k
            <6>1. t[j].end <= t[k].start
              BY <1>2, <2>1, <5>1
            <6> QED
              BY <1>1, <2>1, <3>2, <6>1
          <5>2. CASE j = k
            BY <1>1, <2>1, <3>2, <5>2
          <5> QED
            BY <2>1, <5>1, <5>2
        <4>2. ~(At(j) < At(k))
          BY <1>4, <2>1, <4>1
        <4>3. At(j) # i
          <5>1. At(j) = i => j \in events
            BY <1>5
          <5> QED
            BY <1>9, <2>1, <2>5, <4>1, <5>1
        <4> HIDE DEF At
        <4> QED
          BY <1>3, <2>1, <4>2, <4>3
      <3> QED
        BY <3>1, <3>2
    <2>6. ASSUME NEW c
          PROVE  (\A j \in 1..N : c \in t[j].exits => t[j].end > t[k].end)
                   <=> (\A j \in 1..N : At(j) <= i => c \notin t[j].exits)
      <3>1. \A j \in 1..N : At(j) > i <=> ~(At(j) <= i)
        <4> HIDE DEF At
        <4> QED
          BY <1>3
      <3>2. \A j \in 1..N : c \in t[j].exits => (t[j].end > t[k].end <=> ~(At(j) <= i))
        BY <2>5, <3>1
      <3> HIDE DEF At, t
      <3> QED
        BY <3>2
    <2> HIDE DEF At, stay, t
    <2> QED
      BY <1>7, <2>2, <2>4, <2>6
  <1>10. /\ Caption(p, n, i).cast = cast
         /\ Caption(p, n, i).says = [k \in events |-> Uttered(p, t[k])]
         /\ Caption(p, n, i).stay = stay
    BY DEF Caption
  <1> HIDE DEF cast, events, stay
  <1> QED
    BY <1>8, <1>9, <1>10 DEF GoneFrom

\* Who has left stays gone, in every plan that is rendered.
LEMMA DirectorKeepsGone ==
    ASSUME DirectorInv
    PROVE  GoneAreGone
  <1> SUFFICES ASSUME director.at = "ready", InSequence(director.plan.timeline),
                      NEW n \in Captions, NEW i \in 0..(n - 1)
               PROVE  GoneFrom(director.plan, n, i)
    BY DEF GoneAreGone, GoneFrom
  <1>1. director.plan \in Usable
    BY DEF DirectorInv
  <1>2. PICK N \in Nat : director.plan.timeline \in [1..N -> TimelineEvent]
    BY <1>1, UsableIsSound
  <1>3. PlanIsSound(director.plan) /\ n \in Nat \ {0}
    BY <1>1, UsableIsSound, DirectorAssumption DEF DirectorAssumption
  <1> QED
    BY <1>2, <1>3, GoneStayGone

\* What was said first is not taken back.
Prefix(s, u) == Len(s) <= Len(u) /\ \A x \in 1..Len(s) : u[x] = s[x]

\* What is said up to each event, from the i-th on.
Says(t, i, k, w) ==
    /\ w \in [0..k -> Seq(Nat)] /\ w[0] = <<>>
    /\ \A m \in 1..k : w[m] = IF m < i THEN <<>> ELSE w[m - 1] \o t[m].line

LEMMA BetweenIs ==
    ASSUME NEW n \in Nat, NEW t \in [1..n -> TimelineEvent], NEW i \in 1..n, NEW k \in 1..n
    PROVE  \E w : Says(t, i, k, w) /\ Between(t, i, k) = w[k]
  <1> DEFINE Words(f) == f = [m \in 0..k |-> IF m < i THEN <<>> ELSE f[m - 1] \o t[m].line]
             words == CHOOSE f : Words(f)
  <1>1. Between(t, i, k) = words[k]
    BY DEF Between
  <1>2. \A m \in 1..k : t[m].line \in Seq(Nat)
    BY DEF TimelineEvent
  <1>3. PICK g : /\ g \in [0..k -> Seq(Nat)] /\ g[0] = <<>>
                 /\ \A m \in 1..k : g[m] = IF m < i THEN <<>> ELSE g[m - 1] \o t[m].line
    <2> DEFINE F == [p \in (1..k) \X Seq(Nat) |-> IF p[1] < i THEN <<>> ELSE p[2] \o t[p[1]].line]
    <2>1. Iterable(Seq(Nat), k, <<>>, F)
      BY <1>2, ConcatProperties, EmptySeq DEF Iterable
    <2>2. PICK g : Iterated(Seq(Nat), k, <<>>, F, g)
      <3> HIDE DEF F
      <3> QED
        BY <2>1, IterationExists
    <2>3. g \in [0..k -> Seq(Nat)] /\ g[0] = <<>> /\ \A m \in 1..k : g[m] = F[<<m, g[m - 1]>>]
      BY <2>2 DEF Iterated
    <2>4. ASSUME NEW m \in 1..k PROVE g[m] = IF m < i THEN <<>> ELSE g[m - 1] \o t[m].line
      <3>1. g[m - 1] \in Seq(Nat)
        BY <2>3
      <3> QED
        BY <2>3, <3>1
    <2> QED
      BY <2>3, <2>4
  <1>4. Words(g)
    <2>1. 0 < i /\ \A m \in 0..k : m = 0 \/ m \in 1..k
      OBVIOUS
    <2>2. \A m \in 0..k : g[m] = IF m < i THEN <<>> ELSE g[m - 1] \o t[m].line
      BY <1>3, <2>1
    <2> QED
      BY <1>3, <2>2
  <1>5. Words(words)
    <2>1. \E f : Words(f)
      BY <1>4
    <2> HIDE DEF Words
    <2> QED
      BY <2>1
  <1> HIDE DEF words
  <1>6. words[0] = <<>> /\ \A m \in 1..k : words[m] = IF m < i THEN <<>> ELSE words[m - 1] \o t[m].line
    <2>1. 0 < i /\ 0 \in 0..k /\ \A m \in 1..k : m \in 0..k
      OBVIOUS
    <2>2. \A m \in 0..k : words[m] = IF m < i THEN <<>> ELSE words[m - 1] \o t[m].line
      BY <1>5
    <2> QED
      BY <2>1, <2>2
  <1>7. 0..k \subseteq {m \in 0..k : words[m] = g[m]}
    <2> DEFINE T == {m \in 0..k : words[m] = g[m]}
    <2>1. 0 \in T
      BY <1>3, <1>6
    <2>2. ASSUME NEW m \in 1..k, m - 1 \in T PROVE m \in T
      BY <1>3, <1>6, <2>2
    <2> HIDE DEF T
    <2>3. 0..k \subseteq T
      BY <2>1, <2>2, UpTo
    <2> QED
      BY <2>3 DEF T
  <1>8. words[k] = g[k]
    BY <1>7
  <1> QED
    BY <1>1, <1>3, <1>8 DEF Says

\* Each line is a part of what is said.
LEMMA LinesAreRuns ==
    ASSUME NEW n \in Nat, NEW t \in [1..n -> TimelineEvent], NEW i \in 1..n, NEW k \in 1..n,
           NEW m \in i..k
    PROVE  HasRun(Between(t, i, k), t[m].line)
  <1>1. PICK w : Says(t, i, k, w) /\ Between(t, i, k) = w[k]
    BY BetweenIs
  <1>2. /\ w \in [0..k -> Seq(Nat)] /\ w[0] = <<>>
        /\ \A j \in 1..k : w[j] = IF j < i THEN <<>> ELSE w[j - 1] \o t[j].line
    BY <1>1 DEF Says
  <1>3. \A j \in 1..k : t[j].line \in Seq(Nat)
    BY DEF TimelineEvent
  <1>4. ASSUME NEW j \in i..k
        PROVE  /\ Prefix(w[j - 1], w[j]) /\ Len(w[j]) = Len(w[j - 1]) + Len(t[j].line)
               /\ \A x \in 1..Len(t[j].line) : w[j][Len(w[j - 1]) + x] = t[j].line[x]
    <2>1. PICK s \in Seq(Nat), l \in Seq(Nat) : s = w[j - 1] /\ l = t[j].line /\ w[j] = s \o l
      <3>1. j \in 1..k /\ ~(j < i) /\ j - 1 \in 0..k
        OBVIOUS
      <3>2. w[j - 1] \in Seq(Nat) /\ t[j].line \in Seq(Nat) /\ w[j] = w[j - 1] \o t[j].line
        BY <1>2, <1>3, <3>1
      <3> QED
        BY <3>2
    <2>2. /\ Len(s \o l) = Len(s) + Len(l) /\ Len(s) \in Nat /\ Len(l) \in Nat
          /\ \A x \in 1..(Len(s) + Len(l)) : (s \o l)[x] = IF x <= Len(s) THEN s[x] ELSE l[x - Len(s)]
      BY ConcatProperties
    <2>3. \A x \in 1..Len(l) : (s \o l)[Len(s) + x] = l[x]
      BY <2>2
    <2>4. Prefix(s, s \o l)
      BY <2>2 DEF Prefix
    <2> QED
      BY <2>1, <2>2, <2>3, <2>4
  <1>5. 0..(k - m) \subseteq {j \in 0..(k - m) : Prefix(w[m], w[m + j])}
    <2> DEFINE T == {j \in 0..(k - m) : Prefix(w[m], w[m + j])}
    <2>0. \A j \in 0..k : Len(w[j]) \in Nat
      BY <1>2
    <2>1. 0 \in T
      <3>1. Len(w[m]) \in Nat /\ w[m + 0] = w[m]
        BY <1>2
      <3> QED
        BY <3>1 DEF Prefix
    <2>2. ASSUME NEW j \in 1..(k - m), j - 1 \in T PROVE j \in T
      <3>1. PICK q \in i..k : q = m + j
        OBVIOUS
      <3>2. m + (j - 1) = q - 1
        BY <3>1
      <3>3. Prefix(w[m], w[q - 1]) /\ Prefix(w[q - 1], w[q])
        BY <1>4, <2>2, <3>1, <3>2
      <3>4. Len(w[m]) \in Nat /\ Len(w[q - 1]) \in Nat /\ Len(w[q]) \in Nat
        BY <2>0, <3>1
      <3>5. Prefix(w[m], w[q])
        BY <3>3, <3>4 DEF Prefix
      <3> QED
        BY <3>1, <3>5
    <2> HIDE DEF T
    <2>3. 0..(k - m) \subseteq T
      <3>1. k - m \in Nat
        OBVIOUS
      <3> QED
        BY <3>1, <2>1, <2>2, UpTo
    <2> QED
      BY <2>3 DEF T
  <1>6. Prefix(w[m], w[k])
    <2>1. k - m \in 0..(k - m) /\ m + (k - m) = k
      OBVIOUS
    <2> QED
      BY <1>5, <2>1
  <1>7. PICK said \in Seq(Nat), line \in Seq(Nat), o \in Nat :
            said = w[k] /\ line = t[m].line /\ o = Len(w[m - 1])
    <2>1. m \in 1..k /\ m - 1 \in 0..k /\ k \in 0..k
      OBVIOUS
    <2>2. w[k] \in Seq(Nat) /\ w[m - 1] \in Seq(Nat) /\ t[m].line \in Seq(Nat)
      BY <1>2, <1>3, <2>1
    <2>3. Len(w[m - 1]) \in Nat
      BY <2>2, LenProperties
    <2> QED
      BY <2>2, <2>3
  <1>8. /\ Len(said) \in Nat /\ Len(line) \in Nat /\ o + Len(line) <= Len(said)
        /\ \A x \in 1..Len(line) : said[o + x] = line[x]
    <2>1. Len(w[m]) = o + Len(line) /\ \A x \in 1..Len(line) : w[m][o + x] = line[x]
      BY <1>4, <1>7
    <2>2. Len(said) \in Nat /\ Len(line) \in Nat
      OBVIOUS
    <2>3. \A x \in 1..Len(line) : o + x \in 1..Len(w[m])
      BY <2>1, <2>2
    <2> QED
      BY <1>6, <1>7, <2>1, <2>2, <2>3 DEF Prefix
  <1>9. SubSeq(said, o + 1, o + Len(line)) = line
    <2>1. \A x \in (o + 1)..(o + Len(line)) : said[x] \in Nat
      BY <1>8
    <2>2. /\ SubSeq(said, o + 1, o + Len(line)) \in Seq(Nat)
          /\ Len(SubSeq(said, o + 1, o + Len(line))) = Len(line)
          /\ \A x \in 1..Len(line) : SubSeq(said, o + 1, o + Len(line))[x] = line[x]
      <3>1. o + 1 \in Int /\ o + Len(line) \in Int
        BY <1>8
      <3>2. /\ SubSeq(said, o + 1, o + Len(line)) \in Seq(Nat)
            /\ Len(SubSeq(said, o + 1, o + Len(line)))
                 = IF o + 1 <= o + Len(line) THEN o + Len(line) - (o + 1) + 1 ELSE 0
            /\ \A x \in 1..(o + Len(line) - (o + 1) + 1) :
                 SubSeq(said, o + 1, o + Len(line))[x] = said[o + 1 + x - 1]
        BY <2>1, <3>1, SubSeqProperties
      <3>3. \A x \in 1..Len(line) : o + 1 + x - 1 = o + x
        BY <1>8
      <3>4. o + Len(line) - (o + 1) + 1 = Len(line)
        BY <1>8
      <3>5. Len(SubSeq(said, o + 1, o + Len(line))) = Len(line)
        BY <1>8, <3>2, <3>4
      <3>6. \A x \in 1..Len(line) : SubSeq(said, o + 1, o + Len(line))[x] = line[x]
        BY <1>8, <3>2, <3>3, <3>4
      <3> QED
        BY <3>2, <3>5, <3>6
    <2> QED
      BY <2>2, SeqEqual
  <1>10. o \in 0..(Len(said) - Len(line))
    BY <1>8
  <1> QED
    BY <1>1, <1>7, <1>9, <1>10 DEF HasRun

\* The same lines say the same.
LEMMA SameLinesSayTheSame ==
    ASSUME NEW n \in Nat, NEW t \in [1..n -> TimelineEvent], NEW u \in [1..n -> TimelineEvent],
           NEW i \in 1..n, NEW k \in 1..n, \A m \in i..k : u[m].line = t[m].line
    PROVE  Between(u, i, k) = Between(t, i, k)
  <1>1. PICK w : Says(t, i, k, w) /\ Between(t, i, k) = w[k]
    BY BetweenIs
  <1>2. PICK v : Says(u, i, k, v) /\ Between(u, i, k) = v[k]
    BY BetweenIs
  <1> DEFINE T == {m \in 0..k : v[m] = w[m]}
  <1>3. 0 \in T
    BY <1>1, <1>2 DEF Says
  <1>4. ASSUME NEW m \in 1..k, m - 1 \in T PROVE m \in T
    <2>1. v[m] = IF m < i THEN <<>> ELSE v[m - 1] \o u[m].line
      BY <1>2 DEF Says
    <2>2. w[m] = IF m < i THEN <<>> ELSE w[m - 1] \o t[m].line
      BY <1>1 DEF Says
    <2>3. ~(m < i) => u[m].line = t[m].line
      OBVIOUS
    <2> QED
      BY <1>4, <2>1, <2>2, <2>3
  <1> HIDE DEF T
  <1>5. 0..k \subseteq T /\ k \in 0..k
    <2>1. k \in Nat
      OBVIOUS
    <2>2. 0..k \subseteq T
      BY <1>3, <1>4, <2>1, UpTo
    <2> QED
      BY <2>1, <2>2
  <1> QED
    BY <1>1, <1>2, <1>5 DEF T

\* A draft that says the user's words in lines of their own says them when it is trimmed.
LEMMA QuotesSurvive ==
    ASSUME NEW d \in Drafts, Quote \in Runs(d.timeline)
    PROVE  Quote \in Runs(Trimmed(d.timeline))
  <1>1. Quote \in Seq(Nat) /\ d.timeline \in Seq(TimelineEvent)
    BY DirectorAssumption DEF DirectorAssumption, PlanDraft
  <1>2. PICK n \in Nat : d.timeline \in [1..n -> TimelineEvent]
    BY <1>1
  <1> DEFINE t == d.timeline
             u == Trimmed(d.timeline)
  <1>3. PICK i \in 1..n, k \in 1..n : i <= k /\ OneVoice(t, i, k) /\ Quote = Between(t, i, k)
    BY <1>2 DEF Runs
  <1>4. u \in [1..n -> TimelineEvent] /\ OnlySilences(t, u)
    BY <1>2, TrimOnlySilences
  <1> HIDE DEF t, u
  <1>5. t \in [1..n -> TimelineEvent]
    BY <1>2 DEF t
  <1>6. ASSUME NEW m \in i..k PROVE u[m].line = t[m].line /\ u[m].speaker = t[m].speaker
    <2>1. Protected(t[m].line)
      BY <1>3, <1>5, LinesAreRuns DEF Protected
    <2>2. m \in 1..n
      OBVIOUS
    <2> QED
      BY <1>4, <1>5, <2>1, <2>2 DEF OnlySilences
  <1>7. Between(u, i, k) = Quote
    BY <1>3, <1>4, <1>5, <1>6, SameLinesSayTheSame
  <1>8. OneVoice(u, i, k)
    BY <1>3, <1>6 DEF OneVoice, Speaks
  <1>9. Quote \in Runs(u)
    <2>1. DOMAIN u = 1..n
      BY <1>4
    <2>2. <<i, k>> \in {r \in (1..n) \X (1..n) : r[1] <= r[2] /\ OneVoice(u, r[1], r[2])}
      BY <1>3, <1>8
    <2> QED
      BY <1>7, <2>1, <2>2 DEF Runs
  <1> QED
    BY <1>9 DEF u

(***************************************************************************)
(* Songs.                                                                  *)
(***************************************************************************)
\* Sequences of sequences flatten to a sequence of what they hold.
LEMMA FlattenType ==
    ASSUME NEW S, NEW n \in Nat \ {0}, NEW seqs \in [1..n -> Seq(S)]
    PROVE  FlattenSeq(seqs) \in Seq(S)
  <1> DEFINE Flattens(s) == s = [i \in 1..n |-> IF i = 1 THEN seqs[i] ELSE s[i - 1] \o seqs[i]]
             flatten == CHOOSE s : Flattens(s)
  <1>1. seqs \in Seq(Seq(S)) /\ Len(seqs) = n
    OBVIOUS
  <1>2. FlattenSeq(seqs) = flatten[n]
    BY <1>1 DEF FlattenSeq
  <1>3. \E s : Flattens(s)
    <2> DEFINE F == [p \in (1..n) \X Seq(S) |-> p[2] \o seqs[p[1]]]
    <2>1. Iterable(Seq(S), n, <<>>, F)
      BY ConcatProperties DEF Iterable
    <2>2. PICK g : Iterated(Seq(S), n, <<>>, F, g)
      <3> HIDE DEF F
      <3> QED
        BY <2>1, IterationExists
    <2>3. g \in [0..n -> Seq(S)] /\ g[0] = <<>> /\ \A k \in 1..n : g[k] = F[<<k, g[k - 1]>>]
      BY <2>2 DEF Iterated
    <2>4. ASSUME NEW k \in 1..n PROVE g[k] = g[k - 1] \o seqs[k]
      <3>1. g[k - 1] \in Seq(S)
        BY <2>3
      <3> QED
        BY <2>3, <3>1
    <2> HIDE DEF F
    <2> DEFINE s == [k \in 1..n |-> g[k]]
    <2>5. ASSUME NEW k \in 1..n PROVE s[k] = IF k = 1 THEN seqs[k] ELSE s[k - 1] \o seqs[k]
      <3>1. CASE k = 1
        <4>1. 1 \in 1..n /\ 1 - 1 = 0 /\ seqs[1] \in Seq(S)
          OBVIOUS
        <4>2. g[1] = <<>> \o seqs[1]
          BY <2>3, <2>4, <4>1
        <4> QED
          BY <3>1, <4>1, <4>2, ConcatEmptySeq
      <3>2. CASE k # 1
        <4>1. k - 1 \in 1..n
          BY <3>2
        <4> QED
          BY <2>4, <3>2, <4>1
      <3> QED
        BY <3>1, <3>2
    <2>6. Flattens(s)
      BY <2>5
    <2> QED
      BY <2>6
  <1>4. Flattens(flatten)
    <2> HIDE DEF Flattens
    <2> QED
      BY <1>3
  <1>5. \A i \in 1..n : flatten[i] = IF i = 1 THEN seqs[i] ELSE flatten[i - 1] \o seqs[i]
    <2> HIDE DEF flatten
    <2> QED
      BY <1>4
  <1> HIDE DEF flatten
  <1> DEFINE T == {i \in 0..n : i # 0 => flatten[i] \in Seq(S)}
  <1>6. ASSUME NEW k \in 1..n, k - 1 \in T PROVE k \in T
    <2>1. CASE k = 1
      BY <1>5, <2>1
    <2>2. CASE k # 1
      <3>1. flatten[k - 1] \in Seq(S) /\ seqs[k] \in Seq(S)
        BY <1>6, <2>2
      <3>2. flatten[k - 1] \o seqs[k] \in Seq(S)
        BY <3>1, ConcatProperties
      <3>3. flatten[k] = flatten[k - 1] \o seqs[k]
        BY <1>5, <2>2
      <3>4. flatten[k] \in Seq(S)
        BY Zenon, <3>2, <3>3
      <3>5. k \in 0..n
        OBVIOUS
      <3> QED
        BY Zenon, <3>4, <3>5
    <2> QED
      BY <2>1, <2>2
  <1>7. 0..n \subseteq T
    <2>1. 0 \in T
      OBVIOUS
    <2> HIDE DEF T
    <2> QED
      BY <1>6, <2>1, UpTo
  <1> QED
    BY <1>2, <1>7

SongKind == {"intro", "verse", "pre-chorus", "chorus", "bridge", "hook", "build", "drop",
             "breakdown", "solo", "outro"}

\* A part of a song is a positive number of seconds, so are several.
LEMMA KindsTakeTime ==
    ASSUME NEW kinds \in Seq(SongKind), NEW f, f = [i \in DOMAIN kinds |-> KindSeconds(kinds[i])]
    PROVE  SumTo(Len(kinds), f) \in Nat /\ SumTo(Len(kinds), f) >= Len(kinds)
  <1>1. PICK n \in Nat : n = Len(kinds) /\ DOMAIN kinds = 1..n
    OBVIOUS
  <1>2. \A i \in 1..n : f[i] \in Nat \ {0}
    BY <1>1 DEF KindSeconds
  <1> QED
    BY <1>1, <1>2, SumOfPositive

\* The shape of a genre that is sung ends on a part with words.
LEMMA SungShapes ==
    ASSUME NEW genre, genre \notin Wordless
    PROVE  /\ Structure(genre).cycle \in Seq(SongKind) /\ Len(Structure(genre).cycle) >= 1
           /\ Structure(genre).late \in Seq(SongKind)
           /\ Structure(genre).close \in Seq(SongKind) /\ Len(Structure(genre).close) = 2
           /\ CarriesWords(Structure(genre).close[1])
  <1> DEFINE shape == Structure(genre)
  <1>1. \/ shape = [cycle |-> <<"build", "drop", "breakdown">>, late |-> <<>>, close |-> <<"drop", "outro">>]
        \/ shape = [cycle |-> <<"verse", "hook">>, late |-> <<>>, close |-> <<"hook", "outro">>]
        \/ shape = [cycle |-> <<"verse", "chorus">>, late |-> <<>>, close |-> <<"verse", "outro">>]
        \/ shape = [cycle |-> <<"verse", "chorus">>, late |-> <<"solo">>, close |-> <<"chorus", "outro">>]
        \/ shape = [cycle |-> <<"verse", "chorus">>, late |-> <<"bridge">>, close |-> <<"chorus", "outro">>]
        \/ shape = [cycle |-> <<"verse", "pre-chorus", "chorus">>, late |-> <<"bridge">>,
                    close |-> <<"chorus", "outro">>]
    BY DEF Structure
  <1> HIDE DEF shape
  <1>2. shape.cycle \in Seq(SongKind) /\ Len(shape.cycle) >= 1
    <2>1. \/ shape.cycle = <<"build", "drop", "breakdown">> \/ shape.cycle = <<"verse", "hook">>
          \/ shape.cycle = <<"verse", "chorus">> \/ shape.cycle = <<"verse", "pre-chorus", "chorus">>
      BY <1>1
    <2>2. CASE shape.cycle = <<"build", "drop", "breakdown">>
      BY <2>2 DEF SongKind
    <2>3. CASE shape.cycle = <<"verse", "hook">>
      BY <2>3 DEF SongKind
    <2>4. CASE shape.cycle = <<"verse", "chorus">>
      BY <2>4 DEF SongKind
    <2>5. CASE shape.cycle = <<"verse", "pre-chorus", "chorus">>
      BY <2>5 DEF SongKind
    <2> QED
      BY <2>1, <2>2, <2>3, <2>4, <2>5
  <1>3. shape.late \in Seq(SongKind)
    <2>1. shape.late = <<>> \/ shape.late = <<"solo">> \/ shape.late = <<"bridge">>
      BY <1>1
    <2>2. CASE shape.late = <<>>
      BY <2>2, EmptySeq
    <2>3. CASE shape.late = <<"solo">>
      BY <2>3 DEF SongKind
    <2>4. CASE shape.late = <<"bridge">>
      BY <2>4 DEF SongKind
    <2> QED
      BY <2>1, <2>2, <2>3, <2>4
  <1>4. shape.close \in Seq(SongKind) /\ Len(shape.close) = 2
    <2>1. PICK k \in {"drop", "hook", "verse", "chorus"} : shape.close = <<k, "outro">>
      BY <1>1
    <2> QED
      BY <2>1 DEF SongKind
  <1>5. shape.close[1] \in {"drop", "hook", "verse", "chorus"}
    BY <1>1
  <1>6. CarriesWords(shape.close[1])
    BY <1>5 DEF CarriesWords, Chorus
  <1> QED
    BY <1>2, <1>3, <1>4, <1>6 DEF shape

\* A song that is not wordless has something to sing in its plan.
LEMMA SongHasWords ==
    ASSUME NEW job \in SongRequest, ~IsWordless(job)
    PROVE  \E k \in ToSet(SongKinds(job)) : CarriesWords(k)
  <1> DEFINE genre == IF ~IsWordless(job) /\ job.genre \in Wordless THEN "pop" ELSE job.genre
             shape == Structure(genre)
             Length(kinds) == SumTo(Len(kinds), [i \in DOMAIN kinds |-> KindSeconds(kinds[i])])
             fixed  == KindSeconds("intro") + Length(shape.close)
             cycles == AtLeast(1, Rounded(job.seconds - fixed, Length(shape.cycle)))
             all    == [i \in 1..cycles |-> shape.cycle]
             late   == IF cycles >= 2 /\ job.seconds >= 120 THEN shape.late ELSE <<>>
             head   == (<<"intro">> \o FlattenSeq(all)) \o late
  <1>1. genre \notin Wordless
    BY DEF Wordless
  <1> HIDE DEF genre
  <1>2. /\ shape.cycle \in Seq(SongKind) /\ Len(shape.cycle) >= 1 /\ shape.late \in Seq(SongKind)
        /\ shape.close \in Seq(SongKind) /\ Len(shape.close) = 2 /\ CarriesWords(shape.close[1])
    BY <1>1, SungShapes
  <1> HIDE DEF shape
  <1>3. Length(shape.close) \in Nat /\ Length(shape.cycle) \in Nat \ {0}
    <2>1. Length(shape.close) \in Nat /\ Length(shape.cycle) \in Nat
          /\ Length(shape.cycle) >= Len(shape.cycle)
      BY <1>2, KindsTakeTime
    <2> HIDE DEF Length
    <2> QED
      BY <1>2, <2>1
  <1>4. fixed \in Int /\ job.seconds \in Int
    <2>1. KindSeconds("intro") \in Int
      BY DEF KindSeconds
    <2>2. job.seconds \in Int
      BY DEF SongRequest
    <2> HIDE DEF Length
    <2> QED
      BY <1>3, <2>1, <2>2
  <1>5. cycles \in Nat \ {0}
    <2> HIDE DEF Length, fixed
    <2>1. Rounded(job.seconds - fixed, Length(shape.cycle)) \in Int
      BY <1>3, <1>4, RoundedType
    <2> QED
      BY <2>1 DEF AtLeast
  <1>6. SongKinds(job) = head \o shape.close
    BY DEF SongKinds, shape, genre
  <1> HIDE DEF cycles
  <1>7. FlattenSeq(all) \in Seq(SongKind)
    <2>1. all \in [1..cycles -> Seq(SongKind)]
      BY <1>2
    <2> HIDE DEF all
    <2> QED
      BY <1>5, <2>1, FlattenType
  <1>8. late \in Seq(SongKind)
    BY <1>2, EmptySeq
  <1> HIDE DEF all, late
  <1>9. head \in Seq(SongKind)
    <2>1. <<"intro">> \in Seq(SongKind)
      BY DEF SongKind
    <2>2. <<"intro">> \o FlattenSeq(all) \in Seq(SongKind)
      BY <1>7, <2>1, ConcatProperties
    <2> QED
      BY <1>8, <2>2, ConcatProperties
  <1> HIDE DEF head
  <1>10. PICK n \in Nat : n = Len(head)
    BY <1>9
  <1>11. /\ head \o shape.close \in Seq(SongKind) /\ Len(head \o shape.close) = n + 2
         /\ (head \o shape.close)[n + 1] = shape.close[1]
    <2>1. PICK h \in Seq(SongKind), c \in Seq(SongKind) : h = head /\ c = shape.close
      BY <1>2, <1>9
    <2>2. Len(h) = n /\ Len(c) = 2
      BY <1>2, <1>10, <2>1
    <2>3. /\ h \o c \in Seq(SongKind) /\ Len(h \o c) = Len(h) + Len(c)
          /\ (h \o c)[n + 1] = IF n + 1 <= Len(h) THEN h[n + 1] ELSE c[n + 1 - Len(h)]
      <3>1. n + 1 \in 1..(Len(h) + Len(c))
        BY <2>2
      <3> QED
        BY <3>1, ConcatProperties
    <2>4. n + 1 - Len(h) = 1 /\ ~(n + 1 <= Len(h)) /\ Len(h) + Len(c) = n + 2
      BY <2>2
    <2> QED
      BY <2>1, <2>3, <2>4
  <1>12. n + 1 \in DOMAIN SongKinds(job) /\ SongKinds(job)[n + 1] = shape.close[1]
    BY <1>6, <1>10, <1>11
  <1> QED
    BY <1>2, <1>12 DEF ToSet

\* A song is sung where the user asked for words, or its genre has them.
LEMMA WordsAreWanted ==
    ASSUME NEW job \in MusicJobs, job \notin SungJobs
    PROVE  job.vocals # "asked" /\ (job.vocals = "refused" \/ job.genre \in Wordless)
  <1>1. job \in SongRequest
    BY MusicAssumption DEF MusicAssumption
  <1>2. CASE IsWordless(job)
    BY <1>2 DEF IsWordless
  <1>3. CASE ~IsWordless(job)
    <2>1. PICK k \in ToSet(SongKinds(job)) : CarriesWords(k)
      BY <1>1, <1>3, SongHasWords
    <2>2. Wanted[job] # {}
      BY <2>1 DEF Wanted
    <2> QED
      BY <1>3, <2>2 DEF SungJobs, HasLyrics
  <1> QED
    BY <1>2, <1>3

\* The takes are counted in nine rounds, from the whole song without crossfades.
LEMMA TakesAreCounted ==
    ASSUME NEW job \in MusicJobs
    PROVE  \E count \in [0..8 -> Nat \ {0}] :
              /\ count[0] = CeilDiv(Total(job), Longest(job))
              /\ \A k \in 1..8 : count[k] = CeilDiv(Padded(job, count[k - 1]), Longest(job))
              /\ TakesOf[job] = IF Total(job) <= Longest(job) THEN 1 ELSE count[8]
  <1> DEFINE longest == Longest(job)
             total == Total(job)
             After(k, c) == AtLeast(1, CeilDiv(Padded(job, c), longest))
             Counts(f) == f = [k \in 0..8 |-> IF k = 0 THEN CeilDiv(total, longest)
                                              ELSE After(k, f[k - 1])]
             count == CHOOSE f : Counts(f)
  <1>1. /\ job.seconds \in Nat \ {0} /\ job.ceiling \in Nat /\ job.longest \in Nat
        /\ job.fade \in Nat
    BY MusicAssumption DEF MusicAssumption, SongRequest
  <1>2. longest \in Nat \ {0} /\ total \in Nat \ {0}
    BY <1>1 DEF Longest, Total, AtLeast
  <1>3. TakesOf[job] = IF total <= longest THEN 1 ELSE count[8]
    BY DEF TakesOf, TakeCount
  <1>4. total = Total(job) /\ longest = Longest(job)
    OBVIOUS
  <1> HIDE DEF longest, total
  <1>5. ASSUME NEW k, NEW c \in Nat \ {0}
        PROVE  After(k, c) \in Nat \ {0} /\ After(k, c) = CeilDiv(Padded(job, c), longest)
    <2>1. (c - 1) * job.fade \in Nat
      BY <1>1
    <2>2. Padded(job, c) \in Nat \ {0}
      BY <1>1, <1>2, <1>4, <2>1 DEF Padded
    <2>3. CeilDiv(Padded(job, c), longest) \in Nat \ {0}
      BY <1>2, <2>2, CeilDivIs
    <2> QED
      BY <2>3 DEF AtLeast
  <1>6. CeilDiv(total, longest) \in Nat \ {0}
    BY <1>2, CeilDivIs
  <1> HIDE DEF After
  <1>7. \E g \in [0..8 -> Nat \ {0}] : Counts(g)
    <2> DEFINE F == [p \in (1..8) \X (Nat \ {0}) |-> After(p[1], p[2])]
               first == CeilDiv(total, longest)
    <2>1. Iterable(Nat \ {0}, 8, first, F)
      BY <1>5, <1>6 DEF Iterable
    <2>2. PICK g : Iterated(Nat \ {0}, 8, first, F, g)
      <3> HIDE DEF F, first
      <3> QED
        BY <2>1, IterationExists
    <2>3. /\ g \in [0..8 -> Nat \ {0}] /\ g[0] = first
          /\ \A k \in 1..8 : g[k] = F[<<k, g[k - 1]>>]
      BY <2>2 DEF Iterated
    <2>4. ASSUME NEW k \in 1..8 PROVE g[k] = After(k, g[k - 1])
      <3>1. g[k - 1] \in Nat \ {0}
        BY <2>3
      <3> QED
        BY <2>3, <3>1
    <2> HIDE DEF F
    <2>5. Counts(g)
      BY <2>3, <2>4
    <2> QED
      BY <2>3, <2>5
  <1>8. Counts(count)
    <2>1. \E f : Counts(f)
      BY <1>7
    <2> HIDE DEF Counts
    <2> QED
      BY <2>1
  <1> HIDE DEF count
  <1>9. count[0] = CeilDiv(total, longest) /\ \A k \in 1..8 : count[k] = After(k, count[k - 1])
    BY <1>8
  <1>10. 0..8 \subseteq {k \in 0..8 : count[k] \in Nat \ {0}}
    <2> DEFINE T == {k \in 0..8 : count[k] \in Nat \ {0}}
    <2>1. 0 \in T
      BY <1>6, <1>9
    <2>2. ASSUME NEW k \in 1..8, k - 1 \in T PROVE k \in T
      BY <1>5, <1>9, <2>2
    <2> HIDE DEF T
    <2>3. 0..8 \subseteq T
      BY <2>1, <2>2, UpTo
    <2> QED
      BY <2>3 DEF T
  <1>11. count \in [0..8 -> Nat \ {0}]
    BY <1>8, <1>10
  <1>12. \A k \in 1..8 : count[k] = CeilDiv(Padded(job, count[k - 1]), longest)
    BY <1>5, <1>9, <1>10
  <1> QED
    BY <1>3, <1>4, <1>9, <1>11, <1>12

\* A song is at least one take.
LEMMA TakesArePositive ==
    ASSUME NEW job \in MusicJobs
    PROVE  TakesOf[job] \in Nat \ {0}
  BY TakesAreCounted

\* Takes of b that overlap by f in a song of t: x is the least number of them
\* that is long enough.
Settled(t, f, b, x) ==
    /\ t + (x - 1) * f <= x * b
    /\ (x - 1) * b < t + (x - 2) * f

\* Where a crossfade is at most half a take, there is such a number.
LEMMA FewestTakes ==
    ASSUME NEW t \in Nat, NEW f \in Nat, NEW b \in Nat \ {0}, 2 * f <= b, b < t
    PROVE  \E x \in Nat \ {0} : Settled(t, f, b, x)
  <1>1. t - f \in Nat \ {0} /\ b - f \in Nat \ {0}
    OBVIOUS
  <1>2. PICK x \in Nat \ {0} : t - f <= x * (b - f) /\ (x - 1) * (b - f) < t - f
    BY <1>1, CeilDivIs
  <1>3. /\ x * (b - f) = x * b - x * f /\ (x - 1) * (b - f) = (x - 1) * b - (x - 1) * f
        /\ (x - 1) * f = x * f - f /\ (x - 2) * f = x * f - 2 * f
        /\ (x - 1) * f = (x - 2) * f + f
        /\ x * f \in Int /\ x * b \in Int /\ (x - 1) * b \in Int
    BY <1>2
  <1>4. t + (x - 1) * f <= x * b
    BY <1>2, <1>3
  <1>5. (x - 1) * b < t + (x - 2) * f
    BY <1>2, <1>3
  <1> QED
    BY <1>4, <1>5 DEF Settled

\* A count that is short of it is brought at least half the way there by counting anew.
LEMMA GapHalves ==
    ASSUME NEW t \in Nat, NEW f \in Nat, NEW b \in Nat \ {0}, 2 * f <= b, b < t,
           NEW x \in Nat \ {0}, Settled(t, f, b, x),
           NEW c \in Nat \ {0}, c <= x,
           NEW d \in Nat \ {0}, t + (c - 1) * f <= d * b, (d - 1) * b < t + (c - 1) * f
    PROVE  d <= x /\ 2 * (x - d) <= x - c
  <1>1. d <= x
    <2>1. (c - 1) * f <= (x - 1) * f
      BY ProductsGrow
    <2>2. ASSUME d >= x + 1 PROVE FALSE
      <3>1. x * b <= (d - 1) * b
        BY <2>2, ProductsGrow
      <3>2. /\ x * b \in Int /\ (d - 1) * b \in Int
            /\ (c - 1) * f \in Int /\ (x - 1) * f \in Int
        OBVIOUS
      <3> QED
        BY <2>1, <3>1, <3>2 DEF Settled
    <2> QED
      BY <2>2
  <1> DEFINE g == x - c
             h == x - d
  <1>2. g \in Nat /\ h \in Nat
    BY <1>1
  <1>3. h * b < b + (g - 1) * f
    <2>1. /\ (x - 1) * b = d * b + h * b - b
          /\ (x - 2) * f = (c - 1) * f + (g - 1) * f
      OBVIOUS
    <2>2. /\ d * b \in Int /\ h * b \in Int /\ (x - 1) * b \in Int
          /\ (x - 2) * f \in Int /\ (c - 1) * f \in Int /\ (g - 1) * f \in Int
      OBVIOUS
    <2> HIDE DEF g, h
    <2> QED
      BY <2>1, <2>2 DEF Settled
  <1> HIDE DEF g, h
  <1>4. ASSUME 2 * h > g PROVE FALSE
    <2>1. CASE g = 0
      <3>1. h * b >= 1 * b
        BY <1>2, <1>4, <2>1, ProductsGrow
      <3>2. (g - 1) * f = 0 - f
        BY <2>1
      <3>3. h * b \in Int
        BY <1>2
      <3> QED
        BY <1>3, <3>1, <3>2, <3>3
    <2>2. CASE g >= 1
      <3>1. (g + 1) * b <= (2 * h) * b
        BY <1>2, <1>4, ProductsGrow
      <3>2. (2 * f) * (g - 1) <= b * (g - 1)
        BY <1>2, <2>2, ProductsGrow
      <3>3. /\ (g + 1) * b = g * b + b /\ (2 * h) * b = 2 * (h * b)
            /\ (2 * f) * (g - 1) = 2 * ((g - 1) * f) /\ b * (g - 1) = g * b - b
            /\ g * b \in Int /\ h * b \in Int /\ (g - 1) * f \in Int
        BY <1>2
      <3> QED
        BY <1>3, <3>1, <3>2, <3>3
    <2> QED
      BY <1>2, <2>1, <2>2
  <1> QED
    BY <1>1, <1>2, <1>4 DEF g, h

\* The rounds are enough where a crossfade is no more than half a take.
LEMMA TakesSettle ==
    ASSUME NEW job \in MusicJobs, Joinable(job)
    PROVE  /\ Padded(job, TakesOf[job]) <= TakesOf[job] * Longest(job)
           /\ TakesOf[job] > 1 =>
                Padded(job, TakesOf[job] - 1) > (TakesOf[job] - 1) * Longest(job)
  <1>1. PICK t \in Nat \ {0}, f \in Nat, b \in Nat \ {0} :
            /\ t = Total(job) /\ f = job.fade /\ b = Longest(job)
            /\ 2 * f <= b /\ t <= 255 * b
    <2>1. /\ job.seconds \in Nat \ {0} /\ job.ceiling \in Nat /\ job.longest \in Nat
          /\ job.fade \in Nat
      BY MusicAssumption DEF MusicAssumption, SongRequest
    <2>2. Total(job) \in Nat \ {0} /\ Longest(job) \in Nat \ {0}
      BY <2>1 DEF Longest, Total, AtLeast
    <2> QED
      BY <2>1, <2>2 DEF Joinable
  <1>2. \A n \in Int : Padded(job, n) = t + (n - 1) * f
    BY <1>1 DEF Padded
  <1>3. PICK count \in [0..8 -> Nat \ {0}] :
            /\ count[0] = CeilDiv(t, b)
            /\ \A k \in 1..8 : count[k] = CeilDiv(t + (count[k - 1] - 1) * f, b)
            /\ TakesOf[job] = IF t <= b THEN 1 ELSE count[8]
    <2>1. PICK count \in [0..8 -> Nat \ {0}] :
              /\ count[0] = CeilDiv(t, b)
              /\ \A k \in 1..8 : count[k] = CeilDiv(Padded(job, count[k - 1]), b)
              /\ TakesOf[job] = IF t <= b THEN 1 ELSE count[8]
      BY <1>1, TakesAreCounted
    <2>2. \A k \in 1..8 : count[k - 1] \in Int
      OBVIOUS
    <2> QED
      BY <1>2, <2>1, <2>2
  <1>4. CASE t <= b
    <2>1. Padded(job, 1) = t + 0 * f
      BY <1>2
    <2> QED
      BY <1>1, <1>3, <1>4, <2>1
  <1>5. CASE b < t
    <2>1. PICK x \in Nat \ {0} : Settled(t, f, b, x)
      BY <1>1, <1>5, FewestTakes
    <2>2. count[0] <= x /\ x - count[0] <= 255
      <3>1. t <= count[0] * b /\ (count[0] - 1) * b < t /\ count[0] \in Nat \ {0}
        BY <1>3, CeilDivIs
      <3>2. /\ (x - 1) * b \in Int /\ (x - 2) * f \in Int /\ (x - 1) * f \in Int /\ x * b \in Int
            /\ (x - 1) * b = x * b - b /\ (x - 2) * f = (x - 1) * f - f
            /\ 2 * ((x - 1) * f) = (x - 1) * (2 * f)
        OBVIOUS
      <3>3. ASSUME count[0] >= x + 1 PROVE FALSE
        <4>1. x * b <= (count[0] - 1) * b
          BY <3>1, <3>3, ProductsGrow
        <4>2. 0 <= (x - 1) * f
          OBVIOUS
        <4>3. (count[0] - 1) * b \in Int
          BY <3>1
        <4> QED
          BY <2>1, <3>1, <3>2, <4>1, <4>2, <4>3 DEF Settled
      <3>4. (x - 1) * (2 * f) <= (x - 1) * b
        BY <1>1, ProductsGrow
      <3>5. x * b < 2 * t + b
        BY <1>1, <2>1, <3>2, <3>4 DEF Settled
      <3>6. ASSUME x - count[0] >= 256 PROVE FALSE
        <4>1. 256 * b <= (x - count[0]) * b
          BY <3>1, <3>6, ProductsGrow
        <4>2. (x - count[0]) * b = x * b - count[0] * b /\ count[0] * b \in Int
          BY <3>1
        <4> QED
          BY <1>1, <3>1, <3>2, <3>5, <4>1, <4>2
      <3> QED
        BY <3>1, <3>3, <3>6
    <2>3. ASSUME NEW k \in 1..8, count[k - 1] <= x
          PROVE  count[k] <= x /\ 2 * (x - count[k]) <= x - count[k - 1]
      <3>1. PICK c \in Nat \ {0}, d \in Nat \ {0} : c = count[k - 1] /\ d = count[k]
        OBVIOUS
      <3>2. (c - 1) * f \in Nat
        OBVIOUS
      <3>3. t + (c - 1) * f \in Nat \ {0} /\ d = CeilDiv(t + (c - 1) * f, b)
        BY <1>3, <3>1, <3>2
      <3>4. t + (c - 1) * f <= d * b /\ (d - 1) * b < t + (c - 1) * f
        BY <3>3, CeilDivIs
      <3> QED
        BY <1>1, <1>5, <2>1, <2>3, <3>1, <3>4, GapHalves
    <2>4. count[8] = x
      <3> DEFINE c(k) == count[k]
      <3>1. \A k \in 0..8 : c(k) \in Nat
        OBVIOUS
      <3>2. \A k \in 1..8 : c(k - 1) <= x => c(k) <= x /\ 2 * (x - c(k)) <= x - c(k - 1)
        BY <2>3
      <3>3. c(0) <= x /\ x - c(0) <= 255
        BY <2>2
      <3> HIDE DEF c
      <3>4. c(1) <= x /\ x - c(1) <= 127
        BY <3>1, <3>2, <3>3
      <3>5. c(2) <= x /\ x - c(2) <= 63
        BY <3>1, <3>2, <3>4
      <3>6. c(3) <= x /\ x - c(3) <= 31
        BY <3>1, <3>2, <3>5
      <3>7. c(4) <= x /\ x - c(4) <= 15
        BY <3>1, <3>2, <3>6
      <3>8. c(5) <= x /\ x - c(5) <= 7
        BY <3>1, <3>2, <3>7
      <3>9. c(6) <= x /\ x - c(6) <= 3
        BY <3>1, <3>2, <3>8
      <3>10. c(7) <= x /\ x - c(7) <= 1
        BY <3>1, <3>2, <3>9
      <3>11. c(8) <= x /\ x - c(8) <= 0
        BY <3>1, <3>2, <3>10
      <3>12. c(8) = x
        BY <3>1, <3>11
      <3> QED
        BY <3>12 DEF c
    <2>5. TakesOf[job] = x
      BY <1>3, <1>5, <2>4
    <2>6. Padded(job, x) = t + (x - 1) * f /\ Padded(job, x - 1) = t + (x - 2) * f
      BY <1>2
    <2> QED
      BY <1>1, <2>1, <2>5, <2>6 DEF Settled
  <1> QED
    BY <1>1, <1>4, <1>5

\* What the crossfades eat was added to the takes, so the song has its length.
LEMMA JoinedIsWhole ==
    ASSUME NEW job \in MusicJobs, Joinable(job), NEW n, n = TakesOf[job]
    PROVE  Within(Drift(Joined(job, n, Padded(job, n)), Total(job)), Total(job), 200)
  <1>1. PICK t \in Nat \ {0}, f \in Nat, b \in Nat \ {0} :
            /\ t = Total(job) /\ f = job.fade /\ b = Longest(job) /\ b >= 500
    <2>1. /\ job.seconds \in Nat \ {0} /\ job.ceiling \in Nat /\ job.longest \in Nat
          /\ job.fade \in Nat
      BY MusicAssumption DEF MusicAssumption, SongRequest
    <2>2. Total(job) \in Nat \ {0} /\ Longest(job) \in Nat \ {0} /\ Longest(job) >= 500
      BY <2>1 DEF Longest, Total, AtLeast
    <2> QED
      BY <2>1, <2>2
  <1>2. n \in Nat \ {0}
    BY TakesArePositive
  <1>3. n > 1 => t + (n - 2) * f > (n - 1) * b
    BY <1>1, <1>2, TakesSettle DEF Padded
  <1>4. PICK eaten \in Nat : eaten = AtLeast(5, f) /\ (f >= 5 => eaten = f) /\ (f < 5 => eaten = 5)
    BY DEF AtLeast
  <1>5. Joined(job, n, Padded(job, n)) = t + (n - 1) * f - (n - 1) * eaten
    <2>1. Padded(job, n) = t + (n - 1) * f
      BY <1>1 DEF Padded
    <2>2. eaten = AtLeast(5, job.fade)
      BY <1>1, <1>4
    <2>3. ASSUME NEW w PROVE Joined(job, n, w) = w - (n - 1) * AtLeast(5, job.fade)
      BY DEF Joined
    <2>4. Joined(job, n, Padded(job, n)) = Padded(job, n) - (n - 1) * eaten
      BY <2>2, <2>3
    <2> QED
      BY <1>2, <2>1, <2>4
  <1>6. /\ (n - 1) * f \in Nat /\ (n - 1) * eaten \in Nat
        /\ (n - 1) * f <= (n - 1) * eaten
        /\ 100 * ((n - 1) * eaten - (n - 1) * f) <= 3 * t
    <2>1. /\ (n - 1) * f \in Nat /\ (n - 1) * eaten \in Nat
      BY <1>2
    <2>2. f * (n - 1) <= eaten * (n - 1)
      BY <1>2, <1>4, ProductsGrow
    <2>3. CASE f >= 5 \/ n = 1
      <3>1. (n - 1) * f = (n - 1) * eaten
        BY <1>4, <2>3
      <3> QED
        BY <2>1, <3>1
    <2>4. CASE f < 5 /\ n > 1
      <3>1. /\ (n - 1) * f <= (n - 1) * 4 /\ 500 * (n - 1) <= b * (n - 1)
            /\ (n - 2) * f = (n - 1) * f - f
        BY <1>1, <1>2, <2>4
      <3>2. (n - 1) * eaten = (n - 1) * 5 /\ b * (n - 1) = (n - 1) * b /\ (n - 1) * b \in Int
        BY <1>2, <1>4, <2>4
      <3>3. 496 * (n - 1) < t
        BY <1>2, <1>3, <2>1, <2>4, <3>1, <3>2
      <3> QED
        BY <1>2, <2>1, <2>2, <2>4, <3>2, <3>3
    <2> QED
      BY <1>2, <2>1, <2>2, <2>3, <2>4
  <1>7. Drift(Joined(job, n, Padded(job, n)), t) = (n - 1) * eaten - (n - 1) * f
    BY <1>5, <1>6 DEF Drift
  <1>8. 100 * ((n - 1) * eaten - (n - 1) * f) <= AtLeast(100 * 200, 3 * t)
    BY <1>6 DEF AtLeast
  <1> QED
    BY <1>1, <1>7, <1>8 DEF Within

\* The drafts of songs.
SongDrafts ==
    {LocalDraft[job] : job \in SungJobs} \cup UNION {HostedDrafts[job] : job \in {j \in SungJobs : j.key}}

MusicState ==
    [at : {"idle", "planning", "writing", "sections", "section", "submitting", "polling",
           "fetching", "joining", "delivered", "failed", "cancelled"},
     job : MusicJobs, chain : Seq(Writers), round : 1..2, tries : 1..HostedTries,
     best : {<<>>} \cup {<<draft>> : draft \in SongDrafts}, fit : BOOLEAN,
     asked : SUBSET Writers, words : {"none", "supplied", "written"}, count : Nat,
     section : Nat, cancelled : BOOLEAN,
     ends : {"none", "refused", "no words", "unavailable", "too long", "generation", "loop",
             "length", "assembly"},
     retry : BOOLEAN]

LocalCan(job) == "template" \in ToSet(job.writers) /\ CanWrite("template", Language(job))

\* A draft that may be sung.
Singable(job, draft) == ~draft.wrong /\ (draft.author = "template" => Language(job) = "en")

Rounds == {"section", "submitting", "polling", "fetching", "joining", "delivered"}

\* The inductive invariant.  The local writer is passed over only in a language it
\* does not know, so while words are written it is still ahead in the chain.
MusicInv ==
    /\ music \in MusicState /\ take \in [section : Nat, whole : Int]
    /\ music.words = "written" => music.best # <<>>
    /\ music.best # <<>> => Singable(music.job, music.best[1])
    /\ music.at \in {"idle", "planning", "writing", "sections"} => take.section = 0
    /\ take.section <= music.count
    /\ music.at \in {"idle", "planning"} => music.words = "none"
    /\ music.at = "writing" =>
         /\ music.job \in SungJobs /\ ~music.job.supplied /\ music.words = "none"
         /\ LocalCan(music.job) => "template" \in ToSet(music.chain)
    /\ music.at \in {"sections"} \cup Rounds =>
         /\ music.words = "supplied" <=> music.job.supplied
         /\ music.words = "none" =>
              music.job.instrumental \/ music.job.writers = <<>> \/ music.job \notin SungJobs
    /\ music.at \in Rounds => music.section \in 1..music.count
    /\ music.at = "sections" => music.section = 1
    /\ music.at \in {"idle", "planning", "writing"} => music.section = 1
    /\ music.ends = "no words" => ~LocalCan(music.job)

\* What the invariant says of the job and the state's fields.
LEMMA MusicFields ==
    ASSUME MusicInv
    PROVE  /\ music \in MusicState /\ music.job \in MusicJobs /\ music.job \in SongRequest
           /\ music.chain \in Seq(Writers) /\ music.job.writers \in Seq(Writers)
           /\ music.count \in Nat /\ music.section \in Nat
           /\ music.tries \in 1..HostedTries /\ music.round \in 1..2
           /\ HostedTries \in Nat \ {0}
  BY MusicAssumption DEF MusicInv, MusicState, MusicAssumption, SongRequest

\* A song that is over asks nothing more of its state.
LEMMA EndedKeeps ==
    ASSUME MusicInv, take' = take, music' \in MusicState,
           music'.at \in {"failed", "cancelled"}, music'.job = music.job,
           music'.words = music.words, music'.best = music.best, music'.count = music.count,
           music'.ends = "no words" => ~LocalCan(music.job)
    PROVE  MusicInv'
  BY DEF MusicInv, Rounds

\* A step that is passed on to the next one within the same take.
LEMMA MovedOnKeeps ==
    ASSUME MusicInv, take' = take, music' \in MusicState, music.at \in Rounds,
           music'.at \in Rounds, music'.job = music.job,
           music'.words = music.words, music'.best = music.best, music'.count = music.count,
           music'.section = music.section, music'.ends = music.ends
    PROVE  MusicInv'
  BY DEF MusicInv, Rounds

\* A failure keeps the invariant.
LEMMA FailingKeeps ==
    ASSUME MusicInv, take' = take,
           NEW why \in {"refused", "no words", "unavailable", "too long", "generation", "loop",
                        "length", "assembly"},
           NEW retry \in BOOLEAN, music' = MusicFailing(music, why, retry),
           why = "no words" => ~LocalCan(music.job)
    PROVE  MusicInv'
  <1>1. music \in MusicState
    BY DEF MusicInv
  <1>2. music' = [music EXCEPT !.at = "failed", !.ends = why, !.retry = retry]
    BY DEF MusicFailing
  <1>3. music' \in MusicState
    BY ZenonT(40), <1>1, <1>2 DEF MusicState
  <1>4. /\ music'.at = "failed" /\ music'.job = music.job /\ music'.words = music.words
        /\ music'.best = music.best /\ music'.count = music.count /\ music'.ends = why
    BY <1>1, <1>2 DEF MusicState
  <1> QED
    BY <1>3, <1>4, EndedKeeps

\* So does being stopped.
LEMMA StoppingKeeps ==
    ASSUME MusicInv, take' = take, music' = [music EXCEPT !.at = "cancelled"]
    PROVE  MusicInv'
  <1>1. music \in MusicState
    BY DEF MusicInv
  <1>2. music' \in MusicState
    BY ZenonT(40), <1>1 DEF MusicState
  <1>3. /\ music'.at = "cancelled" /\ music'.job = music.job /\ music'.words = music.words
        /\ music'.best = music.best /\ music'.count = music.count /\ music'.ends = music.ends
    BY <1>1 DEF MusicState
  <1>4. music'.ends = "no words" => ~LocalCan(music.job)
    BY <1>3 DEF MusicInv
  <1> QED
    BY <1>2, <1>3, <1>4, EndedKeeps

\* So does moving on, with the words as they are.
LEMMA MovingKeeps ==
    ASSUME MusicInv, take' = take, music.at \in Rounds,
           NEW at \in Rounds, music' = [music EXCEPT !.at = at]
    PROVE  MusicInv'
  <1>1. music \in MusicState
    BY DEF MusicInv
  <1>2. music' \in MusicState
    BY ZenonT(40), <1>1 DEF MusicState, Rounds
  <1>3. /\ music'.at = at /\ music'.job = music.job /\ music'.words = music.words
        /\ music'.best = music.best /\ music'.count = music.count /\ music'.ends = music.ends
        /\ music'.section = music.section
    BY <1>1 DEF MusicState
  <1> QED
    BY <1>2, <1>3, MovedOnKeeps

\* The next writer: of those who can write, nobody is passed over unasked.
LEMMA NextWriterKeeps ==
    ASSUME MusicInv, take' = take, music.at = "writing", music.chain # <<>>,
           music' = NextWriter(music), LocalCan(music.job) => Head(music.chain) # "template"
    PROVE  MusicInv'
  <1>1. /\ music \in MusicState /\ music.chain \in Seq(Writers) /\ HostedTries \in Nat \ {0}
    BY MusicFields
  <1>2. Tail(music.chain) \in Seq(Writers)
    BY <1>1
  <1>3. music' = [music EXCEPT !.chain = Tail(music.chain), !.tries = 1]
    BY DEF NextWriter
  <1>4. music' \in MusicState
    <2>1. 1 \in 1..HostedTries
      BY <1>1
    <2> QED
      BY ZenonT(40), <1>1, <1>2, <1>3, <2>1 DEF MusicState
  <1>5. /\ music'.at = "writing" /\ music'.job = music.job /\ music'.words = music.words
        /\ music'.best = music.best /\ music'.count = music.count /\ music'.ends = music.ends
        /\ music'.section = music.section /\ music'.chain = Tail(music.chain)
    BY <1>1, <1>3 DEF MusicState
  <1>6. LocalCan(music.job) => "template" \in ToSet(Tail(music.chain))
    <2> SUFFICES ASSUME LocalCan(music.job) PROVE "template" \in ToSet(Tail(music.chain))
      OBVIOUS
    <2>1. "template" \in ToSet(music.chain)
      BY DEF MusicInv
    <2>2. PICK i \in DOMAIN music.chain : music.chain[i] = "template"
      BY <2>1 DEF ToSet
    <2>3. i # 1 /\ i \in 1..Len(music.chain)
      BY <1>1, <2>2
    <2>4. i - 1 \in 1..Len(Tail(music.chain)) /\ Tail(music.chain)[i - 1] = music.chain[i]
      BY <1>1, <2>3
    <2>5. i - 1 \in DOMAIN Tail(music.chain)
      BY <1>2, <2>4
    <2> QED
      BY <2>2, <2>4, <2>5 DEF ToSet
  <1> QED
    BY <1>4, <1>5, <1>6 DEF MusicInv, Rounds

\* Asking the hosted writer again keeps the invariant.
LEMMA RetryKeeps ==
    ASSUME MusicInv, take' = take, music.at = "writing", music.tries < HostedTries,
           music' = [music EXCEPT !.tries = @ + 1]
    PROVE  MusicInv'
  <1>1. music \in MusicState /\ music.tries \in 1..HostedTries /\ HostedTries \in Nat \ {0}
    BY MusicFields
  <1>2. music.tries + 1 \in 1..HostedTries
    BY <1>1
  <1>3. music' \in MusicState
    BY ZenonT(40), <1>1, <1>2 DEF MusicState
  <1>4. /\ music'.at = "writing" /\ music'.job = music.job /\ music'.words = music.words
        /\ music'.best = music.best /\ music'.count = music.count /\ music'.ends = music.ends
        /\ music'.section = music.section /\ music'.chain = music.chain
    BY <1>1 DEF MusicState
  <1> QED
    BY <1>3, <1>4 DEF MusicInv, Rounds

\* A draft is judged: the best of them is kept, and sung or asked for once more.
LEMMA DraftedKeeps ==
    ASSUME MusicInv, take' = take, music.at = "writing", NEW asked \in SUBSET Writers,
           NEW draft \in SongDrafts, Singable(music.job, draft),
           music' = Drafted([music EXCEPT !.asked = asked], draft)
    PROVE  MusicInv'
  <1>1. /\ music \in MusicState /\ HostedTries \in Nat \ {0}
        /\ music.job.writers \in Seq(Writers)
    BY MusicFields
  <1> DEFINE better == music.best = <<>> \/ Better(draft.review, music.best[1].review)
  <1>2. PICK best \in {<<>>} \cup {<<d>> : d \in SongDrafts} :
          best = IF better THEN <<draft>> ELSE music.best
    <2> HIDE DEF better
    <2> QED
      BY <1>1 DEF MusicState
  <1>3. best # <<>> /\ Singable(music.job, best[1])
    <2>1. CASE better
      BY <1>2, <2>1
    <2>2. CASE ~better
      <3>1. best = music.best /\ music.best # <<>>
        BY <1>2, <2>2
      <3> QED
        BY <3>1 DEF MusicInv
    <2> QED
      BY <2>1, <2>2
  <1> DEFINE m    == [music EXCEPT !.asked = asked]
             kept == [m EXCEPT !.best = best]
  <1>4. m.best = music.best /\ m.round = music.round /\ m.job = music.job
    BY <1>1 DEF MusicState
  <1>5. \/ music' = [kept EXCEPT !.fit = Acceptable(draft.review), !.words = "written",
                                 !.at = "sections"]
        \/ music' = [kept EXCEPT !.round = 2, !.chain = music.job.writers, !.tries = 1]
    <2>1. [m EXCEPT !.best = IF m.best = <<>> \/ Better(draft.review, m.best[1].review)
                             THEN <<draft>> ELSE @] = kept
      BY <1>2, <1>4
    <2> HIDE DEF m
    <2> QED
      BY <1>4, <2>1 DEF Drafted, m
  <1>6. PICK fit \in BOOLEAN : fit = Acceptable(draft.review)
    BY DEF Acceptable
  <1>7. kept \in MusicState
    BY ZenonT(40), <1>1, <1>2 DEF MusicState
  <1>8. /\ kept.job = music.job /\ kept.words = music.words /\ kept.best = best
        /\ kept.count = music.count /\ kept.ends = music.ends /\ kept.section = music.section
        /\ kept.at = music.at
    BY <1>1 DEF MusicState
  <1> HIDE DEF kept, m, better
  <1>9. CASE music' = [kept EXCEPT !.fit = Acceptable(draft.review), !.words = "written",
                                   !.at = "sections"]
    <2>1. music' = [kept EXCEPT !.fit = fit, !.words = "written", !.at = "sections"]
      BY <1>6, <1>9
    <2>2. music' \in MusicState
      BY ZenonT(40), <1>7, <2>1 DEF MusicState
    <2>3. /\ music'.at = "sections" /\ music'.job = music.job /\ music'.words = "written"
          /\ music'.best = best /\ music'.count = music.count /\ music'.ends = music.ends
          /\ music'.section = music.section
      BY <1>7, <1>8, <2>1 DEF MusicState
    <2> QED
      BY <1>3, <2>2, <2>3 DEF MusicInv, Rounds
  <1>10. CASE music' = [kept EXCEPT !.round = 2, !.chain = music.job.writers, !.tries = 1]
    <2>1. 1 \in 1..HostedTries /\ 2 \in 1..2
      BY <1>1
    <2>2. music' \in MusicState
      BY ZenonT(40), <1>1, <1>7, <1>10, <2>1 DEF MusicState
    <2>3. /\ music'.at = "writing" /\ music'.job = music.job /\ music'.words = music.words
          /\ music'.best = best /\ music'.count = music.count /\ music'.ends = music.ends
          /\ music'.section = music.section /\ music'.chain = music.job.writers
      BY <1>7, <1>8, <1>10 DEF MusicState
    <2>4. LocalCan(music.job) => "template" \in ToSet(music.job.writers)
      BY DEF LocalCan
    <2> QED
      BY <1>3, <2>2, <2>3, <2>4 DEF MusicInv, Rounds
  <1> QED
    BY <1>5, <1>9, <1>10

\* Deciding whose words are sung keeps the invariant.
LEMMA PlanSongKeeps ==
    ASSUME MusicInv, PlanSong
    PROVE  MusicInv'
  <1>1. /\ music.at = "planning" /\ take' = take
        /\ music \in MusicState /\ music.job \in MusicJobs /\ music.job \in SongRequest
        /\ music.job.writers \in Seq(Writers)
    BY MusicFields DEF PlanSong
  <1> DEFINE job == music.job
  <1>2. \/ music' = MusicFailing(music, "refused", FALSE)
        \/ job.supplied /\ music' = [music EXCEPT !.at = "sections", !.words = "supplied"]
        \/ /\ ~job.supplied /\ (job.instrumental \/ job.writers = <<>> \/ job \notin SungJobs)
           /\ music' = [music EXCEPT !.at = "sections"]
        \/ /\ ~job.supplied /\ job \in SungJobs
           /\ music' = [music EXCEPT !.at = "writing", !.chain = job.writers]
    BY DEF PlanSong, MusicTo
  <1>3. CASE music' = MusicFailing(music, "refused", FALSE)
    BY <1>1, <1>3, FailingKeeps
  <1>4. CASE job.supplied /\ music' = [music EXCEPT !.at = "sections", !.words = "supplied"]
    <2>1. music' \in MusicState
      BY ZenonT(40), <1>1, <1>4 DEF MusicState
    <2>2. /\ music'.at = "sections" /\ music'.job = music.job /\ music'.words = "supplied"
          /\ music'.best = music.best /\ music'.count = music.count /\ music'.ends = music.ends
          /\ music'.section = music.section
      BY <1>1, <1>4 DEF MusicState
    <2> QED
      BY <1>1, <1>4, <2>1, <2>2 DEF MusicInv, Rounds
  <1>5. CASE /\ ~job.supplied /\ (job.instrumental \/ job.writers = <<>> \/ job \notin SungJobs)
             /\ music' = [music EXCEPT !.at = "sections"]
    <2>1. music' \in MusicState
      BY ZenonT(40), <1>1, <1>5 DEF MusicState
    <2>2. /\ music'.at = "sections" /\ music'.job = music.job /\ music'.words = music.words
          /\ music'.best = music.best /\ music'.count = music.count /\ music'.ends = music.ends
          /\ music'.section = music.section
      BY <1>1, <1>5 DEF MusicState
    <2> QED
      BY <1>1, <1>5, <2>1, <2>2 DEF MusicInv, Rounds
  <1>6. CASE /\ ~job.supplied /\ job \in SungJobs
             /\ music' = [music EXCEPT !.at = "writing", !.chain = job.writers]
    <2>1. music' \in MusicState
      BY ZenonT(40), <1>1, <1>6 DEF MusicState
    <2>2. /\ music'.at = "writing" /\ music'.job = music.job /\ music'.words = music.words
          /\ music'.best = music.best /\ music'.count = music.count /\ music'.ends = music.ends
          /\ music'.section = music.section /\ music'.chain = job.writers
      BY <1>1, <1>6 DEF MusicState
    <2>3. LocalCan(job) => "template" \in ToSet(job.writers)
      BY DEF LocalCan
    <2> QED
      BY <1>1, <1>6, <2>1, <2>2, <2>3 DEF MusicInv, Rounds
  <1> QED
    BY <1>2, <1>3, <1>4, <1>5, <1>6

\* Every outcome of asking a writer keeps the invariant.
LEMMA WritingKeeps ==
    ASSUME MusicInv, SkipWriter \/ HostedAnswers \/ HostedFails \/ LocalWrites \/ NobodyWrites
    PROVE  MusicInv'
  <1> USE DEF MusicTo
  <1>0. /\ music \in MusicState /\ take' = take /\ music.at = "writing"
        /\ music.job \in SungJobs /\ music.asked \in SUBSET Writers
    BY DEF MusicInv, MusicState, SkipWriter, HostedAnswers, HostedFails, LocalWrites,
           NobodyWrites, Writing
  <1>1. CASE SkipWriter
    <2>1. music.chain # <<>> /\ music' = NextWriter(music)
          /\ Head(music.chain) \notin Writable(music.job)
      BY <1>1 DEF SkipWriter
    <2>2. LocalCan(music.job) => "template" \in Writable(music.job)
      BY DEF LocalCan, Writable, Available
    <2> QED
      BY <1>0, <2>1, <2>2, NextWriterKeeps
  <1>2. CASE HostedAnswers
    <2>1. PICK draft \in HostedDrafts[music.job] :
            music' = IF ~draft.wrong THEN Drafted(music, draft)
                     ELSE IF music.tries < HostedTries THEN [music EXCEPT !.tries = @ + 1]
                     ELSE NextWriter(music)
      BY <1>2 DEF HostedAnswers
    <2>2. music.chain # <<>> /\ Head(music.chain) = "cerebras" /\ music.job.key
      BY <1>2 DEF HostedAnswers, Writing
    <2>3. CASE ~draft.wrong
      <3>1. draft \in SongDrafts
        BY <1>0, <2>2 DEF SongDrafts
      <3>2. draft.author = "cerebras"
        BY <1>0, <2>2 DEF HostedDrafts, ReviewedDraft
      <3>3. Singable(music.job, draft)
        BY <2>3, <3>2 DEF Singable
      <3>4. [music EXCEPT !.asked = music.asked] = music
        BY <1>0 DEF MusicState
      <3>5. music' = Drafted([music EXCEPT !.asked = music.asked], draft)
        BY <2>1, <2>3, <3>4
      <3> QED
        BY <1>0, <3>1, <3>3, <3>5, DraftedKeeps
    <2>4. CASE draft.wrong /\ music.tries < HostedTries
      BY <1>0, <2>1, <2>4, RetryKeeps
    <2>5. CASE draft.wrong /\ ~(music.tries < HostedTries)
      <3>1. music' = NextWriter(music)
        BY <2>1, <2>5
      <3> QED
        BY <1>0, <2>2, <3>1, NextWriterKeeps
    <2> QED
      BY <2>3, <2>4, <2>5
  <1>3. CASE HostedFails
    <2>1. music.chain # <<>> /\ Head(music.chain) = "cerebras"
      BY <1>3 DEF HostedFails, Writing
    <2>2. \/ music.tries < HostedTries /\ music' = [music EXCEPT !.tries = @ + 1]
          \/ music' = NextWriter(music)
      BY <1>3 DEF HostedFails
    <2>3. CASE music.tries < HostedTries /\ music' = [music EXCEPT !.tries = @ + 1]
      BY <1>0, <2>3, RetryKeeps
    <2>4. CASE music' = NextWriter(music)
      BY <1>0, <2>1, <2>4, NextWriterKeeps
    <2> QED
      BY <2>2, <2>3, <2>4
  <1>4. CASE LocalWrites
    <2>1. PICK draft, asked : /\ draft = LocalDraft[music.job]
                              /\ asked = music.asked \cup {"template"}
      OBVIOUS
    <2>2. music' = Drafted([music EXCEPT !.asked = asked], draft)
      BY <1>4, <2>1 DEF LocalWrites
    <2>3. draft \in SongDrafts /\ asked \in SUBSET Writers
      BY <1>0, <2>1 DEF SongDrafts, Writers
    <2>4. ~draft.wrong
      BY <1>0, <2>1 DEF LocalDraft, ReviewedDraft
    <2>5. Language(music.job) = "en"
      BY <1>4 DEF LocalWrites, CanWrite
    <2> QED
      BY <1>0, <2>2, <2>3, <2>4, <2>5, DraftedKeeps DEF Singable
  <1>5. CASE NobodyWrites
    <2>1. music.chain = <<>> /\ music' = MusicFailing(music, "no words", TRUE)
      BY <1>5 DEF NobodyWrites
    <2>2. ~LocalCan(music.job)
      <3>1. Len(music.chain) = 0 /\ music.chain \in Seq(Writers)
        BY <2>1, MusicFields
      <3>2. DOMAIN music.chain = {}
        BY <3>1
      <3>3. "template" \notin ToSet(music.chain)
        BY <3>2 DEF ToSet
      <3> QED
        BY <1>0, <3>3 DEF MusicInv
    <2> QED
      BY <1>0, <2>1, <2>2, FailingKeeps
  <1> QED
    BY <1>1, <1>2, <1>3, <1>4, <1>5

\* So does every step of the takes.
LEMMA TakesKeep ==
    ASSUME MusicInv, PlanTakes \/ StartTake \/ Submit \/ PollEnds \/ Fetch \/ Join \/ MusicStops
    PROVE  MusicInv'
  <1> USE DEF MusicTo
  <1>0. /\ music \in MusicState /\ music.job \in MusicJobs /\ music.job \in SongRequest
        /\ music.count \in Nat /\ music.section \in Nat
    BY MusicFields
  <1>1. CASE PlanTakes
    <2>1. PICK n \in Nat \ {0} : n = TakesOf[music.job]
      BY <1>0, TakesArePositive
    <2>2. /\ music.at = "sections" /\ take' = take
          /\ music' = [music EXCEPT !.at = "section", !.count = n]
      BY <1>1, <2>1 DEF PlanTakes
    <2>3. music' \in MusicState
      BY ZenonT(40), <1>0, <2>2 DEF MusicState
    <2>4. /\ music'.at = "section" /\ music'.job = music.job /\ music'.words = music.words
          /\ music'.best = music.best /\ music'.count = n /\ music'.ends = music.ends
          /\ music'.section = music.section
      BY <1>0, <2>2 DEF MusicState
    <2>5. take.section = 0 /\ music.section = 1
      BY <2>2 DEF MusicInv
    <2>6. take'.section <= n /\ 1 \in 1..n
      BY <2>1, <2>2, <2>5
    <2> QED
      BY <2>2, <2>3, <2>4, <2>5, <2>6 DEF MusicInv, Rounds
  <1>2. CASE StartTake
    <2>1. music.at = "section" /\ take' = take
      BY <1>2 DEF StartTake
    <2>2. \/ music' = [music EXCEPT !.at = "cancelled"]
          \/ music' = MusicFailing(music, "unavailable", FALSE)
          \/ music' = MusicFailing(music, "too long", TRUE)
          \/ music' = [music EXCEPT !.at = "submitting"]
      BY <1>2 DEF StartTake
    <2>3. CASE music' = [music EXCEPT !.at = "submitting"]
      BY <2>1, <2>3, MovingKeeps DEF Rounds
    <2> QED
      BY <2>1, <2>2, <2>3, FailingKeeps, StoppingKeeps
  <1>3. CASE Submit
    <2>1. music.at = "submitting" /\ take' = take
      BY <1>3 DEF Submit
    <2>2. \/ music' = [music EXCEPT !.at = "polling"]
          \/ music' = MusicFailing(music, "unavailable", FALSE)
          \/ music' = MusicFailing(music, "generation", TRUE)
      BY <1>3 DEF Submit
    <2>3. CASE music' = [music EXCEPT !.at = "polling"]
      BY <2>1, <2>3, MovingKeeps DEF Rounds
    <2> QED
      BY <2>1, <2>2, <2>3, FailingKeeps
  <1>4. CASE PollEnds
    <2>1. music.at = "polling" /\ take' = take
      BY <1>4 DEF PollEnds
    <2>2. \/ music' = [music EXCEPT !.at = "fetching"]
          \/ music' = MusicFailing(music, "generation", TRUE)
      BY <1>4 DEF PollEnds
    <2>3. CASE music' = [music EXCEPT !.at = "fetching"]
      BY <2>1, <2>3, MovingKeeps DEF Rounds
    <2> QED
      BY <2>1, <2>2, <2>3, FailingKeeps
  <1>5. CASE Fetch
    <2>0. music.at = "fetching" /\ music.section \in 1..music.count
      BY <1>5 DEF Fetch, MusicInv, Rounds
    <2>1. PICK why \in {"loop", "generation"} : why = IF music.section > 1 THEN "loop" ELSE "generation"
      OBVIOUS
    <2>2. \/ take' = take /\ music' = MusicFailing(music, why, TRUE)
          \/ /\ \E whole \in Int : take' = [section |-> music.section, whole |-> whole]
             /\ music' = IF music.section < music.count
                         THEN [music EXCEPT !.at = "section", !.section = @ + 1]
                         ELSE [music EXCEPT !.at = "joining"]
      <3>1. PICK p \in Int : p = Padded(music.job, music.count)
        BY <1>0 DEF Padded, Total, SongRequest
      <3>2. p \div 2 \in Int
        BY <3>1
      <3> QED
        BY <1>5, <2>1, <3>1, <3>2 DEF Fetch
    <2>3. CASE take' = take /\ music' = MusicFailing(music, why, TRUE)
      BY <2>3, FailingKeeps
    <2>4. CASE /\ \E whole \in Int : take' = [section |-> music.section, whole |-> whole]
               /\ music' = IF music.section < music.count
                           THEN [music EXCEPT !.at = "section", !.section = @ + 1]
                           ELSE [music EXCEPT !.at = "joining"]
      <3>1. take' \in [section : Nat, whole : Int] /\ take'.section = music.section
        BY <1>0, <2>4
      <3>2. PICK at \in {"section", "joining"}, n \in 1..music.count :
              music' = [music EXCEPT !.at = at, !.section = n]
        <4>1. CASE music.section < music.count
          <5>1. music' = [music EXCEPT !.at = "section", !.section = music.section + 1]
            BY <2>4, <4>1
          <5>2. music.section + 1 \in 1..music.count
            BY <1>0, <2>0, <4>1
          <5> QED
            BY <5>1, <5>2
        <4>2. CASE ~(music.section < music.count)
          <5>1. music' = [music EXCEPT !.at = "joining", !.section = music.section]
            BY <1>0, <2>4, <4>2 DEF MusicState
          <5> QED
            BY <2>0, <5>1
        <4> QED
          BY <4>1, <4>2
      <3>3. n \in Nat
        BY <1>0
      <3>4. music' \in MusicState
        BY ZenonT(40), <1>0, <3>2, <3>3 DEF MusicState
      <3>5. /\ music'.at = at /\ music'.job = music.job /\ music'.words = music.words
            /\ music'.best = music.best /\ music'.count = music.count
            /\ music'.ends = music.ends /\ music'.section = n
        BY <1>0, <3>2 DEF MusicState
      <3>6. take'.section <= music'.count
        BY <1>0, <2>0, <3>1, <3>5
      <3> QED
        BY <2>0, <3>1, <3>4, <3>5, <3>6 DEF MusicInv, Rounds
    <2> QED
      BY <2>2, <2>3, <2>4
  <1>6. CASE Join
    <2>1. music.at = "joining" /\ take' = take
      BY <1>6 DEF Join
    <2>2. \/ music' = [music EXCEPT !.at = "delivered"]
          \/ music' = MusicFailing(music, "length", TRUE)
          \/ music' = MusicFailing(music, "assembly", TRUE)
      BY <1>6 DEF Join
    <2>3. CASE music' = [music EXCEPT !.at = "delivered"]
      BY <2>1, <2>3, MovingKeeps DEF Rounds
    <2> QED
      BY <2>1, <2>2, <2>3, FailingKeeps
  <1>7. CASE MusicStops
    BY <1>7, StoppingKeeps DEF MusicStops
  <1> QED
    BY <1>1, <1>2, <1>3, <1>4, <1>5, <1>6, <1>7

\* The music adapter keeps its invariant.
LEMMA MusicStays ==
    ASSUME MusicInv, MusicNext \/ UNCHANGED musicVars
    PROVE  MusicInv'
  <1>1. CASE UNCHANGED musicVars
    BY <1>1 DEF musicVars, MusicInv
  <1>2. CASE PlanSong
    BY <1>2, PlanSongKeeps
  <1>3. CASE SkipWriter \/ HostedAnswers \/ HostedFails \/ LocalWrites \/ NobodyWrites
    BY <1>3, WritingKeeps
  <1>4. CASE PlanTakes \/ StartTake \/ Submit \/ PollEnds \/ Fetch \/ Join \/ MusicStops
    BY <1>4, TakesKeep
  <1>5. CASE MusicCancel
    <2>1. music \in MusicState /\ take' = take /\ music' = [music EXCEPT !.cancelled = TRUE]
      BY <1>5 DEF MusicCancel, MusicTo, MusicInv
    <2>2. music' \in MusicState
      BY ZenonT(40), <2>1 DEF MusicState
    <2>3. /\ music'.at = music.at /\ music'.job = music.job /\ music'.words = music.words
          /\ music'.best = music.best /\ music'.count = music.count /\ music'.ends = music.ends
          /\ music'.section = music.section /\ music'.chain = music.chain
      BY <2>1 DEF MusicState
    <2> QED
      BY <2>1, <2>2, <2>3 DEF MusicInv
  <1>6. CASE MusicAborted
    BY <1>6, StoppingKeeps DEF MusicAborted, MusicTo
  <1> QED
    BY <1>1, <1>2, <1>3, <1>4, <1>5, <1>6 DEF MusicNext, MusicStep

\* It holds at first, of a song that is asked for and of none.
LEMMA MusicBegins ==
    ASSUME MusicInit \/ MusicIdle
    PROVE  MusicInv
  <1>1. PICK at \in {"planning", "idle"}, job \in MusicJobs : music = MusicStarting(at, job)
    <2>1. (CHOOSE job \in MusicJobs : TRUE) \in MusicJobs
      BY MusicAssumption DEF MusicAssumption
    <2> QED
      BY <2>1 DEF MusicInit, MusicIdle
  <1>2. take = [section |-> 0, whole |-> 0]
    BY DEF MusicInit, MusicIdle, NoTake
  <1>3. music = [at |-> at, job |-> job, chain |-> <<>>, round |-> 1, tries |-> 1, best |-> <<>>,
                 fit |-> FALSE, asked |-> {}, words |-> "none", count |-> 0, section |-> 1,
                 cancelled |-> FALSE, ends |-> "none", retry |-> TRUE]
    BY <1>1 DEF MusicStarting
  <1>4. 1 \in 1..HostedTries /\ 1 \in 1..2 /\ <<>> \in Seq(Writers) /\ 0 \in Nat /\ 1 \in Nat
    BY MusicAssumption, EmptySeq DEF MusicAssumption
  <1>5. music \in MusicState
    BY ZenonT(40), <1>3, <1>4 DEF MusicState
  <1>6. /\ music.at = at /\ music.job = job /\ music.words = "none" /\ music.best = <<>>
        /\ music.count = 0 /\ music.ends = "none" /\ music.section = 1
    BY <1>3
  <1> QED
    BY <1>2, <1>5, <1>6 DEF MusicInv, Rounds

\* What the invariant says of a song.
LEMMA MusicIsSafe ==
    ASSUME MusicInv
    PROVE  /\ MusicTypeOK /\ SungAsAsked
           /\ music.ends = "no words" => ~LocalCan(music.job)
  <1>1. music \in MusicState /\ music.job \in MusicJobs
    BY MusicFields
  <1>2. MusicTypeOK
    <2>1. music.at \in {"idle", "planning", "writing", "sections", "section", "submitting", "polling",
                        "fetching", "joining", "delivered", "failed", "cancelled"}
      BY <1>1 DEF MusicState
    <2>2. music.at \in MusicOver \cup {"idle", "planning", "writing", "sections", "section",
                                      "submitting", "polling", "fetching", "joining"}
      BY <2>1 DEF MusicOver
    <2>3. take.section \in 0..music.count
      <3>1. take \in [section : Nat, whole : Int] /\ take.section <= music.count
        BY DEF MusicInv
      <3>2. take.section \in Nat
        BY <3>1
      <3> QED
        BY <3>1, <3>2, MusicFields
    <2>4. music.words = "written" => music.best # <<>>
      BY DEF MusicInv
    <2> QED
      BY <1>1, <2>2, <2>3, <2>4, MusicFields DEF MusicTypeOK
  <1>3. SungAsAsked
    <2> SUFFICES ASSUME music.at \in Rounds
                 PROVE  /\ music.words = "supplied" <=> music.job.supplied
                        /\ music.words = "none" =>
                             music.job.instrumental \/ music.job.writers = <<>>
                             \/ (music.job.vocals # "asked"
                                  /\ (music.job.vocals = "refused" \/ music.job.genre \in Wordless))
                        /\ music.words = "written" =>
                             /\ ~music.best[1].wrong
                             /\ music.best[1].author = "template" => Language(music.job) = "en"
      BY DEF SungAsAsked, Rendering, Rounds
    <2>1. music.words = "supplied" <=> music.job.supplied
      BY DEF MusicInv
    <2>2. music.words = "none" =>
            music.job.instrumental \/ music.job.writers = <<>> \/ music.job \notin SungJobs
      BY DEF MusicInv
    <2>3. music.words = "written" => Singable(music.job, music.best[1])
      BY DEF MusicInv
    <2> QED
      BY <1>1, <2>1, <2>2, <2>3, WordsAreWanted DEF Singable
  <1> QED
    BY <1>2, <1>3 DEF MusicInv

\* While it is rendered, a song has the takes its length asks for.
CountInv == music.at \in Rounds => music.count = TakesOf[music.job]

\* A song whose words are chosen is not rendered yet.
LEMMA WritingIsBefore ==
    ASSUME MusicInv,
           PlanSong \/ SkipWriter \/ HostedAnswers \/ HostedFails \/ LocalWrites \/ NobodyWrites
    PROVE  music'.at \notin Rounds
  <1> USE DEF MusicTo
  <1>1. music \in MusicState
    BY DEF MusicInv
  <1>2. ASSUME NEW m \in MusicState, NEW draft
        PROVE  Drafted(m, draft).at \in {"sections", m.at}
    <2>1. ASSUME NEW b
          PROVE  /\ [[m EXCEPT !.best = b] EXCEPT !.fit = Acceptable(draft.review), !.words = "written",
                                                  !.at = "sections"].at = "sections"
                 /\ [[m EXCEPT !.best = b] EXCEPT !.round = 2, !.chain = m.job.writers, !.tries = 1].at = m.at
      BY DEF MusicState
    <2> QED
      BY <2>1 DEF Drafted
  <1>3. ASSUME NEW why, NEW retry PROVE MusicFailing(music, why, retry).at = "failed"
    BY <1>1 DEF MusicFailing, MusicState
  <1>4. /\ [music EXCEPT !.tries = music.tries + 1].at = music.at
        /\ NextWriter(music).at = music.at
    BY <1>1 DEF MusicState, NextWriter
  <1>5. CASE PlanSong
    <2>1. /\ [music EXCEPT !.at = "sections", !.words = "supplied"].at = "sections"
          /\ [music EXCEPT !.at = "sections"].at = "sections"
          /\ [music EXCEPT !.at = "writing", !.chain = music.job.writers].at = "writing"
      BY <1>1 DEF MusicState
    <2> QED
      BY <1>3, <1>5, <2>1 DEF PlanSong, Rounds
  <1>6. CASE SkipWriter
    BY <1>4, <1>6 DEF SkipWriter, Rounds
  <1>7. CASE HostedAnswers
    BY <1>1, <1>2, <1>4, <1>7 DEF HostedAnswers, Writing, Rounds
  <1>8. CASE HostedFails
    BY <1>4, <1>8 DEF HostedFails, Writing, Rounds
  <1>9. CASE LocalWrites
    <2>1. PICK asks \in SUBSET Writers : asks = music.asked \cup {"template"}
      BY <1>1 DEF MusicState, Writers
    <2>2. [music EXCEPT !.asked = asks] \in MusicState /\ [music EXCEPT !.asked = asks].at = music.at
      BY ZenonT(40), <1>1 DEF MusicState
    <2> QED
      BY <1>2, <1>9, <2>1, <2>2 DEF LocalWrites, Writing, Rounds
  <1>10. CASE NobodyWrites
    BY <1>3, <1>10 DEF NobodyWrites, Rounds
  <1> QED
    BY <1>5, <1>6, <1>7, <1>8, <1>9, <1>10

\* Once counted, the takes of a song are not counted again.
LEMMA CountStays ==
    ASSUME MusicInv, CountInv, MusicNext \/ UNCHANGED musicVars
    PROVE  CountInv'
  <1> USE DEF MusicTo
  <1>1. music \in MusicState /\ music.job \in MusicJobs
    BY MusicFields
  <1>2. ASSUME music.at \in Rounds, music'.job = music.job, music'.count = music.count
        PROVE  CountInv'
    BY <1>2 DEF CountInv, TakesOf, Rounds
  <1>3. ASSUME NEW why, NEW retry, music' = MusicFailing(music, why, retry)
        PROVE  CountInv'
    <2>1. music'.at = "failed"
      BY <1>1, <1>3 DEF MusicFailing, MusicState
    <2> QED
      BY <2>1 DEF CountInv, Rounds
  <1>4. ASSUME music' = [music EXCEPT !.at = "cancelled"] PROVE CountInv'
    <2>1. music'.at = "cancelled"
      BY <1>1, <1>4 DEF MusicState
    <2> QED
      BY <2>1 DEF CountInv, Rounds
  <1>5. ASSUME music.at \in Rounds, NEW at, music' = [music EXCEPT !.at = at]
        PROVE  CountInv'
    <2>1. music'.job = music.job /\ music'.count = music.count
      BY <1>1, <1>5 DEF MusicState
    <2> QED
      BY <1>2, <1>5, <2>1
  <1>6. CASE UNCHANGED musicVars
    BY <1>6 DEF musicVars, CountInv
  <1>7. CASE PlanSong \/ SkipWriter \/ HostedAnswers \/ HostedFails \/ LocalWrites \/ NobodyWrites
    BY <1>7, WritingIsBefore DEF CountInv
  <1>8. CASE PlanTakes
    <2>1. music'.job = music.job /\ music'.count = TakesOf[music.job]
      BY <1>1, <1>8 DEF PlanTakes, MusicState
    <2> QED
      BY <2>1 DEF CountInv
  <1>9. CASE StartTake
    BY <1>3, <1>4, <1>5, <1>9 DEF StartTake, Rounds
  <1>10. CASE Submit
    BY <1>3, <1>5, <1>10 DEF Submit, Rounds
  <1>11. CASE PollEnds
    BY <1>3, <1>5, <1>11 DEF PollEnds, Rounds
  <1>12. CASE Fetch
    <2>1. CASE music' = [music EXCEPT !.at = "section", !.section = music.section + 1]
      <3>1. music'.job = music.job /\ music'.count = music.count
        BY <1>1, <2>1 DEF MusicState
      <3> QED
        BY <1>2, <1>12, <3>1 DEF Fetch, Rounds
    <2> QED
      BY <1>3, <1>5, <1>12, <2>1 DEF Fetch, Rounds
  <1>13. CASE Join
    BY <1>3, <1>5, <1>13 DEF Join, Rounds
  <1>14. CASE MusicStops \/ MusicAborted
    BY <1>4, <1>14 DEF MusicStops, MusicAborted
  <1>15. CASE MusicCancel
    <2>1. music'.at = music.at /\ music'.job = music.job /\ music'.count = music.count
      BY <1>1, <1>15 DEF MusicCancel, MusicState
    <2> QED
      BY <2>1 DEF CountInv
  <1> QED
    BY <1>6, <1>7, <1>8, <1>9, <1>10, <1>11, <1>12, <1>13, <1>14, <1>15 DEF MusicNext, MusicStep

\* A song is whole whatever its length, the service's ceiling and the crossfade.
LEMMA CountedIsWhole ==
    ASSUME MusicInv, CountInv, \A job \in MusicJobs : Joinable(job)
    PROVE  SongIsWhole
  <1> SUFFICES ASSUME music.at = "section"
               PROVE  /\ Padded(music.job, music.count) <= music.count * Longest(music.job)
                      /\ music.count > 1 =>
                           Padded(music.job, music.count - 1) > (music.count - 1) * Longest(music.job)
                      /\ Within(Drift(Joined(music.job, music.count, Padded(music.job, music.count)),
                                      Total(music.job)), Total(music.job), 200)
    BY DEF SongIsWhole
  <1>1. music.job \in MusicJobs /\ Joinable(music.job) /\ music.count = TakesOf[music.job]
    BY MusicFields DEF CountInv, Rounds
  <1> QED
    BY <1>1, TakesSettle, JoinedIsWhole

\* A rate of something that never exceeds all there is.
Rate(r) == r \in Nat \X Nat /\ r[2] > 0 /\ r[1] <= r[2]

\* What a review says: its rates are rates, what is wrong is finite, and where nothing
\* is wrong no line is repeated.
Sound(r) ==
    /\ IsFiniteSet(r.issues) /\ Rate(r.rhyme) /\ Rate(r.unique)
    /\ r.issues = {} => r.unique[1] = r.unique[2]

\* A sheet that ends.
Ends(sheet) ==
    IsFiniteSet(DOMAIN sheet) /\ \A i \in DOMAIN sheet : IsFiniteSet(DOMAIN sheet[i].lines)

\* The rates of a draft with something wrong, or with too few rhymes, are below the
\* three halves an acceptable one has at least.
LEMMA BelowTheMark ==
    ASSUME NEW p \in Nat, NEW q \in Nat, NEW g \in Nat, NEW h \in Nat, NEW n \in Nat,
           p <= q, g <= h, q > 0, h > 0, n = 0 => (g = h /\ 2 * p < q)
    PROVE  2 * (p * h + g * q - n * (q * h)) < 3 * (q * h)
  <1>1. /\ p * h \in Nat /\ g * q \in Nat /\ q * h \in Nat /\ n * (q * h) \in Nat
        /\ q * h >= 1 /\ q * h = h * q /\ h * q \in Nat
    OBVIOUS
  <1>2. CASE n = 0
    <2>1. (2 * p + 1) * h <= q * h
      BY <1>2, ProductsGrow
    <2>2. (2 * p + 1) * h = 2 * (p * h) + h
      OBVIOUS
    <2>3. g * q = q * h /\ n * (q * h) = 0
      BY <1>2
    <2> QED
      BY <1>1, <2>1, <2>2, <2>3
  <1>3. CASE n >= 1
    <2>1. p * h <= q * h /\ g * q <= h * q
      BY ProductsGrow
    <2>2. 1 * (q * h) <= n * (q * h)
      BY <1>1, <1>3, ProductsGrow
    <2> QED
      BY <1>1, <2>1, <2>2
  <1> QED
    BY <1>2, <1>3

\* An acceptable draft scores higher than one that is not, whatever their rates.
LEMMA AcceptableWins ==
    ASSUME NEW r, NEW s, Sound(r), Sound(s), Acceptable(r), ~Acceptable(s)
    PROVE  Better(r, s)
  <1>1. PICK a \in Nat, b \in Nat, e \in Nat, f \in Nat :
          /\ a = r.rhyme[1] /\ b = r.rhyme[2] /\ e = r.unique[1] /\ f = r.unique[2]
          /\ b > 0 /\ f > 0 /\ e = f /\ 2 * a >= b
    BY DEF Sound, Rate, Acceptable
  <1> DEFINE p == s.rhyme[1]
             q == s.rhyme[2]
             g == s.unique[1]
             h == s.unique[2]
             n == Cardinality(s.issues)
  <1>2. /\ p \in Nat /\ q \in Nat /\ g \in Nat /\ h \in Nat /\ n \in Nat
        /\ q > 0 /\ h > 0 /\ p <= q /\ g <= h /\ (n = 0 => g = h /\ 2 * p < q)
    <2>1. n \in Nat /\ (n = 0 => s.issues = {})
      BY FS_CardinalityType, FS_EmptySet DEF Sound
    <2>2. p \in Nat /\ q \in Nat /\ g \in Nat /\ h \in Nat /\ q > 0 /\ h > 0 /\ p <= q /\ g <= h
      BY DEF Sound, Rate
    <2>3. s.issues = {} => g = h /\ 2 * p < q
      BY <2>2 DEF Sound, Acceptable
    <2> HIDE DEF p, q, g, h, n
    <2> QED
      BY <2>1, <2>2, <2>3
  <1>3. Cardinality(r.issues) = 0
    BY FS_EmptySet DEF Acceptable
  <1> HIDE DEF p, q, g, h, n
  <1> DEFINE X == p * h + g * q - n * (q * h)
             D == q * h
             B == b * f
             L == a * f + e * b
  <1>4. X \in Int /\ D \in Nat /\ B \in Nat /\ L \in Nat /\ D > 0 /\ B > 0
    <2>1. 1 * h <= q * h /\ 1 * f <= b * f
      BY <1>1, <1>2, ProductsGrow
    <2> QED
      BY <1>1, <1>2, <2>1
  <1>5. 2 * X < 3 * D
    BY <1>2, BelowTheMark
  <1>6. 2 * L >= 3 * B
    <2>1. b * f <= (2 * a) * f
      BY <1>1, ProductsGrow
    <2>2. (2 * a) * f = 2 * (a * f) /\ e * b = b * f
      BY <1>1
    <2> QED
      BY <1>4, <2>1, <2>2
  <1> HIDE DEF X, D, B, L
  <1>7. L * D > X * B
    <2>1. (3 * B) * D <= (2 * L) * D
      BY <1>4, <1>6, ProductsGrow
    <2>2. (2 * X + 1) * B <= (3 * D) * B
      BY <1>4, <1>5, ProductsGrow
    <2>3. /\ (3 * B) * D = 3 * (B * D) /\ (2 * L) * D = 2 * (L * D)
          /\ (2 * X + 1) * B = 2 * (X * B) + B /\ (3 * D) * B = 3 * (B * D)
          /\ B * D \in Int /\ L * D \in Int /\ X * B \in Int
      BY <1>4
    <2> QED
      BY <1>4, <2>1, <2>2, <2>3
  <1>8. Score(r)[1] = L /\ Score(r)[2] = B
    BY <1>1, <1>3, <1>4 DEF Score, L, B
  <1>0. Score(s)[1] = X /\ Score(s)[2] = D
    BY DEF Score, X, D, p, q, g, h, n
  <1> QED
    BY <1>7, <1>8, <1>0 DEF Better

\* So many of a finite set are a rate of it.
LEMMA SomeOfAll ==
    ASSUME NEW all, IsFiniteSet(all), all # {}, NEW some \in SUBSET all
    PROVE  Rate(<<Cardinality(some), Cardinality(all)>>)
  <1>1. Cardinality(all) \in Nat /\ Cardinality(all) # 0
    BY FS_CardinalityType, FS_EmptySet
  <1>2. Cardinality(some) \in Nat /\ Cardinality(some) <= Cardinality(all)
    BY FS_Subset, FS_CardinalityType
  <1> QED
    BY <1>1, <1>2 DEF Rate

\* The lines of a sheet that ends are finitely many.
LEMMA PlacesEnd ==
    ASSUME NEW sheet, Ends(sheet)
    PROVE  IsFiniteSet(Places(sheet))
  <1> DEFINE In == [i \in DOMAIN sheet |-> {i} \X DOMAIN sheet[i].lines]
             T  == {{i} \X DOMAIN sheet[i].lines : i \in DOMAIN sheet}
  <1>1. In \in Surjection(DOMAIN sheet, T)
    BY DEF Surjection
  <1>2. IsFiniteSet(T)
    BY <1>1, FS_Surjection DEF Ends
  <1>3. ASSUME NEW t \in T PROVE IsFiniteSet(t)
    <2>1. PICK i \in DOMAIN sheet : t = {i} \X DOMAIN sheet[i].lines
      OBVIOUS
    <2>2. IsFiniteSet({i})
      BY FS_Singleton
    <2> QED
      BY <2>1, <2>2, FS_Product DEF Ends
  <1> QED
    BY <1>2, <1>3, FS_UNION DEF Places

\* Whatever is said of a sheet that ends is sound.
LEMMA ReviewsAreSound ==
    ASSUME NEW job, NEW sheet, Ends(sheet)
    PROVE  Sound(Review(job, sheet))
  <1> DEFINE parts   == SungSections(sheet)
             all     == Places(sheet)
             verses  == {p \in all : sheet[p[1]].tag \notin Refrains}
             once    == {p \in verses : \A q \in verses \ {p} :
                            LineAt(sheet, q).words # LineAt(sheet, p).words}
             several == {i \in parts : Len(sheet[i].lines) >= 2}
             heard   == {p \in all : p[1] \in several}
             rhymed  == {p \in heard : \E k \in DOMAIN sheet[p[1]].lines :
                            LET other == LineAt(sheet, <<p[1], k>>) IN
                            /\ other.sound = LineAt(sheet, p).sound /\ other.sound # 0
                            /\ other.words # LineAt(sheet, p).words}
             wrong   == {"missing", "thin", "density", "repeated", "refrains", "detail"}
  <1>1. IsFiniteSet(all)
    BY PlacesEnd
  <1>2. CASE parts = {}
    <2>1. Review(job, sheet) = [issues |-> {"empty"}, rhyme |-> <<0, 1>>, unique |-> <<0, 1>>]
      BY <1>2 DEF Review
    <2>2. IsFiniteSet({"empty"})
      BY FS_Singleton
    <2>3. Rate(<<0, 1>>)
      BY DEF Rate
    <2> QED
      BY <2>1, <2>2, <2>3 DEF Sound
  <1>3. CASE parts # {}
    <2>1. PICK issues \in SUBSET wrong :
            /\ once # verses => "repeated" \in issues
            /\ Review(job, sheet) =
                 [issues |-> issues,
                  rhyme  |-> IF heard = {} THEN <<0, 1>>
                             ELSE <<Cardinality(rhymed), Cardinality(heard)>>,
                  unique |-> IF verses = {} THEN <<1, 1>>
                             ELSE <<Cardinality(once), Cardinality(verses)>>]
      BY <1>3 DEF Review
    <2>2. IsFiniteSet(wrong)
      <3>1. IsFiniteSet({"missing"}) /\ IsFiniteSet({"thin"}) /\ IsFiniteSet({"density"})
            /\ IsFiniteSet({"repeated"}) /\ IsFiniteSet({"refrains"}) /\ IsFiniteSet({"detail"})
        BY FS_Singleton
      <3>2. IsFiniteSet({"missing"} \cup {"thin"}) /\ IsFiniteSet({"density"} \cup {"repeated"})
            /\ IsFiniteSet({"refrains"} \cup {"detail"})
        BY <3>1, FS_Union
      <3>3. IsFiniteSet(({"missing"} \cup {"thin"}) \cup ({"density"} \cup {"repeated"}))
        BY <3>2, FS_Union
      <3>4. IsFiniteSet((({"missing"} \cup {"thin"}) \cup ({"density"} \cup {"repeated"}))
                        \cup ({"refrains"} \cup {"detail"}))
        BY <3>2, <3>3, FS_Union
      <3>5. wrong = (({"missing"} \cup {"thin"}) \cup ({"density"} \cup {"repeated"}))
                    \cup ({"refrains"} \cup {"detail"})
        OBVIOUS
      <3> QED
        BY <3>4, <3>5
    <2>3. IsFiniteSet(issues)
      BY <2>2, FS_Subset
    <2>4. IsFiniteSet(heard) /\ IsFiniteSet(verses)
      BY <1>1, FS_Subset
    <2>5. Rate(<<0, 1>>) /\ Rate(<<1, 1>>)
      BY DEF Rate
    <2>6. heard # {} => Rate(<<Cardinality(rhymed), Cardinality(heard)>>)
      BY <2>4, SomeOfAll
    <2>7. verses # {} => Rate(<<Cardinality(once), Cardinality(verses)>>)
      BY <2>4, SomeOfAll
    <2>8. issues = {} => once = verses
      BY <2>1
    <2> HIDE DEF heard, verses, once, rhymed, wrong
    <2> QED
      BY <2>1, <2>3, <2>5, <2>6, <2>7, <2>8 DEF Sound
  <1> QED
    BY <1>2, <1>3

\* A sheet with its blocks and lines in order.
InOrder(sheet) ==
    /\ Len(sheet) \in Nat /\ DOMAIN sheet = 1..Len(sheet)
    /\ \A i \in DOMAIN sheet : /\ Len(sheet[i].lines) \in Nat
                               /\ DOMAIN sheet[i].lines = 1..Len(sheet[i].lines)

\* Such a sheet ends.
LEMMA InOrderEnds ==
    ASSUME NEW sheet, InOrder(sheet)
    PROVE  Ends(sheet)
  <1>1. Len(sheet) \in Int /\ DOMAIN sheet = 1..Len(sheet)
    BY DEF InOrder
  <1>2. IsFiniteSet(DOMAIN sheet)
    BY <1>1, FS_Interval
  <1>3. ASSUME NEW i \in DOMAIN sheet PROVE IsFiniteSet(DOMAIN sheet[i].lines)
    <2>1. Len(sheet[i].lines) \in Int /\ DOMAIN sheet[i].lines = 1..Len(sheet[i].lines)
      BY DEF InOrder
    <2> QED
      BY <2>1, FS_Interval
  <1> QED
    BY <1>2, <1>3 DEF Ends

\* Of some blocks of a sheet there is a longest, and a first one of that length.
LEMMA LongestBlock ==
    ASSUME NEW sheet, InOrder(sheet), NEW some \in SUBSET (DOMAIN sheet), some # {}
    PROVE  \E i \in some :
             /\ \A k \in some : Len(sheet[k].lines) <= Len(sheet[i].lines)
             /\ \A k \in some : k < i => Len(sheet[k].lines) < Len(sheet[i].lines)
  <1> DEFINE size(i) == Len(sheet[i].lines)
             B       == Cardinality(Places(sheet))
  <1>1. IsFiniteSet(Places(sheet)) /\ B \in Nat
    BY InOrderEnds, PlacesEnd, FS_CardinalityType
  <1>2. ASSUME NEW i \in some PROVE size(i) \in Nat /\ size(i) <= B
    <2>1. size(i) \in Nat /\ DOMAIN sheet[i].lines = 1..size(i) /\ i \in DOMAIN sheet
      BY DEF InOrder
    <2>2. {i} \X DOMAIN sheet[i].lines \subseteq Places(sheet)
      BY <2>1 DEF Places
    <2>3. IsFiniteSet({i}) /\ Cardinality({i}) = 1
      BY FS_Singleton
    <2>4. IsFiniteSet(1..size(i)) /\ Cardinality(1..size(i)) = size(i)
      <3>1. size(i) < 1 => size(i) = 0
        BY <2>1
      <3> QED
        BY <2>1, <3>1, FS_Interval
    <2>5. Cardinality({i} \X DOMAIN sheet[i].lines) = 1 * size(i)
      <3>1. Cardinality({i} \X (1..size(i))) = Cardinality({i}) * Cardinality(1..size(i))
        BY <2>3, <2>4, FS_Product
      <3> QED
        BY <2>1, <2>3, <2>4, <3>1
    <2>6. Cardinality({i} \X DOMAIN sheet[i].lines) <= B
      BY <1>1, <2>2, FS_Subset
    <2> QED
      BY <2>1, <2>5, <2>6
  <1> HIDE DEF size, B
  <1>3. PICK m \in {B - size(i) : i \in some} : \A n \in {B - size(i) : i \in some} : m <= n
    <2>1. {B - size(i) : i \in some} \in SUBSET Nat
      BY <1>1, <1>2
    <2>2. {B - size(i) : i \in some} # {}
      OBVIOUS
    <2> QED
      BY <2>1, <2>2, LeastNumber
  <1>4. PICK top \in some : m = B - size(top)
    BY <1>3
  <1>5. \A k \in some : size(k) <= size(top)
    <2> TAKE k \in some
    <2>1. m <= B - size(k)
      BY <1>3
    <2> QED
      BY <1>1, <1>2, <1>4, <2>1
  <1>6. PICK i \in {k \in some : size(k) = size(top)} :
          \A k \in {l \in some : size(l) = size(top)} : i <= k
    <2>1. {k \in some : size(k) = size(top)} \in SUBSET Nat
      BY DEF InOrder
    <2>2. top \in {k \in some : size(k) = size(top)}
      BY <1>4
    <2> QED
      BY <2>1, <2>2, LeastNumber
  <1>7. ASSUME NEW k \in some, k < i PROVE size(k) < size(i)
    <2>1. i \in some /\ size(i) = size(top) /\ size(k) <= size(top)
      BY <1>5, <1>6
    <2>2. size(k) # size(top)
      <3>1. i \in Nat /\ k \in Nat
        BY <1>6 DEF InOrder
      <3> QED
        BY <1>6, <1>7, <3>1
    <2> QED
      BY <1>2, <1>4, <2>1, <2>2
  <1> QED
    BY <1>5, <1>6, <1>7 DEF size

\* Polishing a sheet that ends leaves one that ends.
LEMMA PolishedEnds ==
    ASSUME NEW sheet, InOrder(sheet)
    PROVE  Ends(Polished(sheet))
  <1> DEFINE said(lines) == {k \in DOMAIN lines : k = 1 \/ lines[k].words # lines[k - 1].words}
  <1>1. DOMAIN Polished(sheet) = DOMAIN sheet /\ Ends(sheet)
    BY InOrderEnds DEF Polished
  <1>2. ASSUME NEW i \in DOMAIN sheet
        PROVE  IsFiniteSet(DOMAIN WithoutEchoes(sheet[i].lines))
    <2>1. IsFiniteSet(said(sheet[i].lines))
      BY <1>1, FS_Subset DEF Ends
    <2>2. Cardinality(said(sheet[i].lines)) \in Nat
      BY <2>1, FS_CardinalityType
    <2>3. DOMAIN WithoutEchoes(sheet[i].lines) = 1..Cardinality(said(sheet[i].lines))
      BY DEF WithoutEchoes
    <2> QED
      BY <2>2, <2>3, FS_Interval
  <1>3. ASSUME NEW i \in DOMAIN sheet
        PROVE  \/ \E k \in DOMAIN sheet : Polished(sheet)[i].lines = sheet[k].lines
               \/ Polished(sheet)[i].lines = WithoutEchoes(sheet[i].lines)
    <2> DEFINE refrains == {k \in SungSections(sheet) : sheet[k].tag \in Refrains}
               longest  == CHOOSE k \in refrains :
                        /\ \A l \in refrains : Len(sheet[l].lines) <= Len(sheet[k].lines)
                        /\ \A l \in refrains : l < k => Len(sheet[l].lines) < Len(sheet[k].lines)
    <2>1. Polished(sheet)[i].lines =
            IF i \in refrains THEN sheet[longest].lines ELSE WithoutEchoes(sheet[i].lines)
      BY DEF Polished, Block
    <2>2. refrains \in SUBSET (DOMAIN sheet)
      BY DEF SungSections
    <2>3. i \in refrains => longest \in refrains
      <3> HIDE DEF refrains
      <3> QED
        BY <2>2, LongestBlock
    <2> HIDE DEF refrains, longest
    <2> QED
      BY <2>1, <2>2, <2>3
  <1> QED
    BY <1>1, <1>2, <1>3 DEF Ends
\* Any blocks of any lines, one after the other, are in order.
LEMMA BlocksAreInOrder ==
    ASSUME NEW T, NEW L, NEW sheet \in Seq([tag : T, lines : Seq(L)])
    PROVE  InOrder(sheet)
  <1>1. Len(sheet) \in Nat /\ DOMAIN sheet = 1..Len(sheet)
    OBVIOUS
  <1>2. ASSUME NEW i \in DOMAIN sheet
        PROVE  Len(sheet[i].lines) \in Nat /\ DOMAIN sheet[i].lines = 1..Len(sheet[i].lines)
    <2>1. sheet[i] \in [tag : T, lines : Seq(L)]
      <3> DEFINE B == [tag : T, lines : Seq(L)]
      <3>1. sheet \in Seq(B)
        OBVIOUS
      <3> HIDE DEF B
      <3>2. sheet[i] \in B
        BY <1>1, <3>1
      <3> QED
        BY <3>2 DEF B
    <2>2. sheet[i].lines \in Seq(L)
      BY <2>1
    <2> QED
      BY <2>2
  <1> QED
    BY <1>1, <1>2 DEF InOrder

\* What the local writer's shape has room for is a number.
LEMMA MoreIsNumber ==
    ASSUME NEW job \in SungJobs
    PROVE  Shape[job].more \in Int
  <1>1. job.seconds \in Nat
    BY MusicAssumption DEF SungJobs, MusicAssumption, SongRequest
  <1>2. TargetLines(job) \in Int
    <2>1. Rounded(job.seconds, 8) \in Int /\ job.seconds \div 6 \in Int
      BY <1>1, RoundedType
    <2> QED
      BY <2>1 DEF TargetLines, LineBudget, AtMost, AtLeast
  <1> DEFINE spare == TargetLines(job) - (IF "verse" \in Wanted[job] THEN 2 ELSE 0)
             left  == spare - 2 - (IF spare >= 3 THEN 1 ELSE 0)
             pre   == "pre-chorus" \in Wanted[job] /\ left >= 2
  <1>3. left \in Int
    BY <1>2
  <1>4. Shape[job].more = (IF pre THEN left - 2 ELSE left) \div 2
    BY DEF Shape
  <1> HIDE DEF left, pre
  <1> QED
    BY <1>3, <1>4

\* What the local writer composes is blocks of lines.
LEMMA ComposedIsSheet ==
    ASSUME NEW job \in SungJobs
    PROVE  \E T, L : ComposedSheet[job] \in Seq([tag : T, lines : Seq(L)])
  <1> DEFINE s == Shape[job]
             T == {"verse", "pre-chorus", "bridge", "title", s.tag}
             L == [words : T \X Nat \X Nat, sound : Int, keeps : SUBSET STRING]
             B == [tag : T, lines : Seq(L)]
             grown  == IF s.verse THEN 0 ELSE AtMost(AtLeast(0, s.more), BankSize(s.tag) - 1)
             title  == IF s.title THEN <<Line(<<"title", 0, 0>>, 0, job.titled)>> ELSE <<>>
             refrain == title \o Couplets(s.tag, 1, 1 + grown)
             verse  == IF s.verse THEN <<Block("verse", Couplet("verse", 1))>> ELSE <<>>
             pre    == IF s.pre THEN <<Block("pre-chorus", Couplet("pre-chorus", 1))>> ELSE <<>>
             core   == verse \o pre \o <<Block(s.tag, refrain)>>
             ahead  == IF s.pre THEN 0 ELSE 1
             bridge == "bridge" \in Wanted[job] /\ s.verse /\ s.more > ahead
             verses == IF s.verse THEN AtMost(AtLeast(0, IF bridge THEN s.more - 1 ELSE s.more),
                                              BankSize("verse") - 1) ELSE 0
             blocks == [n \in 1..verses |-> Block("verse", Couplet("verse", n + 1))]
             rest   == IF bridge THEN SubSeq(blocks, 1, ahead) \o <<Block("bridge", Couplet("bridge", 1))>>
                                      \o SubSeq(blocks, ahead + 1, verses)
                       ELSE blocks
  <1>0. /\ "verse" \in T /\ "pre-chorus" \in T /\ "bridge" \in T /\ "title" \in T
        /\ s.tag \in T
    OBVIOUS
  <1>1. ASSUME NEW kind \in T, NEW n \in Nat, NEW many \in Nat
        PROVE  Couplets(kind, n, many) \in Seq(L)
    <2>1. ASSUME NEW k \in 1..(2 * many)
          PROVE  Line(<<kind, n, k>>, n + (k - 1) \div 2, {}) \in L
      <3>1. <<kind, n, k>> \in T \X Nat \X Nat /\ n + (k - 1) \div 2 \in Int
        OBVIOUS
      <3> HIDE DEF T
      <3> QED
        BY <3>1 DEF Line
    <2>2. 2 * many \in Nat
      OBVIOUS
    <2> HIDE DEF L
    <2> QED
      BY <2>1, <2>2 DEF Couplets
  <1>2. s.more \in Int
    BY MoreIsNumber
  <1>3. grown \in Nat /\ verses \in Nat
    <2>1. BankSize(s.tag) \in Nat \ {0} /\ BankSize("verse") \in Nat \ {0}
      BY DEF BankSize
    <2> HIDE DEF s, bridge
    <2> QED
      BY <1>2, <2>1 DEF AtMost, AtLeast
  <1>4. bridge => ahead \in 0..verses
    BY <1>2 DEF AtMost, AtLeast, BankSize
  <1>5. job.titled \in SUBSET STRING
    BY MusicAssumption DEF SungJobs, MusicAssumption, SongRequest
  <1>6. refrain \in Seq(L)
    <2>1. title \in Seq(L)
      <3>1. Line(<<"title", 0, 0>>, 0, job.titled) \in L
        <4>1. <<"title", 0, 0>> \in T \X Nat \X Nat
          BY <1>0
        <4> HIDE DEF T
        <4> QED
          BY <1>5, <4>1 DEF Line
      <3> HIDE DEF L
      <3> QED
        BY <3>1
    <2>2. Couplets(s.tag, 1, 1 + grown) \in Seq(L)
      <3>1. 1 \in Nat /\ 1 + grown \in Nat
        BY <1>3
      <3> HIDE DEF L, grown, T
      <3> QED
        BY <1>0, <1>1, <3>1
    <2> HIDE DEF L, title
    <2> QED
      BY <2>1, <2>2
  <1>7. ASSUME NEW kind \in T, NEW n \in Nat PROVE Couplet(kind, n) \in Seq(L)
    <2> HIDE DEF L, T
    <2> QED
      BY <1>1, <1>7 DEF Couplet
  <1>8. ASSUME NEW kind \in T, NEW lines \in Seq(L) PROVE Block(kind, lines) \in B
    <2> HIDE DEF L, T
    <2> QED
      BY <1>8 DEF Block
  <1> HIDE DEF s, T, L, refrain, B, grown
  <1>10. core \in Seq(B)
    <2>1. Block("verse", Couplet("verse", 1)) \in B /\ Block("pre-chorus", Couplet("pre-chorus", 1)) \in B
          /\ Block(s.tag, refrain) \in B
      BY <1>6, <1>7, <1>8, <1>0
    <2>2. verse \in Seq(B) /\ pre \in Seq(B) /\ <<Block(s.tag, refrain)>> \in Seq(B)
      BY <2>1
    <2> HIDE DEF verse, pre
    <2> QED
      BY <2>2
  <1> HIDE DEF core, bridge, verses
  <1>11. blocks \in Seq(B) /\ Len(blocks) = verses
    <2>1. ASSUME NEW n \in 1..verses PROVE Block("verse", Couplet("verse", n + 1)) \in B
      BY <1>3, <1>7, <1>8, <1>0
    <2> QED
      BY <1>3, <2>1
  <1> HIDE DEF blocks
  <1>12. rest \in Seq(B)
    <2>1. CASE bridge
      <3>1. SubSeq(blocks, 1, ahead) \in Seq(B) /\ SubSeq(blocks, ahead + 1, verses) \in Seq(B)
        <4>1. /\ \A i \in 1..ahead : blocks[i] \in B
              /\ \A i \in (ahead + 1)..verses : blocks[i] \in B
              /\ ahead \in Int /\ verses \in Int
          BY <1>3, <1>4, <1>11, <2>1
        <4> HIDE DEF ahead
        <4> QED
          BY <4>1, SubSeqProperties
      <3>2. <<Block("bridge", Couplet("bridge", 1))>> \in Seq(B)
        BY <1>7, <1>8, <1>0
      <3> HIDE DEF ahead
      <3> QED
        BY <2>1, <3>1, <3>2
    <2>2. CASE ~bridge
      BY <1>11, <2>2
    <2> QED
      BY <2>1, <2>2
  <1> HIDE DEF rest
  <1>13. ComposedSheet[job] = core \o rest
    BY DEF ComposedSheet, Composed, core, rest, s, blocks, bridge, verses, grown, refrain
  <1>14. ComposedSheet[job] \in Seq(B)
    BY <1>10, <1>12, <1>13
  <1> QED
    BY <1>14 DEF B
\* Details worked into a sheet leave it in order.
LEMMA DetailsKeepOrder ==
    ASSUME NEW T, NEW L, NEW sheet \in Seq([tag : T, lines : Seq(L)]), NEW missing
    PROVE  InOrder(WithDetails(sheet, missing))
  <1> DEFINE two    == ToSet(SubSeq(missing, 1, AtMost(2, Len(missing))))
             verses == {i \in DOMAIN sheet : sheet[i].tag = "verse"}
             at     == CHOOSE i \in verses : \A k \in verses : k <= i
             couplet == <<Line(<<"detail", 0, 1>>, 99, two), Line(<<"detail", 0, 2>>, 99, {})>>
             first  == [sheet[1].lines EXCEPT ![1].keeps = @ \cup two]
             with   == WithDetails(sheet, missing)
  <1>1. InOrder(sheet)
    BY BlocksAreInOrder
  <1>2. \/ with = sheet
        \/ with = [sheet EXCEPT ![at] = Block("verse", couplet)]
        \/ with = [sheet EXCEPT ![1] = Block(sheet[1].tag, first)]
    BY DEF WithDetails
  <1>3. ASSUME NEW k, NEW b, with = [sheet EXCEPT ![k] = b],
               k \in DOMAIN sheet => /\ Len(b.lines) \in Nat /\ DOMAIN b.lines = 1..Len(b.lines)
        PROVE  InOrder(with)
    <2>1. DOMAIN with = DOMAIN sheet /\ Len(with) = Len(sheet)
      BY <1>3
    <2>2. ASSUME NEW i \in DOMAIN sheet
          PROVE  Len(with[i].lines) \in Nat /\ DOMAIN with[i].lines = 1..Len(with[i].lines)
      BY <1>1, <1>3, <2>2 DEF InOrder
    <2> QED
      BY <1>1, <2>1, <2>2 DEF InOrder
  <1>4. Len(couplet) \in Nat /\ DOMAIN couplet = 1..Len(couplet) /\ Block("verse", couplet).lines = couplet
    BY DEF Block
  <1>5. 1 \in DOMAIN sheet => /\ Len(first) \in Nat /\ DOMAIN first = 1..Len(first)
    <2> SUFFICES ASSUME 1 \in DOMAIN sheet PROVE Len(first) \in Nat /\ DOMAIN first = 1..Len(first)
      OBVIOUS
    <2>1. Len(sheet[1].lines) \in Nat /\ DOMAIN sheet[1].lines = 1..Len(sheet[1].lines)
      BY <1>1 DEF InOrder
    <2>2. DOMAIN first = 1..Len(sheet[1].lines)
      BY <2>1
    <2>3. Len(first) = Len(sheet[1].lines)
      BY <2>1, <2>2
    <2> QED
      BY <2>1, <2>2, <2>3
  <1>6. Block(sheet[1].tag, first).lines = first
    BY DEF Block
  <1> HIDE DEF with, couplet, first, at
  <1>7. with = [sheet EXCEPT ![at] = Block("verse", couplet)] => InOrder(with)
    BY <1>3, <1>4
  <1>8. with = [sheet EXCEPT ![1] = Block(sheet[1].tag, first)] => InOrder(with)
    BY <1>3, <1>5, <1>6
  <1>9. InOrder(with)
    BY <1>1, <1>2, <1>7, <1>8
  <1> QED
    BY <1>9 DEF with

\* Every draft's review is sound.
LEMMA DraftsAreSound ==
    ASSUME NEW draft \in SongDrafts
    PROVE  Sound(draft.review)
  <1>1. ASSUME NEW author, NEW job, NEW sheet, NEW wrong, InOrder(sheet),
               draft = ReviewedDraft(author, job, sheet, wrong)
        PROVE  Sound(draft.review)
    BY <1>1, PolishedEnds, ReviewsAreSound DEF ReviewedDraft
  <1>2. CASE draft \in {LocalDraft[job] : job \in SungJobs}
    <2>1. PICK job \in SungJobs : draft = LocalDraft[job]
      BY <1>2
    <2>2. InOrder(LocalSheet(job))
      BY ComposedIsSheet, DetailsKeepOrder DEF LocalSheet
    <2> QED
      BY <1>1, <2>1, <2>2 DEF LocalDraft
  <1>3. CASE draft \in UNION {HostedDrafts[job] : job \in {j \in SungJobs : j.key}}
    <2>1. PICK job \in SungJobs : job.key /\ draft \in HostedDrafts[job]
      BY <1>3
    <2>2. PICK answer \in HostedSheets :
            draft = ReviewedDraft("cerebras", job, answer.sheet, ReadsWrong(Language(job), answer.reads))
      BY <2>1 DEF HostedDrafts
    <2>3. InOrder(answer.sheet)
      BY MusicAssumption, BlocksAreInOrder DEF MusicAssumption, Sheet
    <2> QED
      BY <1>1, <2>2, <2>3
  <1> QED
    BY <1>2, <1>3 DEF SongDrafts
\* Until its words are chosen, a song has no draft worth singing.
BestInv ==
    /\ music.at = "planning" => music.best = <<>> /\ music.asked = {}
    /\ music.at = "writing" =>
         /\ music.best # <<>> => ~Acceptable(music.best[1].review)
         /\ FewDetails(music.job) => "template" \notin music.asked
    /\ AcceptableIsShipped

\* A draft that is judged: sung if it is acceptable, for none before it was.
LEMMA DraftedKeepsBest ==
    ASSUME MusicInv, BestInv, music.at = "writing", NEW asked \in SUBSET Writers,
           NEW draft \in SongDrafts, music' = Drafted([music EXCEPT !.asked = asked], draft),
           FewDetails(music.job) /\ "template" \in asked => Acceptable(draft.review)
    PROVE  BestInv'
  <1>1. music \in MusicState
    BY DEF MusicInv
  <1> DEFINE m      == [music EXCEPT !.asked = asked]
             better == music.best = <<>> \/ Better(draft.review, music.best[1].review)
             best   == IF better THEN <<draft>> ELSE music.best
             kept   == [m EXCEPT !.best = best]
  <1>2. IF Acceptable(draft.review) \/ music.round = 2
        THEN music' = [kept EXCEPT !.fit = Acceptable(draft.review), !.words = "written",
                                   !.at = "sections"]
        ELSE music' = [kept EXCEPT !.round = 2, !.chain = music.job.writers, !.tries = 1]
    <2>1. m.best = music.best /\ m.round = music.round /\ m.job = music.job
      BY <1>1 DEF MusicState
    <2>2. kept = [m EXCEPT !.best = IF m.best = <<>> \/ Better(draft.review, m.best[1].review)
                                    THEN <<draft>> ELSE @]
      BY <2>1
    <2> HIDE DEF m, better, best
    <2> QED
      BY <2>1, <2>2 DEF Drafted, m
  <1>3. Acceptable(draft.review) => better
    <2> SUFFICES ASSUME Acceptable(draft.review), music.best # <<>>
                 PROVE  Better(draft.review, music.best[1].review)
      OBVIOUS
    <2>1. PICK d \in SongDrafts : music.best = <<d>>
      BY <1>1 DEF MusicState
    <2>2. ~Acceptable(d.review)
      BY <2>1 DEF BestInv
    <2> QED
      BY <2>1, <2>2, DraftsAreSound, AcceptableWins
  <1>4. /\ kept.job = music.job /\ kept.best = best /\ kept.asked = asked /\ kept.at = music.at
        /\ DOMAIN kept = DOMAIN music /\ {"fit", "words", "at", "best", "asked", "job", "round"} \subseteq DOMAIN kept
    BY <1>1 DEF MusicState
  <1>5. best # <<>> /\ (best[1] = draft \/ (~better /\ best = music.best))
    OBVIOUS
  <1> HIDE DEF better, best, m, kept
  <1>6. CASE Acceptable(draft.review) \/ music.round = 2
    <2>1. /\ music'.at = "sections" /\ music'.job = music.job /\ music'.best = best
          /\ music'.fit = Acceptable(draft.review) /\ music'.asked = asked
      BY <1>2, <1>4, <1>6
    <2>2. Acceptable(draft.review) => Acceptable(best[1].review)
      BY <1>3, <1>5
    <2> QED
      BY <2>1, <2>2 DEF BestInv, AcceptableIsShipped
  <1>7. CASE ~(Acceptable(draft.review) \/ music.round = 2)
    <2>1. /\ music'.at = "writing" /\ music'.job = music.job /\ music'.best = best
          /\ music'.asked = asked
      BY <1>2, <1>4, <1>7
    <2>2. ~Acceptable(best[1].review)
      BY <1>5, <1>7 DEF BestInv, better
    <2>3. FewDetails(music.job) => "template" \notin asked
      BY <1>7
    <2> QED
      BY <2>1, <2>2, <2>3 DEF BestInv, AcceptableIsShipped
  <1> QED
    BY <1>6, <1>7

\* No step of a song loses an acceptable draft.
LEMMA BestStays ==
    ASSUME MusicInv, BestInv, MusicNext \/ UNCHANGED musicVars,
           \A job \in SungJobs : LocalFits(job)
    PROVE  BestInv'
  <1> USE DEF MusicTo
  <1>1. music \in MusicState /\ (music.at = "writing" => music.job \in SungJobs)
    BY DEF MusicInv
  <1>2. ASSUME music'.at \notin {"planning", "writing", "sections"} PROVE BestInv'
    BY <1>2 DEF BestInv, AcceptableIsShipped
  <1>3. ASSUME music'.at = music.at, music'.job = music.job, music'.best = music.best,
               music'.asked = music.asked, music'.fit = music.fit, music'.words = music.words
        PROVE  BestInv'
    BY <1>3 DEF BestInv, AcceptableIsShipped
  <1>4. ASSUME NEW why, NEW retry, music' = MusicFailing(music, why, retry)
        PROVE  BestInv'
    BY <1>1, <1>2, <1>4 DEF MusicFailing, MusicState
  <1>5. ASSUME NEW at \in {"cancelled", "section", "submitting", "polling", "fetching", "joining",
                           "delivered"}, music' = [music EXCEPT !.at = at]
        PROVE  BestInv'
    BY <1>1, <1>2, <1>5 DEF MusicState
  <1>6. ASSUME music' = [music EXCEPT !.tries = @ + 1] \/ music' = NextWriter(music)
        PROVE  BestInv'
    BY <1>1, <1>3, <1>6 DEF MusicState, NextWriter
  <1>7. CASE UNCHANGED musicVars
    BY <1>3, <1>7 DEF musicVars
  <1>8. CASE PlanSong
    <2>1. music.best = <<>> /\ music.asked = {} /\ music.at = "planning" /\ music.words = "none"
      BY <1>8 DEF PlanSong, BestInv, MusicInv
    <2>2. CASE music' = [music EXCEPT !.at = "sections", !.words = "supplied"]
      <3>1. music'.at = "sections" /\ music'.words = "supplied"
        BY <1>1, <2>2 DEF MusicState
      <3> QED
        BY <3>1 DEF BestInv, AcceptableIsShipped
    <2>3. CASE music' = [music EXCEPT !.at = "sections"]
      <3>1. music'.at = "sections" /\ music'.words = "none"
        BY <1>1, <2>1, <2>3 DEF MusicState
      <3> QED
        BY <3>1 DEF BestInv, AcceptableIsShipped
    <2>4. CASE music' = [music EXCEPT !.at = "writing", !.chain = music.job.writers]
      <3>1. music'.at = "writing" /\ music'.best = <<>> /\ music'.asked = {}
        BY <1>1, <2>1, <2>4 DEF MusicState
      <3> QED
        BY <3>1 DEF BestInv, AcceptableIsShipped
    <2> QED
      BY <1>4, <1>8, <2>2, <2>3, <2>4 DEF PlanSong
  <1>9. CASE SkipWriter
    BY <1>6, <1>9 DEF SkipWriter
  <1>10. CASE HostedAnswers
    <2>1. PICK draft \in HostedDrafts[music.job] :
            music' = IF ~draft.wrong THEN Drafted(music, draft)
                     ELSE IF music.tries < HostedTries THEN [music EXCEPT !.tries = @ + 1]
                     ELSE NextWriter(music)
      BY <1>10 DEF HostedAnswers
    <2>2. CASE music' = Drafted(music, draft)
      <3>1. draft \in SongDrafts
        BY <1>1, <1>10 DEF SongDrafts, HostedAnswers, Writing
      <3>2. [music EXCEPT !.asked = music.asked] = music /\ music.asked \in SUBSET Writers
        BY <1>1 DEF MusicState
      <3>3. FewDetails(music.job) => "template" \notin music.asked
        BY <1>10 DEF BestInv, HostedAnswers, Writing
      <3> QED
        BY <1>10, <2>2, <3>1, <3>2, <3>3, DraftedKeepsBest DEF HostedAnswers, Writing
    <2> QED
      BY <1>6, <2>1, <2>2
  <1>11. CASE HostedFails
    BY <1>6, <1>11 DEF HostedFails
  <1>12. CASE LocalWrites
    <2>1. PICK draft, asked : draft = LocalDraft[music.job] /\ asked = music.asked \cup {"template"}
      OBVIOUS
    <2>2. music.at = "writing" /\ music' = Drafted([music EXCEPT !.asked = asked], draft)
      BY <1>12, <2>1 DEF LocalWrites, Writing
    <2>3. draft \in SongDrafts /\ asked \in SUBSET Writers
      BY <1>1, <2>1, <2>2 DEF SongDrafts, Writers, MusicState
    <2>4. FewDetails(music.job) => Acceptable(draft.review)
      BY <1>1, <2>1, <2>2 DEF LocalFits
    <2> QED
      BY <2>2, <2>3, <2>4, DraftedKeepsBest
  <1>13. CASE NobodyWrites
    BY <1>4, <1>13 DEF NobodyWrites
  <1>14. CASE PlanTakes
    <2>1. music'.at = "section"
      BY <1>1, <1>14 DEF PlanTakes, MusicState
    <2> QED
      BY <1>2, <2>1
  <1>15. CASE StartTake \/ Submit \/ PollEnds \/ Join
    BY <1>4, <1>5, <1>15 DEF StartTake, Submit, PollEnds, Join
  <1>16. CASE Fetch
    <2>1. CASE music' = [music EXCEPT !.at = "section", !.section = music.section + 1]
      <3>1. music'.at = "section"
        BY <1>1, <2>1 DEF MusicState
      <3> QED
        BY <1>2, <3>1
    <2> QED
      BY <1>4, <1>5, <1>16, <2>1 DEF Fetch
  <1>17. CASE MusicStops \/ MusicAborted
    BY <1>5, <1>17 DEF MusicStops, MusicAborted
  <1>18. CASE MusicCancel
    BY <1>1, <1>3, <1>18 DEF MusicCancel, MusicState
  <1> QED
    BY <1>7, <1>8, <1>9, <1>10, <1>11, <1>12, <1>13, <1>14, <1>15, <1>16, <1>17, <1>18
       DEF MusicNext, MusicStep

(***************************************************************************)
(* Numbers of a plan: division, rounding, the least and the greatest.      *)
(***************************************************************************)
\* What is rounded is at most half away.
LEMMA RoundedNear ==
    ASSUME NEW a \in Int, NEW b \in Nat \ {0}
    PROVE  /\ Rounded(a, b) \in Int
           /\ 2 * (Rounded(a, b) * b) <= 2 * a + b /\ 2 * a <= 2 * (Rounded(a, b) * b) + b
  <1> DEFINE q == a \div b
             r == a % b
  <1>1. q \in Int /\ r \in 0..(b - 1) /\ a = q * b + r
    BY DivBounds
  <1>2. Rounded(a, b) = IF 2 * r > b \/ (2 * r = b /\ q % 2 = 1) THEN q + 1 ELSE q
    BY DEF Rounded
  <1> HIDE DEF q, r
  <1>3. (q + 1) * b = q * b + b
    BY <1>1
  <1>4. CASE 2 * r > b \/ (2 * r = b /\ q % 2 = 1)
    <2>1. Rounded(a, b) = q + 1
      BY <1>2, <1>4
    <2> QED
      BY <1>1, <1>3, <1>4, <2>1
  <1>5. CASE ~(2 * r > b \/ (2 * r = b /\ q % 2 = 1))
    <2>1. Rounded(a, b) = q /\ 2 * r <= b
      BY <1>1, <1>2, <1>5
    <2> QED
      BY <1>1, <2>1
  <1> QED
    BY <1>4, <1>5

(***************************************************************************)
(* The passes: what a handler asks of them, and the frame counts they are  *)
(* rendered with.                                                          *)
(***************************************************************************)
\* What is at most C times b rounds to C at most.
LEMMA RoundedAtMost ==
    ASSUME NEW a \in Int, NEW b \in Nat \ {0}, NEW C \in Int, a <= C * b
    PROVE  Rounded(a, b) <= C
  <1> DEFINE R == Rounded(a, b)
  <1>1. R \in Int /\ 2 * (R * b) <= 2 * a + b
    BY RoundedNear
  <1> HIDE DEF R
  <1>2. ASSUME R >= C + 1 PROVE FALSE
    <2>1. R * b >= (C + 1) * b
      BY <1>1, <1>2
    <2>2. (C + 1) * b = C * b + b
      OBVIOUS
    <2> QED
      BY <1>1, <2>1, <2>2
  <1> QED
    BY <1>1, <1>2 DEF R
\* What a handler asks for, in any workflow.
LEMMA HandlerAsks ==
    ASSUME NEW job \in VideoRequest
    PROVE  /\ PassCeiling(job) \in Int /\ PassCeiling(job) >= Second
           /\ \/ Tier(job) = "distilled" /\ PassCeiling(job) <= GridCeiling[job.grid] * Second
              \/ Tier(job) = "ic_lora" /\ PassCeiling(job) <= 8 * Second
              \/ Tier(job) = "a2v" /\ PassCeiling(job) = 481 * Frame
              \/ Tier(job) = "guided" /\ PassCeiling(job) = 5 * Second
           /\ Handler(job).stills \in {0, 3} /\ Handler(job).oneTrack \in BOOLEAN
           /\ Handler(job).oneTrack => job.kind \in {"restyle", "transform", "music"}
  <1>1. /\ job.kind \in {"generation", "extension", "restyle", "transform", "music"}
        /\ job.max \in Nat \ {0} /\ job.grid \in Grids
    BY DEF VideoRequest
  <1>2. GridCeiling[job.grid] \in {10, 30, 60}
    BY <1>1 DEF Grids, GridCeiling
  <1>3. PerPass(job) \in Int /\ PerPass(job) >= Second /\ PerPass(job) <= GridCeiling[job.grid] * Second
    BY <1>1, <1>2 DEF PerPass, AtMost, Second
  <1>4. CASE job.kind = "generation"
    <2>1. Handler(job) = Generation(job)
      BY <1>4 DEF Handler
    <2>2. CASE job.option
      <3>1. Handler(job) = [Asks("guided", 5 * Second) EXCEPT !.keeps = job.still, !.checked = TRUE, !.floor = 180]
        BY <2>1, <2>2 DEF Generation
      <3> QED
        BY <1>4, <3>1 DEF Asks, Tier, PassCeiling, Second
    <2>3. CASE ~job.option
      <3>1. Handler(job) = [Asks("distilled", PerPass(job)) EXCEPT !.keeps = job.still, !.checked = TRUE, !.floor = 180]
        BY <2>1, <2>3 DEF Generation
      <3> QED
        BY <1>3, <1>4, <3>1 DEF Asks, Tier, PassCeiling
    <2> QED
      BY <2>2, <2>3
  <1>5. CASE job.kind = "extension"
    <2>1. Handler(job) = Extension(job)
      BY <1>5 DEF Handler
    <2>2. PICK c \in Int : /\ c = IF job.directed THEN AtMost(PerPass(job), 30 * Second) ELSE PerPass(job)
                           /\ c >= Second /\ c <= GridCeiling[job.grid] * Second
      BY <1>2, <1>3 DEF AtMost, Second
    <2>3. Handler(job) = [Asks("distilled", c) EXCEPT !.seeded = TRUE, !.keeps = job.still, !.measures = TRUE, !.floor = 360]
      BY <2>1, <2>2 DEF Extension
    <2> QED
      BY <1>5, <2>2, <2>3 DEF Asks, Tier, PassCeiling
  <1>6. CASE job.kind = "restyle"
    <2>1. Handler(job) = Restyle(job)
      BY <1>6 DEF Handler
    <2> QED
      BY <1>3, <1>6, <2>1 DEF Restyle, Asks, Tier, PassCeiling
  <1>7. CASE job.kind = "transform"
    <2>1. Handler(job) = Transform(job)
      BY <1>7 DEF Handler
    <2>2. PICK c \in Int : c = AtMost(PerPass(job), 8 * Second) /\ c >= Second /\ c <= 8 * Second
      BY <1>3 DEF AtMost, Second
    <2> QED
      BY <1>7, <2>1, <2>2 DEF Transform, Asks, Tier, PassCeiling
  <1>8. CASE job.kind = "music"
    <2>1. Handler(job) = MusicVideo(job)
      BY <1>8 DEF Handler
    <2>2. CASE job.option
      <3>1. Handler(job) = [Asks("a2v", 481 * Frame) EXCEPT !.measures = TRUE, !.oneTrack = TRUE]
        BY <2>1, <2>2 DEF MusicVideo
      <3> QED
        BY <1>8, <3>1 DEF Asks, Tier, PassCeiling, Second, Frame
    <2>3. CASE ~job.option
      <3>1. Handler(job) = [Asks("distilled", PerPass(job)) EXCEPT !.measures = TRUE, !.oneTrack = TRUE]
        BY <2>1, <2>3 DEF MusicVideo
      <3> QED
        BY <1>3, <1>8, <3>1 DEF Asks, Tier, PassCeiling
    <2> QED
      BY <2>2, <2>3
  <1> QED
    BY <1>1, <1>4, <1>5, <1>6, <1>7, <1>8

\* The minimum of a set of naturals is its least member.
LEMMA MinIsLeast ==
    ASSUME NEW S \in SUBSET Nat, S # {}
    PROVE  Min(S) \in S /\ \A x \in S : Min(S) <= x
  <1>1. \E x \in S : \A y \in S : x <= y
    BY LeastNumber
  <1> QED
    BY <1>1 DEF Min

\* The least count of the lattice that is enough.
LEMMA ConformingIs ==
    ASSUME NEW frames \in Nat \ {0}
    PROVE  /\ Conforming(frames) \in Nat /\ Conforming(frames) % 8 = 1
           /\ Conforming(frames) >= frames /\ Conforming(frames) < frames + 8
  BY DEF Conforming

\* No count that a decoder was seen to die on is safe, and a safe one is enough.
LEMMA SafeCounts ==
    ASSUME NEW grid, NEW frames \in Nat \ {0}, NEW conditioned \in BOOLEAN
    PROVE  /\ SafeFrameCount(grid, frames, conditioned) \in Nat
           /\ SafeFrameCount(grid, frames, conditioned) >= frames
           /\ conditioned => SafeFrameCount(grid, frames, conditioned)
                               \notin {361, 721, 1381, 1437, 1440, 1464}
           /\ conditioned /\ frames \in TwoImageSafe =>
                SafeFrameCount(grid, frames, conditioned) = frames
           /\ ~conditioned /\ grid \in {"wide", "tall"} =>
                SafeFrameCount(grid, frames, conditioned) # 240
  <1> DEFINE proven == {c \in MeasuredSafe : frames <= c /\ c <= Conforming(frames)}
             bands  == IF conditioned THEN ConditionedBands ELSE UnconditionedBands(grid)
             hit    == {b \in bands : b[1] <= Conforming(frames) /\ Conforming(frames) <= b[2]}
             safe   == SafeFrameCount(grid, frames, conditioned)
  <1>1. /\ Conforming(frames) \in Nat /\ Conforming(frames) % 8 = 1
        /\ Conforming(frames) >= frames /\ Conforming(frames) < frames + 8
    BY ConformingIs
  <1>2. safe = IF conditioned /\ proven # {} THEN Min(proven)
               ELSE IF hit # {} THEN (CHOOSE b \in hit : TRUE)[3]
               ELSE Conforming(frames)
    BY DEF SafeFrameCount
  <1>3. \A b \in bands : /\ b \in Nat \X Nat \X Nat /\ b[2] < b[3]
                         /\ b[3] \in IF conditioned THEN {720, 1289, 1385, 1441, 1528}
                                     ELSE {248, 736}
    <2>1. CASE conditioned
      <3>1. bands = {<<361, 719, 720>>, <<721, 1288, 1289>>, <<1290, 1384, 1385>>,
                     <<1386, 1440, 1441>>, <<1442, 1527, 1528>>}
        BY <2>1 DEF ConditionedBands
      <3> QED
        BY <2>1, <3>1
    <2>2. CASE ~conditioned
      <3>1. bands \subseteq {<<233, 247, 248>>, <<714, 735, 736>>}
        <4>1. CASE grid \in {"wide", "tall"}
          BY <2>2, <4>1 DEF UnconditionedBands
        <4>2. CASE grid = "square"
          BY <2>2, <4>2 DEF UnconditionedBands
        <4>3. CASE grid \notin {"wide", "tall"} /\ grid # "square"
          BY <2>2, <4>3 DEF UnconditionedBands
        <4> QED
          BY <4>1, <4>2, <4>3
      <3> QED
        BY <2>2, <3>1
    <2> QED
      BY <2>1, <2>2
  <1>4. conditioned => {<<361, 719, 720>>, <<721, 1288, 1289>>} \subseteq bands
    BY DEF ConditionedBands
  <1> HIDE DEF bands, safe
  <1>5. CASE conditioned /\ proven # {}
    <2>1. safe \in proven /\ \A c \in proven : safe <= c
      <3>1. proven \in SUBSET Nat
        BY DEF MeasuredSafe
      <3> HIDE DEF proven
      <3> QED
        BY <1>2, <1>5, <3>1, MinIsLeast
    <2>2. safe \in {120, 240, 360, 720, 1289, 1385, 1441, 1528} /\ frames <= safe
      BY <2>1 DEF MeasuredSafe
    <2>3. frames \in TwoImageSafe => frames \in proven
      BY <1>1 DEF TwoImageSafe, MeasuredSafe
    <2>4. frames \in TwoImageSafe => safe = frames
      <3>1. frames \in TwoImageSafe => safe <= frames
        BY <2>1, <2>3
      <3> QED
        BY <2>2, <3>1
    <2>5. safe \in Nat /\ safe \notin {361, 721, 1381, 1437, 1440, 1464}
      BY <2>2
    <2> QED
      BY <1>5, <2>2, <2>4, <2>5 DEF safe
  <1>6. CASE ~(conditioned /\ proven # {}) /\ hit # {}
    <2>1. PICK b \in hit : safe = b[3]
      <3>1. (CHOOSE b \in hit : TRUE) \in hit
        <4> HIDE DEF hit
        <4> QED
          BY <1>6
      <3> QED
        BY <1>2, <1>6, <3>1
    <2>2. /\ b \in Nat \X Nat \X Nat /\ b[2] < b[3] /\ Conforming(frames) <= b[2]
          /\ b[3] \in IF conditioned THEN {720, 1289, 1385, 1441, 1528} ELSE {248, 736}
      BY <1>3, <2>1
    <2>3. conditioned => frames \notin TwoImageSafe
      BY <1>1, <1>6 DEF TwoImageSafe, MeasuredSafe
    <2> QED
      BY <1>1, <2>1, <2>2, <2>3 DEF safe
  <1>7. CASE ~(conditioned /\ proven # {}) /\ hit = {}
    <2>1. safe = Conforming(frames)
      BY <1>2, <1>7
    <2>2. conditioned => frames \notin TwoImageSafe
      BY <1>1, <1>7 DEF TwoImageSafe, MeasuredSafe
    <2>3. conditioned => Conforming(frames) \notin 361..719 /\ Conforming(frames) \notin 721..1288
      <3> SUFFICES ASSUME conditioned
                   PROVE  Conforming(frames) \notin 361..719 /\ Conforming(frames) \notin 721..1288
        OBVIOUS
      <3>1. <<361, 719, 720>> \notin hit /\ <<721, 1288, 1289>> \notin hit
        BY <1>7
      <3> QED
        BY <1>1, <1>4, <3>1
    <2> QED
      BY <1>1, <2>1, <2>2, <2>3 DEF safe
  <1> QED
    BY <1>5, <1>6, <1>7

VideoPlan == [den : Nat \ {0}, cuts : {c \in Seq(Int) : Len(c) > 1}]

\* A plan's parts are numbers, and its windows have frames.
LEMMA PlanFields ==
    ASSUME NEW plan \in VideoPlan
    PROVE  /\ plan.den \in Nat \ {0} /\ Sections(plan) \in Nat \ {0}
           /\ \A i \in 1..(Sections(plan) + 1) : plan.cuts[i] \in Int
           /\ \A i \in 1..Sections(plan) : /\ plan.cuts[i] \in Int /\ plan.cuts[i + 1] \in Int
                                           /\ Window(plan, i) \in Int
                                           /\ FramesOf(plan, i) \in Nat \ {0}
  <1>1. plan.den \in Nat \ {0} /\ plan.cuts \in Seq(Int) /\ Len(plan.cuts) > 1
    BY DEF VideoPlan
  <1>2. Sections(plan) \in Nat \ {0} /\ Len(plan.cuts) = Sections(plan) + 1
    <2>1. PICK c \in Seq(Int) : c = plan.cuts /\ Len(c) > 1
      BY <1>1
    <2>2. PICK m \in Nat : m = Len(c) /\ m > 1 /\ m - 1 \in Nat \ {0} /\ m = m - 1 + 1
      BY <2>1
    <2>3. Sections(plan) = m - 1 /\ Len(plan.cuts) = m
      BY <2>1, <2>2 DEF Sections
    <2> QED
      BY <2>2, <2>3
  <1>3. \A i \in 1..(Sections(plan) + 1) : plan.cuts[i] \in Int
    BY <1>1, <1>2
  <1>4. ASSUME NEW i \in 1..Sections(plan)
        PROVE  /\ plan.cuts[i] \in Int /\ plan.cuts[i + 1] \in Int
               /\ Window(plan, i) \in Int /\ FramesOf(plan, i) \in Nat \ {0}
    <2>1. i \in 1..(Sections(plan) + 1) /\ i + 1 \in 1..(Sections(plan) + 1)
      BY <1>2
    <2>2. Window(plan, i) \in Int /\ Frame * plan.den \in Nat \ {0}
      <3>1. PICK a \in Int, b \in Int : a = plan.cuts[i] /\ b = plan.cuts[i + 1]
        BY <1>3, <2>1
      <3>2. Window(plan, i) \in Int
        BY <3>1 DEF Window
      <3> QED
        BY <1>1, <3>2 DEF Frame
    <2>3. Rounded(Window(plan, i), Frame * plan.den) \in Int
      BY <2>2, RoundedType
    <2> QED
      BY <1>3, <2>1, <2>2, <2>3 DEF FramesOf, AtLeast
  <1> QED
    BY <1>1, <1>2, <1>3, <1>4

\* A pass of a window within its ceiling is at least as long as the window, and its
\* decoder does not die on it.
LEMMA PassesAreSafe ==
    ASSUME NEW job \in VideoRequest, NEW plan \in VideoPlan, NEW i \in 1..Sections(plan),
           Window(plan, i) <= PassCeiling(job) * plan.den
    PROVE  /\ RenderedFrames(job, plan, i) \in Nat
           /\ RenderedFrames(job, plan, i) >= FramesOf(plan, i)
           /\ RenderedFrames(job, plan, i) \notin Deadly(job, Images(job, plan, i))
  <1> DEFINE wanted == FramesOf(plan, i)
             window == Window(plan, i)
             proven == {c \in Landings[Tier(job)] : c >= Conforming(wanted)}
             count  == RenderedFrames(job, plan, i)
             images == Images(job, plan, i)
             seam   == IF i > 1 \/ Handler(job).seeded THEN 1 ELSE 0
             anchor == IF Handler(job).keeps /\ (seam = 0 \/ wanted \in TwoImageSafe) THEN 1 ELSE 0
  <1>1. plan.den \in Nat \ {0} /\ window \in Int /\ wanted \in Nat \ {0}
    BY PlanFields
  <1>2. ASSUME NEW C \in Nat \ {0}, PassCeiling(job) <= C * Frame PROVE wanted <= C
    <2>1. PassCeiling(job) * plan.den <= (C * Frame) * plan.den
      <3>1. PassCeiling(job) \in Int
        BY HandlerAsks
      <3> QED
        BY <1>1, <1>2, <3>1 DEF Frame
    <2>2. (C * Frame) * plan.den = C * (Frame * plan.den)
      BY <1>1 DEF Frame
    <2>3. window <= C * (Frame * plan.den)
      <3>1. PassCeiling(job) * plan.den \in Int
        BY <1>1, HandlerAsks
      <3> QED
        BY <1>1, <2>1, <2>2, <3>1 DEF Frame
    <2>4. Frame * plan.den \in Nat \ {0}
      BY <1>1 DEF Frame
    <2>5. PICK b \in Nat \ {0}, w \in Int : b = Frame * plan.den /\ w = window /\ w <= C * b
      BY <1>1, <2>3, <2>4
    <2>6. Rounded(w, b) <= C /\ Rounded(w, b) \in Int
      <3>1. C \in Int /\ w <= C * b
        BY <2>5
      <3> QED
        BY ZenonT(30), <3>1, <2>5, RoundedAtMost, RoundedType
    <2> QED
      BY <1>2, <2>5, <2>6 DEF FramesOf, AtLeast
  <1>3. images \in Nat /\ (images = 2 => wanted \in TwoImageSafe)
    <2>1. Handler(job).stills \in {0, 3}
      BY HandlerAsks
    <2>2. images = IF Handler(job).stills > 0 THEN Handler(job).stills + 1 ELSE seam + anchor
      BY DEF Images
    <2>3. seam \in {0, 1} /\ anchor \in {0, 1}
      OBVIOUS
    <2>4. seam = 1 /\ anchor = 1 => wanted \in TwoImageSafe
      OBVIOUS
    <2> HIDE DEF seam, anchor
    <2> QED
      BY <2>1, <2>2, <2>3, <2>4
  <1>4. CASE Tier(job) = "distilled"
    <2>1. count = SafeFrameCount(job.grid, wanted, Conditioned(job, plan, i))
      BY <1>4 DEF RenderedFrames
    <2>2. Conditioned(job, plan, i) \in BOOLEAN /\ (Conditioned(job, plan, i) <=> images > 0)
      BY <1>3, <1>4 DEF Conditioned
    <2>3. PICK c \in BOOLEAN : c = Conditioned(job, plan, i)
      BY <2>2
    <2>4. /\ count \in Nat /\ count >= wanted
          /\ c => count \notin {361, 721, 1381, 1437, 1440, 1464}
          /\ c /\ wanted \in TwoImageSafe => count = wanted
          /\ ~c /\ job.grid \in {"wide", "tall"} => count # 240
      <3>1. count = SafeFrameCount(job.grid, wanted, c)
        BY <2>1, <2>3
      <3> HIDE DEF count, wanted
      <3> QED
        BY <1>1, <3>1, SafeCounts
    <2>5. Deadly(job, images) = IF images = 2 THEN {720, 736}
                                ELSE IF images > 0 THEN {361, 721, 1381, 1437, 1440, 1464}
                                ELSE IF job.grid \in {"wide", "tall"} THEN {240} ELSE {}
      BY <1>4 DEF Deadly
    <2> HIDE DEF count, images, wanted
    <2>6. count \notin Deadly(job, images)
      <3>1. CASE images = 2
        BY <1>3, <2>2, <2>3, <2>4, <2>5, <3>1 DEF TwoImageSafe
      <3>2. CASE images # 2 /\ images > 0
        BY <1>3, <2>2, <2>3, <2>4, <2>5, <3>2
      <3>3. CASE images = 0
        BY <1>3, <2>2, <2>3, <2>4, <2>5, <3>3
      <3> QED
        BY <1>3, <3>1, <3>2, <3>3
    <2> QED
      BY <2>4, <2>6 DEF count, images, wanted
  <1>5. ASSUME Tier(job) # "distilled", proven # {}, proven \in SUBSET Nat
        PROVE  count \in proven /\ count >= wanted
    <2>1. count = Min(proven)
      BY <1>5 DEF RenderedFrames
    <2> HIDE DEF proven
    <2>2. Min(proven) \in proven
      BY <1>5, MinIsLeast
    <2>3. Conforming(wanted) \in Nat /\ Conforming(wanted) >= wanted
      BY <1>1, ConformingIs
    <2>4. count \in Nat /\ count >= Conforming(wanted)
      BY <1>5, <2>1, <2>2 DEF proven
    <2> QED
      BY <1>1, <2>1, <2>2, <2>3, <2>4
  <1>6. Conforming(wanted) \in Nat /\ Conforming(wanted) % 8 = 1 /\ Conforming(wanted) < wanted + 8
    BY <1>1, ConformingIs
  <1>7. CASE Tier(job) = "ic_lora"
    <2>1. wanted <= 192
      BY <1>2, <1>7, HandlerAsks DEF Second, Frame
    <2>2. proven = {193}
      BY <1>1, <1>6, <1>7, <2>1 DEF Landings
    <2>3. Deadly(job, images) = {360, 361}
      BY <1>7 DEF Deadly
    <2> HIDE DEF proven, count, wanted, images
    <2>4. count = 193 /\ count >= wanted
      BY <1>5, <1>7, <2>2
    <2> QED
      BY <2>3, <2>4 DEF count, wanted, images
  <1>8. CASE Tier(job) = "a2v"
    <2>1. wanted <= 481
      BY <1>2, <1>8, HandlerAsks DEF Second, Frame
    <2>2. proven \in SUBSET {121, 241, 385, 481} /\ 481 \in proven
      BY <1>1, <1>6, <1>8, <2>1 DEF Landings
    <2>3. Deadly(job, images) = {289, 337, 361, 409, 457, 601, 841, 1081}
      BY <1>8 DEF Deadly
    <2> HIDE DEF proven, count, wanted, images
    <2>4. count \in {121, 241, 385, 481} /\ count >= wanted
      <3>1. proven \in SUBSET Nat /\ proven # {} /\ Tier(job) # "distilled"
        BY <1>8, <2>2
      <3>2. count \in proven /\ count >= wanted
        BY <1>5, <3>1
      <3> QED
        BY <2>2, <3>2
    <2> QED
      BY <2>3, <2>4 DEF count, wanted, images
  <1>9. CASE Tier(job) = "guided"
    <2>1. wanted <= 120
      BY <1>2, <1>9, HandlerAsks DEF Second, Frame
    <2>2. proven = {121}
      BY <1>1, <1>6, <1>9, <2>1 DEF Landings
    <2>3. Deadly(job, images) = {241}
      BY <1>9 DEF Deadly
    <2> HIDE DEF proven, count, wanted, images
    <2>4. count = 121 /\ count >= wanted
      BY <1>5, <1>9, <2>2
    <2> QED
      BY <2>3, <2>4 DEF count, wanted, images
  <1> QED
    BY <1>4, <1>7, <1>8, <1>9, HandlerAsks

(***************************************************************************)
(* The plans: even windows, and windows between the cuts of the music.     *)
(***************************************************************************)
\* A function that grows at every step.
Growing(n, c) == n \in Nat /\ c \in [0..n -> Int] /\ \A i \in 1..n : c[i - 1] < c[i]

\* The values of a growing function, in ascending order, are its values in order.
LEMMA AscendingIs ==
    ASSUME NEW n, NEW c, Growing(n, c)
    PROVE  /\ Ascending({c[i] : i \in 0..n}) = [i \in 1..(n + 1) |-> c[i - 1]]
           /\ \A i, j \in 0..n : i < j => c[i] < c[j]
  <1> DEFINE S == {c[i] : i \in 0..n}
             Place(i) == CHOOSE x \in S : Cardinality({y \in S : y < x}) = i - 1
  <1>1. n \in Nat /\ c \in [0..n -> Int] /\ \A i \in 1..n : c[i - 1] < c[i]
    BY DEF Growing
  <1>2. \A i, j \in 0..n : i < j => c[i] < c[j]
    <2> DEFINE T == {j \in 0..n : \A i \in 0..n : i < j => c[i] < c[j]}
    <2>1. 0 \in T
      BY <1>1
    <2>2. ASSUME NEW j \in 1..n, j - 1 \in T PROVE j \in T
      <3>1. ASSUME NEW i \in 0..n, i < j PROVE c[i] < c[j]
        <4>1. j - 1 \in 0..n /\ j \in 0..n /\ c[j - 1] < c[j]
          BY <1>1
        <4>2. i = j - 1 \/ i < j - 1
          BY <1>1, <3>1
        <4>3. i < j - 1 => c[i] < c[j - 1]
          BY <2>2
        <4>4. c[i] \in Int /\ c[j - 1] \in Int /\ c[j] \in Int
          BY <1>1, <4>1
        <4> QED
          BY <4>1, <4>2, <4>3, <4>4
      <3> QED
        BY <3>1
    <2> HIDE DEF T
    <2>3. 0..n \subseteq T
      BY <1>1, <2>1, <2>2, UpTo
    <2> QED
      BY <2>3 DEF T
  <1>3. ASSUME NEW k \in 0..n
        PROVE  IsFiniteSet({c[i] : i \in 0..(k - 1)}) /\ Cardinality({c[i] : i \in 0..(k - 1)}) = k
    <2> DEFINE A == 0..(k - 1)
               B == {c[i] : i \in A}
               f == [i \in A |-> c[i]]
    <2>1. A \subseteq 0..n
      BY <1>1
    <2>2. f \in [A -> B] /\ \A i, j \in A : f[i] = f[j] => i = j
      <3>1. ASSUME NEW i \in A, NEW j \in A, i # j PROVE c[i] # c[j]
        <4>1. i \in 0..n /\ j \in 0..n /\ (i < j \/ j < i)
          BY <2>1, <3>1
        <4>2. c[i] < c[j] \/ c[j] < c[i]
          BY <1>2, <4>1
        <4>3. c[i] \in Int /\ c[j] \in Int
          BY <1>1, <4>1
        <4> QED
          BY <4>2, <4>3
      <3> HIDE DEF A
      <3> QED
        BY <3>1
    <2>3. \A y \in B : \E i \in A : f[i] = y
      OBVIOUS
    <2>4. ExistsBijection(A, B)
      <3> HIDE DEF A, B, f
      <3>1. f \in Bijection(A, B)
        BY <2>2, <2>3 DEF Bijection, Injection, Surjection, IsInjective
      <3> QED
        BY <3>1 DEF ExistsBijection
    <2>5. IsFiniteSet(A) /\ Cardinality(A) = k
      <3>1. 0 \in Int /\ k - 1 \in Int /\ (0 > k - 1 => k = 0) /\ (k - 1) - 0 + 1 = k
        OBVIOUS
      <3> QED
        BY <3>1, FS_Interval
    <2>6. IsFiniteSet(B) /\ Cardinality(B) = k
      <3> HIDE DEF A, B, f
      <3> QED
        BY <2>4, <2>5, FS_Bijection
    <2> QED
      BY <2>6
  <1>4. ASSUME NEW k \in 0..n PROVE Cardinality({y \in S : y < c[k]}) = k
    <2>1. {y \in S : y < c[k]} = {c[i] : i \in 0..(k - 1)}
      <3>1. ASSUME NEW i \in 0..n PROVE c[i] < c[k] <=> i \in 0..(k - 1)
        <4>1. i < k \/ i = k \/ k < i
          OBVIOUS
        <4>2. c[i] \in Int /\ c[k] \in Int /\ (i < k => c[i] < c[k]) /\ (k < i => c[k] < c[i])
          BY <1>1, <1>2
        <4> QED
          BY <4>1, <4>2
      <3>2. 0..(k - 1) \subseteq 0..n
        BY <1>1
      <3> QED
        BY <3>1, <3>2
    <2> QED
      BY <1>3, <2>1
  <1>5. ASSUME NEW k \in 0..n PROVE Place(k + 1) = c[k]
    <2>1. c[k] \in S /\ Cardinality({y \in S : y < c[k]}) = (k + 1) - 1
      BY <1>4
    <2>2. ASSUME NEW x \in S, Cardinality({y \in S : y < x}) = (k + 1) - 1 PROVE x = c[k]
      <3>1. PICK j \in 0..n : x = c[j]
        OBVIOUS
      <3>2. Cardinality({y \in S : y < x}) = j
        BY <1>4, <3>1
      <3> QED
        BY <2>2, <3>1, <3>2
    <2> HIDE DEF S
    <2> QED
      BY <2>1, <2>2
  <1>6. Cardinality(S) = n + 1
    <2>1. c[n] \in Int /\ n \in 0..n
      BY <1>1
    <2>2. S = {c[i] : i \in 0..(n - 1)} \cup {c[n]}
      <3>1. 0..n = 0..(n - 1) \cup {n}
        BY <1>1
      <3> QED
        BY <3>1
    <2>3. c[n] \notin {c[i] : i \in 0..(n - 1)}
      <3>1. ASSUME NEW i \in 0..(n - 1) PROVE c[i] # c[n]
        <4>1. i \in 0..n /\ i < n
          BY <1>1
        <4> QED
          BY <1>1, <1>2, <2>1, <4>1
      <3> QED
        BY <3>1
    <2> QED
      BY <1>3, <2>1, <2>2, <2>3, FS_AddElement
  <1>7. Ascending(S) = [i \in 1..(n + 1) |-> Place(i)]
    BY <1>6 DEF Ascending
  <1>8. \A i \in 1..(n + 1) : Place(i) = c[i - 1]
    <2> HIDE DEF Place
    <2> SUFFICES ASSUME NEW i \in 1..(n + 1) PROVE Place(i) = c[i - 1]
      OBVIOUS
    <2>1. i - 1 \in 0..n /\ (i - 1) + 1 = i
      BY <1>1
    <2> QED
      BY <1>5, <2>1
  <1> HIDE DEF Place
  <1> QED
    BY <1>2, <1>7, <1>8

\* A plan that tiles a video: its windows are none too long for a pass, and where
\* there are several, none shorter than half a second.
Tiles(job, plan) ==
    /\ plan \in VideoPlan /\ Sections(plan) = PassCount(job)
    /\ plan.cuts[1] = 0 /\ plan.cuts[Sections(plan) + 1] = job.total * plan.den
    /\ \A i \in 1..Sections(plan) :
         /\ 0 < Window(plan, i) /\ Window(plan, i) <= PassCeiling(job) * plan.den
         /\ Sections(plan) > 1 => Window(plan, i) >= MinimumWindow(job) * plan.den

\* How many passes there are: as few as the ceiling allows.
LEMMA PassesAreFew ==
    ASSUME NEW job \in VideoRequest
    PROVE  /\ job.total \in Nat \ {0} /\ PassCount(job) \in Nat \ {0}
           /\ PassCeiling(job) \in Int /\ PassCeiling(job) >= Second
           /\ job.total <= PassCount(job) * PassCeiling(job)
           /\ (PassCount(job) - 1) * PassCeiling(job) < job.total
           /\ MinimumWindow(job) \in Nat /\ MinimumWindow(job) >= 120
           /\ PassCount(job) > 1 => MinimumWindow(job) * PassCount(job) <= job.total
  <1>1. job.total \in Nat \ {0}
    BY DEF VideoRequest
  <1>2. PICK C \in Nat \ {0} : C = PassCeiling(job) /\ C >= 240
    BY HandlerAsks DEF Second
  <1>3. PICK t \in Nat \ {0} : t = job.total
    BY <1>1
  <1>4. PICK n \in Nat \ {0} : n = CeilDiv(t, C) /\ t <= n * C /\ (n - 1) * C < t
    BY CeilDivIs
  <1>5. PICK w \in Nat : w = MinimumWindow(job) /\ w >= 120 /\ 2 * w <= C
    <2>1. MinimumWindow(job) = AtMost(480, C \div 2)
      BY <1>2 DEF MinimumWindow, Second
    <2> QED
      BY <1>2, <2>1 DEF AtMost
  <1>6. ASSUME n > 1 PROVE w * n <= t
    <2>1. PICK k \in Nat : n = k + 2
      <3>1. n - 2 \in Nat /\ n = (n - 2) + 2
        BY <1>4, <1>6
      <3> QED
        BY <3>1
    <2>2. w * k <= C * k
      BY <1>2, <1>5, <2>1
    <2>3. w * (k + 2) = w * k + 2 * w /\ C * (k + 1) = C * k + C
      BY <1>2, <1>5, <2>1
    <2>4. (n - 1) * C = C * (k + 1) /\ w * n = w * (k + 2)
      BY <1>2, <1>5, <2>1
    <2>5. w * k \in Int /\ C * k \in Int
      BY <1>2, <1>5, <2>1
    <2> QED
      BY <1>2, <1>3, <1>4, <1>5, <2>2, <2>3, <2>4, <2>5
  <1> QED
    BY <1>2, <1>3, <1>4, <1>5, <1>6 DEF PassCount, Second

\* Windows of the same length tile the video.
LEMMA EvenPlanTiles ==
    ASSUME NEW job \in VideoRequest
    PROVE  Tiles(job, EvenPlan(job))
  <1> DEFINE n == PassCount(job)
             t == job.total
             plan == EvenPlan(job)
  <1>1. /\ t \in Nat \ {0} /\ n \in Nat \ {0} /\ t <= n * PassCeiling(job)
        /\ PassCeiling(job) \in Int
        /\ n > 1 => MinimumWindow(job) * n <= t
    BY PassesAreFew
  <1>2. plan = [den |-> n, cuts |-> [i \in 1..(n + 1) |-> t * (i - 1)]]
    BY DEF EvenPlan
  <1> HIDE DEF n, t, plan
  <1>3. plan.den = n /\ plan.cuts = [i \in 1..(n + 1) |-> t * (i - 1)]
    BY <1>2
  <1>4. plan.cuts \in Seq(Int) /\ Len(plan.cuts) = n + 1
    <2>1. [i \in 1..(n + 1) |-> t * (i - 1)] \in [1..(n + 1) -> Int]
      BY <1>1
    <2> QED
      BY <1>1, <1>3, <2>1
  <1>5. plan \in VideoPlan
    <2>1. plan.cuts \in {c \in Seq(Int) : Len(c) > 1}
      BY <1>1, <1>4
    <2> QED
      BY <1>1, <1>2, <1>3, <2>1 DEF VideoPlan
  <1>6. Sections(plan) = n
    BY <1>1, <1>4 DEF Sections
  <1>7. plan.cuts[1] = 0 /\ plan.cuts[n + 1] = t * n
    <2>1. 1 \in 1..(n + 1) /\ n + 1 \in 1..(n + 1)
      BY <1>1
    <2>2. \A i \in 1..(n + 1) : plan.cuts[i] = t * (i - 1)
      BY <1>3
    <2>3. t * (1 - 1) = 0 /\ t * ((n + 1) - 1) = t * n
      BY <1>1
    <2> QED
      BY <2>1, <2>2, <2>3
  <1>8. ASSUME NEW i \in 1..n PROVE Window(plan, i) = t
    <2>1. i \in 1..(n + 1) /\ i + 1 \in 1..(n + 1)
      BY <1>1
    <2>2. Window(plan, i) = t * ((i + 1) - 1) - t * (i - 1)
      BY <1>3, <2>1 DEF Window
    <2>3. t * ((i + 1) - 1) - t * (i - 1) = t
      <3>1. (i + 1) - 1 = (i - 1) + 1
        OBVIOUS
      <3>2. t * ((i - 1) + 1) = t * (i - 1) + t
        BY <1>1
      <3> QED
        BY <1>1, <3>1, <3>2
    <2> QED
      BY <2>2, <2>3
  <1>9. t <= PassCeiling(job) * n
    BY <1>1
  <1> QED
    BY <1>1, <1>3, <1>5, <1>6, <1>7, <1>8, <1>9 DEF Tiles, n, t, plan

\* A number of cut i that leaves no more than the passes that remain can hold.
Fits(t, n, C, i, p) ==
    p \in Nat /\ p <= (t * 5) * i /\ t * (5 * n) - p <= (C * (5 * n)) * (n - i)

\* A video of t ticks in n > 1 passes of C at most and w at least, and where a cut of it may be.
Several(t, n, C, w) ==
    /\ t \in Nat \ {0} /\ n \in Nat \ {0} /\ C \in Nat /\ C >= 240 /\ n > 1
    /\ t <= n * C /\ w \in Nat \ {0} /\ w * n <= t

Reach(t, n, C, w, i, p, latest, earliest) ==
    /\ latest = AtMost((t * 5) * i, p + C * (5 * n))
    /\ earliest = AtMost(latest, AtLeast(AtLeast(p + w * (5 * n), latest - t),
                                        t * (5 * n) - (C * (5 * n)) * (n - i)))

\* The cut after one that fits, wherever the music pulls it.
LEMMA NextCutFits ==
    ASSUME NEW t, NEW n, NEW C, NEW w, Several(t, n, C, w), NEW i \in 1..(n - 1),
           NEW p, Fits(t, n, C, i - 1, p),
           NEW latest, NEW earliest, Reach(t, n, C, w, i, p, latest, earliest)
    PROVE  /\ latest \in Nat /\ earliest \in Int /\ earliest <= latest
           /\ \A c \in Int : earliest <= c /\ c <= latest =>
                /\ Fits(t, n, C, i, c) /\ c <= p + C * (5 * n)
                /\ c >= p + w * (5 * n)
  <1>0. /\ t \in Nat \ {0} /\ n \in Nat \ {0} /\ C \in Nat /\ C >= 240 /\ n > 1
        /\ t <= n * C /\ w \in Nat \ {0} /\ w * n <= t
    BY DEF Several
  <1>1. PICK den \in Nat \ {0} : den = 5 * n
    BY <1>0
  <1>2. PICK top \in Nat : top = C * (5 * n)
    <2>1. C * den \in Nat
      BY <1>0, <1>1
    <2> QED
      BY <1>0, <1>1, <2>1
  <1>3. PICK least \in Nat : least = w * (5 * n)
    BY <1>0
  <1>4. PICK nominal \in Nat : nominal = (t * 5) * i
    BY <1>0
  <1>5. PICK rest \in Nat : rest = top * (n - i)
    <2>1. n - i \in Nat
      BY <1>0
    <2> QED
      BY <1>0, <1>2, <2>1
  <1>6. p \in Nat /\ p <= nominal - t * 5 /\ t * den - p <= rest + top
    <2>1. (t * 5) * (i - 1) = (t * 5) * i - t * 5
      BY <1>0
    <2>2. top * (n - (i - 1)) = top * (n - i) + top
      <3>1. n - (i - 1) = (n - i) + 1 /\ n - i \in Nat
        BY <1>0
      <3> QED
        BY <1>0, <1>2, <3>1
    <2>3. p \in Nat /\ p <= (t * 5) * (i - 1) /\ t * den - p <= top * (n - (i - 1))
      BY <1>0, <1>1, <1>2 DEF Fits
    <2> QED
      BY <1>0, <1>4, <1>5, <2>1, <2>2, <2>3
  <1>7. t * den - nominal <= rest
    <2>1. t * den - nominal = (n - i) * (t * 5)
      <3>1. t * den = (t * 5) * n
        BY <1>0, <1>1
      <3>2. (t * 5) * n - (t * 5) * i = (n - i) * (t * 5)
        BY <1>0
      <3> QED
        BY <1>0, <1>4, <3>1, <3>2
    <2>2. (n - i) * (t * 5) <= (n - i) * top
      <3>1. t * 5 <= top
        <4>1. (n * C) * 5 = C * (5 * n)
          BY <1>0
        <4> QED
          BY <1>0, <1>2, <4>1
      <3>2. n - i \in Nat /\ t * 5 \in Nat
        BY <1>0
      <3> QED
        BY <1>0, <1>2, <3>1, <3>2
    <2>3. (n - i) * top = rest
      BY <1>0, <1>2, <1>5
    <2> QED
      BY <2>1, <2>2, <2>3
  <1>8. t * 5 >= least
    <2>1. least = (w * n) * 5
      BY <1>0, <1>3
    <2> QED
      BY <1>0, <2>1
  <1>9. t * den \in Int
    BY <1>0, <1>1
  <1>10. latest = AtMost(nominal, p + top)
    BY <1>0, <1>2, <1>4 DEF Reach
  <1>11. earliest = AtMost(latest, AtLeast(AtLeast(p + least, latest - t), t * den - rest))
    BY <1>0, <1>1, <1>2, <1>3, <1>5 DEF Reach
  <1>12. /\ latest \in Nat /\ latest <= nominal /\ latest <= p + top
         /\ t * den - rest <= latest /\ p + least <= latest
    BY <1>0, <1>1, <1>2, <1>3, <1>6, <1>7, <1>8, <1>9, <1>10 DEF AtMost
  <1>13. /\ earliest \in Int /\ earliest <= latest
         /\ t * den - rest <= earliest /\ p + least <= earliest
    BY <1>0, <1>1, <1>3, <1>5, <1>6, <1>9, <1>11, <1>12 DEF AtMost, AtLeast
  <1>14. ASSUME NEW c \in Int, earliest <= c, c <= latest
         PROVE  Fits(t, n, C, i, c) /\ c <= p + C * (5 * n) /\ c >= p + w * (5 * n)
    <2>1. c \in Nat /\ c <= nominal /\ t * den - c <= rest /\ c <= p + top /\ c >= p + least
      BY <1>0, <1>1, <1>2, <1>3, <1>5, <1>6, <1>9, <1>12, <1>13, <1>14
    <2> QED
      BY <1>0, <1>1, <1>2, <1>3, <1>4, <1>5, <2>1 DEF Fits
  <1> QED
    BY <1>0, <1>12, <1>13, <1>14

\* The maximum of a bounded set is its greatest member.
LEMMA MaxIsGreatest ==
    ASSUME NEW S \in SUBSET Nat, S # {}, NEW b \in Nat, \A x \in S : x <= b
    PROVE  Max(S) \in S /\ \A x \in S : Max(S) >= x
  <1> DEFINE T == {b - x : x \in S}
  <1>1. PICK k \in T : \A i \in T : k <= i
    <2>1. \A x \in S : b - x \in Nat
      OBVIOUS
    <2>2. T \in SUBSET Nat /\ T # {}
      BY <2>1
    <2> HIDE DEF T
    <2> QED
      BY <2>2, LeastNumber
  <1>2. PICK m \in S : k = b - m
    BY <1>1
  <1>3. \A x \in S : m >= x
    <2> SUFFICES ASSUME NEW x \in S PROVE m >= x
      OBVIOUS
    <2>1. b - x \in T
      OBVIOUS
    <2> QED
      BY <1>1, <1>2, <2>1
  <1>4. \E x \in S : \A y \in S : x >= y
    BY <1>3
  <1> QED
    BY <1>4 DEF Max

\* A cut lies between the earliest and the latest place for it.
LEMMA CutLands ==
    ASSUME NEW job \in VideoRequest, NEW i \in Nat, NEW position \in Nat,
           NEW latest, latest = AtMost((job.total * 5) * i,
                                       position + PassCeiling(job) * (5 * PassCount(job))),
           NEW earliest, earliest = Earliest(job, position, latest, i)
    PROVE  /\ NextCut(job, i)[position] \in Nat
           /\ earliest <= latest =>
                earliest <= NextCut(job, i)[position] /\ NextCut(job, i)[position] <= latest
  <1> DEFINE within == {t \in job.onsets : earliest <= t * (5 * PassCount(job))
                                             /\ t * (5 * PassCount(job)) <= latest}
             cut == NextCut(job, i)[position]
  <1>1. job.onsets \in SUBSET Nat /\ job.total \in Nat
    BY DEF VideoRequest
  <1>2. PICK den \in Nat \ {0} : den = 5 * PassCount(job)
    BY PassesAreFew
  <1>3. latest \in Nat
    <2>1. PassCeiling(job) \in Nat
      BY PassesAreFew DEF Second
    <2>2. PassCeiling(job) * den \in Nat /\ (job.total * 5) * i \in Nat
      BY <1>1, <1>2, <2>1
    <2> QED
      BY <1>2, <2>2 DEF AtMost
  <1>4. cut = IF within = {} THEN latest ELSE Max(within) * den
    BY <1>2 DEF NextCut
  <1>5. CASE within = {}
    BY <1>3, <1>4, <1>5
  <1>6. CASE within # {}
    <2>1. \A t \in within : t \in Nat /\ earliest <= t * den /\ t * den <= latest
      BY <1>1, <1>2
    <2>2. ASSUME NEW t \in within PROVE t <= latest
      <3>1. t \in Nat /\ t * den <= latest
        BY <2>1
      <3>2. t <= t * den
        BY <1>2, <3>1
      <3> QED
        BY <1>2, <1>3, <3>1, <3>2
    <2> HIDE DEF within, cut
    <2>3. within \in SUBSET Nat
      BY <2>1
    <2>4. PICK m \in within : m = Max(within)
      BY <1>3, <1>6, <2>2, <2>3, MaxIsGreatest
    <2>5. cut = m * den
      BY <1>4, <1>6, <2>4
    <2>6. m \in Nat /\ earliest <= m * den /\ m * den <= latest
      BY <2>1
    <2>7. cut \in Nat /\ earliest <= cut /\ cut <= latest
      BY <1>2, <2>5, <2>6
    <2> QED
      BY <2>7 DEF cut
  <1> QED
    BY <1>5, <1>6

\* The cuts of a music video: they grow from the start to the end of the track.
LEMMA MusicalCutsTile ==
    ASSUME NEW job \in VideoRequest, PassCount(job) > 1
    PROVE  \E c :
             LET n   == PassCount(job)
                 den == 5 * n
             IN  /\ Growing(n, c) /\ c[0] = 0 /\ c[n] = job.total * den
                 /\ MusicalCuts(job) \cup {job.total * den} = {c[i] : i \in 0..n}
                 /\ \A i \in 1..n : /\ c[i] <= c[i - 1] + PassCeiling(job) * den
                                    /\ c[i] >= c[i - 1] + MinimumWindow(job) * den
  <1>1. PICK n \in Nat \ {0}, t \in Nat \ {0}, C \in Nat, w \in Nat \ {0} :
          /\ n = PassCount(job) /\ t = job.total /\ C = PassCeiling(job) /\ w = MinimumWindow(job)
          /\ n > 1 /\ C >= 240 /\ t <= n * C /\ w * n <= t
    BY PassesAreFew DEF Second
  <1> DEFINE den == 5 * n
             Cuts(s) == s = [i \in 0..(n - 1) |-> IF i = 0 THEN 0 ELSE NextCut(job, i)[s[i - 1]]]
             cut == CHOOSE s : Cuts(s)
             Latest(i, p)   == AtMost((t * 5) * i, p + C * den)
             Early(i, p) == Earliest(job, p, Latest(i, p), i)
  <1>2. MusicalCuts(job) = {cut[i] : i \in 0..(n - 1)}
    BY <1>1 DEF MusicalCuts
  <1>3. \E s : Cuts(s)
    <2> DEFINE F == [q \in (1..(n - 1)) \X Nat |-> NextCut(job, q[1])[q[2]]]
    <2>1. Iterable(Nat, n - 1, 0, F)
      <3>1. ASSUME NEW i \in 1..(n - 1), NEW p \in Nat PROVE NextCut(job, i)[p] \in Nat
        BY CutLands
      <3>2. n - 1 \in Nat
        BY <1>1
      <3> QED
        BY <3>1, <3>2 DEF Iterable
    <2>2. PICK s : Iterated(Nat, n - 1, 0, F, s)
      <3> HIDE DEF F
      <3> QED
        BY <2>1, IterationExists
    <2>3. s \in [0..(n - 1) -> Nat] /\ s[0] = 0 /\ \A k \in 1..(n - 1) : s[k] = F[<<k, s[k - 1]>>]
      BY <2>2 DEF Iterated
    <2>4. ASSUME NEW k \in 1..(n - 1) PROVE s[k] = NextCut(job, k)[s[k - 1]]
      <3>1. s[k - 1] \in Nat
        BY <2>3
      <3> QED
        BY <2>3, <3>1
    <2>5. Cuts(s)
      BY <2>3, <2>4
    <2> QED
      BY <2>5
  <1>4. Cuts(cut)
    <2> HIDE DEF Cuts
    <2> QED
      BY <1>3
  <1>5. cut[0] = 0 /\ \A i \in 1..(n - 1) : cut[i] = NextCut(job, i)[cut[i - 1]]
    <2> HIDE DEF cut
    <2> QED
      BY SMTT(30), <1>1, <1>4
  <1> HIDE DEF cut, Cuts
  <1>6. ASSUME NEW i \in 1..(n - 1), Fits(t, n, C, i - 1, cut[i - 1])
        PROVE  /\ Fits(t, n, C, i, cut[i]) /\ cut[i] <= cut[i - 1] + C * den
               /\ cut[i] >= cut[i - 1] + w * den
    <2>1. PICK p \in Nat : p = cut[i - 1]
      BY <1>6 DEF Fits
    <2>2. PICK late : late = AtMost((t * 5) * i, p + C * (5 * n))
      OBVIOUS
    <2>3. PICK early : early = Earliest(job, p, late, i) /\ Reach(t, n, C, w, i, p, late, early)
      BY <1>1, <2>2 DEF Earliest, Reach
    <2>4. /\ late \in Nat /\ early \in Int /\ early <= late
          /\ \A c \in Int : early <= c /\ c <= late =>
                /\ Fits(t, n, C, i, c) /\ c <= p + C * (5 * n)
                /\ c >= p + w * (5 * n)
      <3>1. Several(t, n, C, w)
        BY <1>1 DEF Several
      <3>2. Fits(t, n, C, i - 1, p)
        BY <1>6, <2>1
      <3> QED
        BY <2>3, <3>1, <3>2, NextCutFits
    <2>5. cut[i] \in Nat /\ early <= cut[i] /\ cut[i] <= late
      <3>1. cut[i] = NextCut(job, i)[p]
        BY <1>5, <2>1
      <3>2. late = AtMost((job.total * 5) * i, p + PassCeiling(job) * (5 * PassCount(job)))
        BY <1>1, <2>2
      <3>3. i \in Nat
        BY <1>1
      <3>4. /\ NextCut(job, i)[p] \in Nat
            /\ early <= late => early <= NextCut(job, i)[p] /\ NextCut(job, i)[p] <= late
        BY <2>3, <3>2, <3>3, CutLands
      <3> QED
        BY <2>4, <3>1, <3>4
    <2> QED
      BY <2>1, <2>4, <2>5
  <1>7. \A i \in 0..(n - 1) : Fits(t, n, C, i, cut[i])
    <2> DEFINE T == {i \in 0..(n - 1) : Fits(t, n, C, i, cut[i])}
    <2>1. 0 \in T
      <3>1. t * (5 * n) - 0 <= (C * (5 * n)) * (n - 0)
        <4>1. t * (5 * n) <= (n * C) * (5 * n)
          BY <1>1
        <4>2. (n * C) * (5 * n) = (C * (5 * n)) * n
          BY <1>1
        <4> QED
          BY <1>1, <4>1, <4>2
      <3> QED
        BY <1>1, <1>5, <3>1 DEF Fits
    <2>2. \A i \in 1..(n - 1) : i - 1 \in T => i \in T
      BY <1>6
    <2>3. n - 1 \in Nat
      BY <1>1
    <2> HIDE DEF T
    <2>4. 0..(n - 1) \subseteq T
      BY <2>1, <2>2, <2>3, UpTo
    <2> QED
      BY <2>4 DEF T
  <1> DEFINE c == [i \in 0..n |-> IF i = n THEN t * den ELSE cut[i]]
  <1>8. c \in [0..n -> Int]
    <2>1. \A i \in 0..(n - 1) : cut[i] \in Int
      BY <1>7 DEF Fits
    <2> QED
      BY <1>1, <2>1
  <1>9. c[0] = 0 /\ c[n] = t * den
    BY <1>1, <1>5
  <1>10. ASSUME NEW i \in 1..n
         PROVE  c[i] <= c[i - 1] + C * den /\ c[i] >= c[i - 1] + w * den /\ c[i - 1] < c[i]
    <2>0. c[i - 1] \in Int /\ c[i] \in Int /\ w * den \in Nat \ {0} /\ C * den \in Nat
      <3>1. i - 1 \in 0..n /\ i \in 0..n
        BY <1>1
      <3>2. c[i - 1] \in Int /\ c[i] \in Int
        <4> HIDE DEF c
        <4> QED
          BY <1>8, <3>1
      <3>3. w * den \in Nat \ {0} /\ C * den \in Nat
        BY <1>1
      <3> QED
        BY <3>2, <3>3
    <2>1. CASE i < n
      <3>1. i \in 1..(n - 1) /\ i - 1 \in 0..(n - 1) /\ c[i] = cut[i] /\ c[i - 1] = cut[i - 1]
        BY <1>1, <2>1
      <3>2. c[i] <= c[i - 1] + C * den /\ c[i] >= c[i - 1] + w * den
        BY <1>6, <1>7, <3>1
      <3> HIDE DEF c, den
      <3> QED
        BY <2>0, <3>2
    <2>2. CASE i = n
      <3>1. n - 1 \in 0..(n - 1) /\ c[n] = t * den /\ c[n - 1] = cut[n - 1]
        BY SMTT(30), <1>1
      <3>2. cut[n - 1] <= (t * 5) * (n - 1) /\ t * den - cut[n - 1] <= (C * den) * (n - (n - 1))
            /\ cut[n - 1] \in Nat
        BY <1>7, <3>1 DEF Fits
      <3>3. (C * den) * (n - (n - 1)) = C * den
        BY <1>1
      <3>4. t * den - (t * 5) * (n - 1) = t * 5
        BY <1>1
      <3>5. t * 5 >= w * den
        BY <1>1
      <3>6. t * den \in Int /\ (t * 5) * (n - 1) \in Int /\ t * 5 \in Int
        BY <1>1
      <3>7. c[n] <= c[n - 1] + C * den /\ c[n] >= c[n - 1] + w * den
        <4> HIDE DEF c, den
        <4> QED
          BY <2>0, <3>1, <3>2, <3>3, <3>4, <3>5, <3>6
      <3> HIDE DEF c, den
      <3> QED
        BY <2>0, <2>2, <3>7
    <2> QED
      BY <1>1, <2>1, <2>2
  <1>11. MusicalCuts(job) \cup {job.total * den} = {c[i] : i \in 0..n}
    <2>1. 0..n = 0..(n - 1) \cup {n}
      BY <1>1
    <2>2. {c[i] : i \in 0..n} = {c[i] : i \in 0..(n - 1)} \cup {c[n]}
      <3> HIDE DEF c
      <3> QED
        BY <2>1
    <2>3. \A i \in 0..(n - 1) : c[i] = cut[i]
      BY <1>1
    <2>4. {c[i] : i \in 0..(n - 1)} = {cut[i] : i \in 0..(n - 1)}
      <3> HIDE DEF c
      <3> QED
        BY <2>3
    <2> HIDE DEF c, den
    <2> QED
      BY <1>1, <1>2, <1>9, <2>2, <2>4
  <1>12. Growing(n, c)
    <2> HIDE DEF c
    <2> QED
      BY <1>1, <1>8, <1>10 DEF Growing
  <1> HIDE DEF c
  <1> QED
    BY <1>1, <1>9, <1>10, <1>11, <1>12

\* So do the windows between the cuts of the music.
LEMMA MusicalPlanTiles ==
    ASSUME NEW job \in VideoRequest, PassCount(job) > 1,
           NEW plan, plan = [den  |-> 5 * PassCount(job),
                             cuts |-> Ascending(MusicalCuts(job) \cup {job.total * (5 * PassCount(job))})]
    PROVE  Tiles(job, plan)
  <1>1. PICK n \in Nat \ {0} : n = PassCount(job) /\ n > 1
    BY PassesAreFew
  <1>2. PICK den \in Nat \ {0} : den = 5 * n
    BY <1>1
  <1>3. PICK c : /\ Growing(n, c) /\ c[0] = 0 /\ c[n] = job.total * den
                 /\ MusicalCuts(job) \cup {job.total * den} = {c[i] : i \in 0..n}
                 /\ \A i \in 1..n : /\ c[i] <= c[i - 1] + PassCeiling(job) * den
                                    /\ c[i] >= c[i - 1] + MinimumWindow(job) * den
    BY <1>1, <1>2, MusicalCutsTile
  <1>4. plan.den = den /\ plan.cuts = [i \in 1..(n + 1) |-> c[i - 1]]
    <2>1. plan.den = den /\ plan.cuts = Ascending({c[i] : i \in 0..n})
      BY <1>1, <1>2, <1>3
    <2> QED
      BY <1>3, <2>1, AscendingIs
  <1>5. c \in [0..n -> Int] /\ \A i \in 1..n : c[i - 1] < c[i]
    BY <1>3 DEF Growing
  <1>6. plan.cuts \in Seq(Int) /\ Len(plan.cuts) = n + 1
    <2>1. [i \in 1..(n + 1) |-> c[i - 1]] \in [1..(n + 1) -> Int]
      BY <1>1, <1>5
    <2>2. PICK s \in [1..(n + 1) -> Int] : s = plan.cuts
      BY <1>4, <2>1
    <2>3. n + 1 \in Nat
      BY <1>1
    <2>4. s \in Seq(Int) /\ Len(s) = n + 1
      BY <2>3
    <2> QED
      BY <2>2, <2>4
  <1>7. plan \in VideoPlan
    <2>1. plan.cuts \in {s \in Seq(Int) : Len(s) > 1}
      BY <1>1, <1>6
    <2>2. plan = [den |-> plan.den, cuts |-> plan.cuts]
      OBVIOUS
    <2> QED
      BY <1>4, <2>1, <2>2 DEF VideoPlan
  <1>8. Sections(plan) = n
    BY <1>1, <1>6 DEF Sections
  <1>9. plan.cuts[1] = 0 /\ plan.cuts[n + 1] = job.total * den
    <2>1. 1 \in 1..(n + 1) /\ n + 1 \in 1..(n + 1) /\ 1 - 1 = 0 /\ (n + 1) - 1 = n
      BY <1>1
    <2> QED
      BY <1>3, <1>4, <2>1
  <1>10. ASSUME NEW i \in 1..n
         PROVE  /\ 0 < Window(plan, i) /\ Window(plan, i) <= PassCeiling(job) * den
                /\ Window(plan, i) >= MinimumWindow(job) * den
    <2>1. i \in 1..(n + 1) /\ i + 1 \in 1..(n + 1) /\ (i + 1) - 1 = i
      BY <1>1
    <2>2. Window(plan, i) = c[i] - c[i - 1]
      BY <1>4, <2>1 DEF Window
    <2>3. /\ c[i] <= c[i - 1] + PassCeiling(job) * den /\ c[i] >= c[i - 1] + MinimumWindow(job) * den
          /\ c[i - 1] < c[i] /\ i \in 0..n /\ i - 1 \in 0..n
      BY <1>3, <1>5
    <2>4. PICK x \in Int, y \in Int : x = c[i - 1] /\ y = c[i]
      BY <1>5, <2>3
    <2>5. PassCeiling(job) * den \in Int /\ MinimumWindow(job) * den \in Int
      <3>1. PassCeiling(job) \in Int /\ MinimumWindow(job) \in Int
        BY PassesAreFew
      <3> QED
        BY <3>1
    <2> QED
      BY <2>2, <2>3, <2>4, <2>5
  <1> QED
    BY <1>1, <1>4, <1>7, <1>8, <1>9, <1>10 DEF Tiles

\* Every plan tiles its video.
LEMMA PlansTile ==
    ASSUME NEW job \in VideoRequest
    PROVE  Tiles(job, Plan(job))
  <1>1. CASE job.kind # "music" \/ PassCount(job) = 1
    BY <1>1, EvenPlanTiles DEF Plan
  <1>2. CASE ~(job.kind # "music" \/ PassCount(job) = 1)
    <2>1. PassCount(job) > 1
      BY <1>2, PassesAreFew
    <2>2. Plan(job) = [den  |-> 5 * PassCount(job),
                       cuts |-> Ascending(MusicalCuts(job) \cup {job.total * (5 * PassCount(job))})]
      BY <1>2 DEF Plan
    <2> QED
      BY <2>1, <2>2, MusicalPlanTiles
  <1> QED
    BY <1>1, <1>2

\* The frames of the sections of a plan add up to those of the whole, every seam
\* within half a frame of its place.
LEMMA FramesAddUp ==
    ASSUME NEW job \in VideoRequest, NEW plan, Tiles(job, plan), job.total * job.fps >= Second,
           NEW i \in 1..Sections(plan)
    PROVE  2 * Drift(SumTo(i, [k \in 1..Sections(plan) |-> SectionFrames(job, plan, k)])
                       * Second * plan.den,
                     plan.cuts[i + 1] * job.fps)
             <= Second * plan.den
  <1> DEFINE n == Sections(plan)
             At(k) == plan.cuts[k] * job.fps
             b == Second * plan.den
             R(k) == Rounded(At(k), b)
             f == [k \in 1..n |-> SectionFrames(job, plan, k)]
             g == [k \in 0..i |-> R(k + 1)]
  <1>1. /\ plan \in VideoPlan /\ n \in Nat \ {0} /\ plan.den \in Nat \ {0}
        /\ \A k \in 1..(n + 1) : plan.cuts[k] \in Int
        /\ plan.cuts[1] = 0 /\ plan.cuts[n + 1] = job.total * plan.den
    BY PlanFields DEF Tiles
  <1>2. job.fps \in 10..60 /\ job.total \in Nat \ {0} /\ b \in Nat \ {0} /\ b = 240 * plan.den
    BY SMTT(30), <1>1 DEF VideoRequest, Second
  <1>3. \A k \in 1..(n + 1) : At(k) \in Int
    BY <1>1, <1>2
  <1> HIDE DEF b, At
  <1>4. ASSUME NEW k \in 1..(n + 1)
        PROVE  /\ R(k) \in Int /\ R(k) * b \in Int
               /\ 2 * (R(k) * b) <= 2 * At(k) + b /\ 2 * At(k) <= 2 * (R(k) * b) + b
    <2>1. PICK a \in Int : a = At(k)
      BY <1>3
    <2>2. /\ Rounded(a, b) \in Int
          /\ 2 * (Rounded(a, b) * b) <= 2 * a + b /\ 2 * a <= 2 * (Rounded(a, b) * b) + b
      <3>1. b \in Nat \ {0}
        BY <1>2
      <3> QED
        BY ZenonT(60), <3>1, RoundedNear
    <2> QED
      BY <1>2, <2>1, <2>2
  <1> HIDE DEF R
  <1>5. R(1) = 0 /\ At(1) = 0
    <2>1. At(1) = 0
      BY <1>1, <1>2 DEF At
    <2>2. 1 \in 1..(n + 1)
      BY <1>1
    <2>3. R(1) \in Int /\ 2 * (R(1) * b) <= b /\ 0 <= 2 * (R(1) * b) + b
      BY <1>2, <1>4, <2>1, <2>2
    <2>4. R(1) >= 1 => R(1) * b >= b
      BY <1>2, <2>3
    <2>5. R(1) <= -1 => R(1) * b <= -b
      BY <1>2, <2>3
    <2> QED
      BY <1>2, <2>1, <2>3, <2>4, <2>5
  <1>6. ASSUME NEW k \in 1..n
        PROVE  At(k + 1) - At(k) >= b /\ (k # 1 => At(k + 1) - At(k) >= 2 * b)
    <2>1. k \in 1..(n + 1) /\ k + 1 \in 1..(n + 1)
      BY <1>1
    <2>2. At(k + 1) - At(k) = Window(plan, k) * job.fps
      BY <1>1, <1>2, <2>1 DEF At, Window
    <2>3. Window(plan, k) \in Int /\ Window(plan, k) > 0
      BY <1>1, PlanFields DEF Tiles
    <2>4. CASE n > 1
      <3>1. Window(plan, k) >= 120 * plan.den
        <4>1. PICK w \in Nat : w = MinimumWindow(job) /\ w >= 120
          BY PassesAreFew
        <4>2. Window(plan, k) >= w * plan.den
          BY <2>4, <4>1 DEF Tiles
        <4>3. w * plan.den >= 120 * plan.den /\ w * plan.den \in Int
          BY <1>1, <4>1
        <4> QED
          BY <1>1, <2>3, <4>2, <4>3
      <3>2. Window(plan, k) * job.fps >= (120 * plan.den) * 10
        <4>1. Window(plan, k) * job.fps >= Window(plan, k) * 10
          BY <1>2, <2>3
        <4>2. Window(plan, k) * job.fps \in Int
          BY <1>2, <2>3
        <4> QED
          BY <1>1, <2>3, <3>1, <4>1, <4>2
      <3> QED
        BY <1>1, <1>2, <2>2, <2>3, <3>2
    <2>5. CASE n = 1
      <3>1. k = 1 /\ Window(plan, k) = job.total * plan.den
        BY <1>1, <1>2, <2>5 DEF Window
      <3>2. (job.total * plan.den) * job.fps = (job.total * job.fps) * plan.den
        BY <1>1, <1>2
      <3>3. (job.total * job.fps) * plan.den >= 240 * plan.den
        <4>1. PICK z \in Int : z = job.total * job.fps /\ z >= 240
          BY <1>2 DEF Second
        <4> QED
          BY <1>1, <4>1
      <3> QED
        BY <1>2, <2>2, <3>1, <3>2, <3>3
    <2> QED
      BY <1>1, <2>4, <2>5
  <1>7. ASSUME NEW k \in 1..n PROVE f[k] \in Int /\ f[k] = R(k + 1) - R(k)
    <2>1. k \in 1..(n + 1) /\ k + 1 \in 1..(n + 1)
      BY <1>1
    <2>2. PICK x \in Int, y \in Int : /\ x = R(k) /\ y = R(k + 1) /\ x * b \in Int /\ y * b \in Int
                                      /\ 2 * (x * b) <= 2 * At(k) + b
                                      /\ 2 * At(k + 1) <= 2 * (y * b) + b
      BY <1>4, <2>1
    <2>3. x + 1 <= y
      <3>1. y * b >= x * b + b \/ (x = 0 /\ 2 * (y * b) >= b)
        <4>1. PICK p \in Int, q \in Int : p = At(k) /\ q = At(k + 1)
          BY <1>3, <2>1
        <4>2. q - p >= b /\ (k # 1 => q - p >= 2 * b) /\ (k = 1 => p = 0 /\ x = 0)
          BY <1>5, <1>6, <2>2, <4>1
        <4>3. 2 * (x * b) <= 2 * p + b /\ 2 * q <= 2 * (y * b) + b
          BY <2>2, <4>1
        <4>4. PICK u \in Int, v \in Int : u = x * b /\ v = y * b
          BY <2>2
        <4> QED
          BY <1>2, <4>2, <4>3, <4>4
      <3>2. ASSUME y <= x PROVE FALSE
        <4>1. y * b <= x * b
          BY <1>2, <2>2, <3>2
        <4>2. CASE y * b >= x * b + b
          BY <1>2, <2>2, <4>1, <4>2
        <4>3. CASE x = 0 /\ 2 * (y * b) >= b
          <5>1. x * b = 0
            BY <1>2, <4>3
          <5> QED
            BY <1>2, <2>2, <4>1, <4>3, <5>1
        <4> QED
          BY <3>1, <4>2, <4>3
      <3> QED
        BY <2>2, <3>2
    <2>4. SectionFrames(job, plan, k) = AtLeast(1, y - x)
      BY <2>2 DEF SectionFrames, R, At, b
    <2> QED
      BY <2>2, <2>3, <2>4 DEF AtLeast
  <1>8. SumTo(i, f) = R(i + 1)
    <2>1. \A k \in 1..i : f[k] \in Int
      BY <1>1, <1>7
    <2>2. Adds(g, i, f)
      <3>1. i \in Nat /\ g[0] = 0
        BY <1>1, <1>5
      <3>2. ASSUME NEW k \in 1..i PROVE g[k] = g[k - 1] + f[k]
        <4>1. k \in 1..n /\ k - 1 \in 0..i /\ k \in 0..i /\ (k - 1) + 1 = k
          BY <1>1
        <4>2. g[k] = R(k + 1) /\ g[k - 1] = R(k)
          BY <4>1
        <4>3. k \in 1..(n + 1) /\ k + 1 \in 1..(n + 1)
          BY <1>1
        <4>4. R(k) \in Int /\ R(k + 1) \in Int /\ f[k] = R(k + 1) - R(k)
          BY <1>4, <1>7, <4>1, <4>3
        <4> HIDE DEF g, f
        <4> QED
          BY <4>2, <4>4
      <3> HIDE DEF g, f
      <3> QED
        BY <3>1, <3>2 DEF Adds
    <2>3. SumTo(i, f) = g[i]
      <3> HIDE DEF g, f
      <3>1. i \in Nat
        BY <1>1
      <3> QED
        BY <2>1, <2>2, <3>1, SumIs
    <2>4. i \in 0..i
      BY <1>1
    <2> QED
      BY <2>3, <2>4
  <1>9. i + 1 \in 1..(n + 1)
    BY <1>1
  <1>10. PICK x \in Int, y \in Int : /\ x = R(i + 1) * b /\ y = At(i + 1)
                                     /\ 2 * x <= 2 * y + b /\ 2 * y <= 2 * x + b
    BY <1>3, <1>4, <1>9
  <1>11. 2 * Drift(x, y) <= b
    BY <1>2, <1>10 DEF Drift
  <1>12. SumTo(i, f) * Second * plan.den = x
    <2>1. PICK z \in Int : z = R(i + 1)
      BY <1>4, <1>9
    <2>2. z * Second * plan.den = z * (Second * plan.den)
      BY <1>1 DEF Second
    <2> QED
      BY <1>8, <1>10, <2>1, <2>2 DEF b
  <1> HIDE DEF f
  <1>13. 2 * Drift(SumTo(i, f) * Second * plan.den, plan.cuts[i + 1] * job.fps) <= Second * plan.den
    BY <1>10, <1>11, <1>12 DEF At, b
  <1> QED
    BY <1>13 DEF f

\* An action of the prompt goes to one section, or to all of them.
LEMMA ActionsAreShownOnce ==
    ASSUME NEW job \in VideoRequest, NEW n \in Nat \ {0}, NEW k \in DOMAIN job.story
    PROVE  Cardinality(SectionsOfAction(job, n, k)) \in {1, n}
  <1> DEFINE timed == {a \in DOMAIN job.story : job.story[a] # <<>>}
             width == CeilDiv(Len(job.story), n)
             at    == job.story[k]
             to    == SectionsOfAction(job, n, k)
             place == {i \in 1..n : (i - 1) * width < k /\ k <= i * width}
  <1>1. \A x : Cardinality({x}) = 1
    BY FS_Singleton
  <1>2. Cardinality(1..n) = n
    <2>1. 1 \in Int /\ n \in Int /\ ~(1 > n) /\ n - 1 + 1 = n
      OBVIOUS
    <2> QED
      BY <2>1, FS_Interval
  <1>3. to = IF n = 1 THEN {1}
             ELSE IF timed = {} THEN place
             ELSE IF k \notin timed THEN 1..n
             ELSE {AtMost(n, 1 + ((at[1] + at[2]) * n) \div (2 * job.total))}
    BY DEF SectionsOfAction
  <1>4. \E m : place = {m}
    <2>1. PICK l \in Nat \ {0} : l = Len(job.story) /\ k \in 1..l
      <3>1. PICK s \in Seq({<<>>} \cup (Nat \X Nat)) : s = job.story
        BY DEF VideoRequest
      <3>2. Len(s) \in Nat /\ DOMAIN s = 1..Len(s)
        BY <3>1
      <3> QED
        BY <3>1, <3>2
    <2>2. PICK w \in Nat \ {0} : w = width /\ l <= w * n
      <3>1. CeilDiv(l, n) \in Nat \ {0} /\ l <= CeilDiv(l, n) * n
        BY <2>1, CeilDivIs
      <3> QED
        BY <2>1, <3>1
    <2>3. PICK m \in Nat \ {0} : k <= m * w /\ (m - 1) * w < k
      <3>1. k \in Nat \ {0}
        BY <2>1
      <3>2. CeilDiv(k, w) \in Nat \ {0} /\ k <= CeilDiv(k, w) * w /\ (CeilDiv(k, w) - 1) * w < k
        BY <2>2, <3>1, CeilDivIs
      <3> QED
        BY <3>2
    <2>4. k <= n * w /\ k \in Nat
      BY <2>1, <2>2
    <2>5. m <= n
      <3>1. ASSUME m >= n + 1 PROVE FALSE
        <4>1. (m - 1) * w >= n * w
          <5>1. PICK j \in Nat : j = m - 1 /\ j >= n
            BY <2>3, <3>1
          <5>2. j * w >= n * w
            BY <2>2, <5>1
          <5> QED
            BY <5>1, <5>2
        <4> QED
          BY <2>2, <2>3, <2>4, <4>1
      <3> QED
        BY <2>3, <3>1
    <2>6. ASSUME NEW i \in 1..n, (i - 1) * w < k, k <= i * w PROVE i = m
      <3>1. ASSUME i < m PROVE FALSE
        <4>1. (m - 1) * w >= i * w
          <5>1. PICK j \in Int : j = m - 1 /\ i <= j
            BY <2>3, <3>1
          <5>2. i \in Int /\ w \in Nat
            BY <2>2, <2>3
          <5>3. i * w <= j * w
            BY ZenonT(20), <5>1, <5>2, ProductsGrow
          <5>4. j * w \in Int /\ i * w \in Int
            BY <5>1, <5>2
          <5> QED
            BY <5>1, <5>3, <5>4
        <4> QED
          BY <2>2, <2>3, <2>4, <2>6, <4>1
      <3>2. ASSUME m < i PROVE FALSE
        <4>1. (i - 1) * w >= m * w
          <5>1. PICK j \in Int : j = i - 1 /\ m <= j
            BY <2>3, <3>2
          <5>2. m \in Int /\ w \in Nat
            BY <2>2, <2>3
          <5>3. m * w <= j * w
            BY ZenonT(20), <5>1, <5>2, ProductsGrow
          <5>4. j * w \in Int /\ m * w \in Int
            BY <5>1, <5>2
          <5> QED
            BY <5>1, <5>3, <5>4
        <4> QED
          BY <2>2, <2>3, <2>4, <2>6, <4>1
      <3> QED
        BY <2>3, <3>1, <3>2
    <2>7. m \in 1..n /\ (m - 1) * w < k /\ k <= m * w
      BY <2>3, <2>5
    <2>8. place = {m}
      BY <2>2, <2>6, <2>7
    <2> QED
      BY <2>8
  <1> HIDE DEF place, timed, at, to
  <1> QED
    BY <1>1, <1>2, <1>3, <1>4 DEF to

\* A plan that tiles the video has no window beyond the ceiling.
LEMMA TiledIsNotTooLong ==
    ASSUME NEW job \in VideoRequest, NEW plan, Tiles(job, plan)
    PROVE  ~TooLong(job, plan)
  <1>1. plan \in VideoPlan
    BY DEF Tiles
  <1>2. PassCeiling(job) * plan.den \in Int
    BY <1>1, PlanFields, PassesAreFew
  <1>3. ASSUME NEW i \in 1..Sections(plan) PROVE ~(Window(plan, i) > PassCeiling(job) * plan.den)
    <2>1. Window(plan, i) \in Int /\ Window(plan, i) <= PassCeiling(job) * plan.den
      BY <1>1, PlanFields DEF Tiles
    <2> QED
      BY <1>2, <2>1
  <1> QED
    BY <1>3 DEF TooLong

(***************************************************************************)
(* Videos.                                                                 *)
(***************************************************************************)
\* Each section's slice of the bar ends where the next begins, and a marker's place
\* in it is not before an earlier marker's.
LEMMA BandsMeet ==
    ASSUME NEW n \in Nat \ {0}, NEW i \in 1..n
    PROVE  /\ Band(i, n)[1] \in 15..85 /\ Band(i, n)[2] \in 15..85 /\ Band(i, n)[1] <= Band(i, n)[2]
           /\ i < n => Band(i + 1, n)[1] = Band(i, n)[2]
           /\ Band(1, n)[1] = 15
           /\ \A m \in 1..6 : Reported(i, n, m) \in Band(i, n)[1]..Band(i, n)[2]
           /\ \A m, l \in 1..6 : m <= l => Reported(i, n, m) <= Reported(i, n, l)
  <1> DEFINE a == (70 * (i - 1)) \div n
             b == (70 * i) \div n
             Place(m) == ((Markers[m] - 15) * (b - a)) \div 70
  <1>1. a \in 0..70 /\ b \in 0..70 /\ a <= b
    <2>1. 0 \div n = 0 /\ (70 * n) \div n = 70
      OBVIOUS
    <2>2. /\ 0 \in Int /\ 70 * (i - 1) \in Int /\ 70 * i \in Int /\ 70 * n \in Int
          /\ 0 <= 70 * (i - 1) /\ 70 * (i - 1) <= 70 * i /\ 70 * i <= 70 * n
      OBVIOUS
    <2>3. 0 \div n <= a /\ a <= b /\ b <= (70 * n) \div n /\ a \in Int /\ b \in Int
      BY <2>2, DivMono, DivBounds
    <2> HIDE DEF a, b
    <2> QED
      BY <2>1, <2>3
  <1>2. Band(i, n) = <<15 + a, 15 + b>>
    BY DEF Band
  <1>3. Band(i + 1, n)[1] = 15 + b /\ Band(1, n)[1] = 15
    BY DEF Band
  <1>4. \A m \in 1..6 : Reported(i, n, m) = 15 + a + Place(m)
    <2> SUFFICES ASSUME NEW m \in 1..6 PROVE Reported(i, n, m) = 15 + a + Place(m)
      OBVIOUS
    <2>1. Band(i, n)[2] - Band(i, n)[1] = b - a
      <3> HIDE DEF a, b
      <3> QED
        BY <1>1, <1>2
    <2> HIDE DEF a, b
    <2> QED
      BY <1>2, <2>1 DEF Reported
  <1> HIDE DEF a, b
  <1>5. \A m \in 1..6 : Place(m) \in 0..(b - a)
    BY <1>1 DEF Markers
  <1>6. ASSUME NEW m \in 1..6, NEW l \in 1..6, m <= l PROVE Place(m) <= Place(l)
    <2>1. Markers[m] \in Int /\ Markers[l] \in Int /\ Markers[m] <= Markers[l] /\ Markers[m] >= 15
      BY <1>6 DEF Markers
    <2>2. (Markers[m] - 15) * (b - a) <= (Markers[l] - 15) * (b - a)
      BY <1>1, <2>1
    <2>3. (Markers[m] - 15) * (b - a) \in Int /\ (Markers[l] - 15) * (b - a) \in Int
      BY <1>1, <2>1
    <2> QED
      BY <2>2, <2>3, DivMono
  <1> HIDE DEF Place
  <1> QED
    BY <1>1, <1>2, <1>3, <1>4, <1>5, <1>6

\* The last marker of a section is where the next one's slice begins, and of the last
\* section where they all end.
LEMMA LastMarkEndsSlice ==
    ASSUME NEW n \in Nat \ {0}, NEW i \in 1..n
    PROVE  Reported(i, n, 6) = IF i < n THEN Band(i + 1, n)[1] ELSE 85
  <1>1. PICK a \in Int, b \in Int : Band(i, n) = <<a, b>> /\ b = 15 + (70 * i) \div n
    BY DEF Band
  <1>2. Reported(i, n, 6) = b
    <2>1. Reported(i, n, 6) = a + (70 * (b - a)) \div 70
      BY <1>1 DEF Reported, Markers
    <2>2. (70 * (b - a)) \div 70 = b - a
      BY <1>1
    <2> QED
      BY <1>1, <2>1, <2>2
  <1>3. CASE i < n
    <2>1. Band(i, n)[2] = b
      BY <1>1
    <2> QED
      BY <1>2, <1>3, <2>1, BandsMeet
  <1>4. CASE ~(i < n)
    <2>1. i = n /\ (70 * n) \div n = 70
      BY <1>4
    <2> QED
      BY <1>1, <1>2, <1>4, <2>1
  <1> QED
    BY <1>3, <1>4

VideoState ==
    [at : {"idle", "checking", "directing", "planning", "section", "preparing", "rendering",
           "awaiting", "killing", "rendered", "frame", "assembling", "delivered", "failed", "cancelled"},
     job : VideoJobs, plan : VideoPlan \cup {NoPlanYet}, i : Nat \ {0}, frames : Nat,
     mark : 0..6, bar : 0..96, parts : Seq(Int), faulty : Nat, seam : Nat,
     cancelled : BOOLEAN, ends : {"none", "cancelled"}, retry : BOOLEAN]

Early   == {"idle", "checking", "directing", "planning"}
Chained == {"section", "preparing", "rendering", "awaiting", "killing", "rendered", "frame",
            "assembling"}
Running == {"rendering", "awaiting"}

\* What a bar shows of a pass that announced so many markers.
Shows(i, n, mark, bar) ==
    /\ mark = 0 => bar <= Band(i, n)[1]
    /\ mark > 0 => bar = Reported(i, n, mark)

\* Where the bar is: at most at the start of a section's slice when its pass is
\* launched, then at the last marker, and never beyond the slice.
BarInBand(v) ==
    LET band == Band(v.i, Sections(v.plan)) IN
    /\ v.at \in Early => v.bar <= 14
    /\ v.at \in {"section", "preparing"} => v.bar <= band[1]
    /\ v.at \in Running => Shows(v.i, Sections(v.plan), v.mark, v.bar)
    /\ v.at \in {"rendered", "frame"} => v.bar <= band[2]

\* The inductive invariant.  While there are passes there is a plan that tiles the
\* video, and fewer parts than passes begun.
VideoGood(v) ==
    /\ v \in VideoState
    /\ v.at \in Early => v.i = 1 /\ v.parts = <<>>
    /\ v.at \in Chained => Tiles(v.job, v.plan) /\ v.i \in 1..Sections(v.plan)
    /\ v.at = "frame" => v.i < Sections(v.plan)
    /\ Len(v.parts) <= v.i
    /\ v.at \notin {"frame", "assembling"} \cup VideoOver => Len(v.parts) < v.i
    /\ v.at \in Running => v.frames = RenderedFrames(v.job, v.plan, v.i)
    /\ v.at = "killing" => v.ends = "cancelled"
    /\ BarInBand(v)

VideoInv == VideoGood(video) /\ gpu \subseteq {"render", "stray"}

\* A job that is over asks nothing more of its state.
LEMMA OverIsGood ==
    ASSUME NEW v, VideoGood(v), NEW w \in VideoState, w.at \in VideoOver, w.i = v.i, w.parts = v.parts
    PROVE  VideoGood(w)
  BY DEF VideoGood, BarInBand, VideoOver, Early, Chained, Running

\* A job that fails, or is cancelled, wherever it was.
LEMMA FailingIsGood ==
    ASSUME NEW v, VideoGood(v), NEW retry \in BOOLEAN, NEW w, w = Failing(v, retry)
    PROVE  VideoGood(w)
  <1>1. v \in VideoState /\ w = [v EXCEPT !.at = "failed", !.retry = retry]
    BY DEF VideoGood, Failing
  <1>2. w \in VideoState
    BY ZenonT(40), <1>1 DEF VideoState
  <1>3. w.at = "failed" /\ w.i = v.i /\ w.parts = v.parts
    BY <1>1 DEF VideoState
  <1> QED
    BY <1>2, <1>3, OverIsGood DEF VideoOver

\* A cancelled job is one that is over.
LEMMA CancelledIsGood ==
    ASSUME NEW v, VideoGood(v), NEW w, w = [v EXCEPT !.at = "cancelled"]
    PROVE  VideoGood(w)
  <1>1. v \in VideoState
    BY DEF VideoGood
  <1>2. w \in VideoState
    BY ZenonT(40), <1>1 DEF VideoState
  <1>3. w.at = "cancelled" /\ w.i = v.i /\ w.parts = v.parts
    BY <1>1 DEF VideoState
  <1> QED
    BY <1>2, <1>3, OverIsGood DEF VideoOver

\* What the invariant says of a job's fields while there are passes.
LEMMA ChainFields ==
    ASSUME NEW v, VideoGood(v), v.at \in Chained
    PROVE  /\ v \in VideoState /\ v.job \in VideoRequest /\ v.plan \in VideoPlan
           /\ Tiles(v.job, v.plan) /\ Sections(v.plan) \in Nat \ {0} /\ v.i \in 1..Sections(v.plan)
           /\ v.parts \in Seq(Int) /\ v.bar \in 0..96 /\ v.mark \in 0..6 /\ v.frames \in Nat
           /\ RenderedFrames(v.job, v.plan, v.i) \in Nat
           /\ RenderedFrames(v.job, v.plan, v.i) >= FramesOf(v.plan, v.i)
           /\ RenderedFrames(v.job, v.plan, v.i) \notin Deadly(v.job, Images(v.job, v.plan, v.i))
           /\ FramesOf(v.plan, v.i) \in Nat \ {0}
  <1>1. v \in VideoState /\ Tiles(v.job, v.plan) /\ v.i \in 1..Sections(v.plan)
    BY DEF VideoGood
  <1>2. v.job \in VideoRequest
    BY <1>1, VideoAssumption DEF VideoState, VideoAssumption
  <1>3. v.plan \in VideoPlan
    BY <1>1 DEF Tiles
  <1>4. v.parts \in Seq(Int) /\ v.bar \in 0..96 /\ v.mark \in 0..6 /\ v.frames \in Nat
    BY <1>1 DEF VideoState
  <1>5. Window(v.plan, v.i) <= PassCeiling(v.job) * v.plan.den
    BY <1>1 DEF Tiles
  <1>6. PICK job, plan, i : /\ job = v.job /\ plan = v.plan /\ i = v.i
                            /\ job \in VideoRequest /\ plan \in VideoPlan /\ i \in 1..Sections(plan)
    BY <1>1, <1>2, <1>3
  <1>7. /\ RenderedFrames(job, plan, i) \in Nat
        /\ RenderedFrames(job, plan, i) >= FramesOf(plan, i)
        /\ RenderedFrames(job, plan, i) \notin Deadly(job, Images(job, plan, i))
    BY <1>5, <1>6, PassesAreSafe
  <1>8. Sections(plan) \in Nat \ {0} /\ FramesOf(plan, i) \in Nat \ {0}
    BY <1>6, PlanFields
  <1> QED
    BY <1>1, <1>2, <1>3, <1>4, <1>6, <1>7, <1>8

\* A job that starts over in another stage of its pass.
LEMMA OpeningKeeps ==
    ASSUME NEW v, VideoGood(v), v.at \in Early, NEW w \in VideoState,
           w.at \in Early, w.i = v.i, w.parts = v.parts, w.bar <= 14
    PROVE  VideoGood(w)
  BY DEF VideoGood, BarInBand, Early, Chained, Running, VideoOver

\* Planning a chain keeps the invariant: no plan is too long.
LEMMA PlanningKeeps ==
    ASSUME NEW v, VideoGood(v), v.at = "planning", NEW w,
           w = IF TooLong(v.job, PlanOf[v.job]) THEN Failing([v EXCEPT !.ends = "plan"], TRUE)
               ELSE [v EXCEPT !.at = "section", !.plan = PlanOf[v.job]]
    PROVE  VideoGood(w)
  <1>1. v \in VideoState /\ v.i = 1 /\ v.parts = <<>> /\ v.bar <= 14 /\ v.bar \in 0..96
    BY DEF VideoGood, VideoState, Early, BarInBand
  <1>2. v.job \in VideoJobs /\ v.job \in VideoRequest
    BY <1>1, VideoAssumption DEF VideoState, VideoAssumption
  <1>3. PICK plan : plan = PlanOf[v.job] /\ plan = Plan(v.job)
    BY <1>2 DEF PlanOf
  <1>4. Tiles(v.job, plan) /\ ~TooLong(v.job, plan)
    <2>1. PICK job \in VideoRequest : job = v.job
      BY <1>2
    <2> QED
      BY <1>3, <2>1, PlansTile, TiledIsNotTooLong
  <1>5. plan \in VideoPlan
    BY <1>4 DEF Tiles
  <1>6. Sections(plan) \in Nat \ {0}
    BY <1>5, PlanFields
  <1>7. w = [v EXCEPT !.at = "section", !.plan = plan]
    BY <1>3, <1>4
  <1>8. w \in VideoState
    BY ZenonT(40), <1>1, <1>5, <1>7 DEF VideoState
  <1>9. w.at = "section" /\ w.plan = plan /\ w.i = 1 /\ w.parts = <<>> /\ w.bar = v.bar /\ w.job = v.job
    BY <1>1, <1>7 DEF VideoState
  <1>10. Band(1, Sections(plan))[1] = 15
    <2>1. 1 \in 1..Sections(plan)
      BY <1>6
    <2> QED
      BY <1>6, <2>1, BandsMeet
  <1>11. BarInBand(w)
    <2>1. Band(w.i, Sections(w.plan))[1] = 15
      BY <1>9, <1>10
    <2>2. w.bar <= 15
      <3>1. PICK b \in 0..96 : b = v.bar /\ b <= 14
        BY <1>1
      <3>2. b <= 15
        BY <3>1
      <3> QED
        BY <1>9, <3>1, <3>2
    <2> QED
      BY <1>9, <2>1, <2>2 DEF BarInBand, Early, Running
  <1>12. Tiles(w.job, w.plan) /\ w.i \in 1..Sections(w.plan)
    <2>1. 1 \in 1..Sections(plan)
      BY <1>6
    <2> QED
      BY <1>4, <1>9, <2>1
  <1>13. Len(w.parts) = 0
    BY <1>9
  <1> QED
    BY <1>8, <1>9, <1>11, <1>12, <1>13 DEF VideoGood, Early, Chained, Running, VideoOver

\* Starting a section keeps the invariant.
LEMMA StartKeeps ==
    ASSUME NEW v, VideoGood(v), v.at = "section", NEW w, w = [v EXCEPT !.at = "preparing"]
    PROVE  VideoGood(w)
  <1>1. v \in VideoState
    BY DEF VideoGood
  <1>2. w \in VideoState
    BY ZenonT(40), <1>1 DEF VideoState
  <1>3. /\ w.at = "preparing" /\ w.i = v.i /\ w.parts = v.parts /\ w.plan = v.plan
        /\ w.job = v.job /\ w.bar = v.bar
    BY <1>1 DEF VideoState
  <1>4. BarInBand(w)
    BY <1>3 DEF VideoGood, BarInBand, Early, Running
  <1> QED
    BY <1>2, <1>3, <1>4 DEF VideoGood, Early, Chained, Running, VideoOver

\* Launching a pass keeps the invariant.
LEMMA LaunchKeeps ==
    ASSUME NEW v, VideoGood(v), v.at = "preparing", NEW w,
           w = [v EXCEPT !.at = "rendering", !.mark = 0,
                         !.frames = RenderedFrames(v.job, v.plan, v.i)]
    PROVE  VideoGood(w)
  <1>1. v \in VideoState /\ RenderedFrames(v.job, v.plan, v.i) \in Nat
    BY ChainFields DEF Chained
  <1>2. w \in VideoState
    <2>1. 0 \in 0..6
      OBVIOUS
    <2> QED
      BY ZenonT(40), <1>1, <2>1 DEF VideoState
  <1>3. /\ w.at = "rendering" /\ w.i = v.i /\ w.parts = v.parts /\ w.plan = v.plan
        /\ w.job = v.job /\ w.bar = v.bar /\ w.mark = 0
        /\ w.frames = RenderedFrames(v.job, v.plan, v.i)
    BY <1>1 DEF VideoState
  <1>4. BarInBand(w)
    BY <1>3 DEF VideoGood, BarInBand, Early, Running, Shows
  <1> QED
    BY <1>2, <1>3, <1>4 DEF VideoGood, Early, Chained, Running, VideoOver

\* A marker ahead of the last is shown as it is reported.
Announces(i, n, mark, bar, m) ==
    /\ n \in Nat \ {0} /\ i \in 1..n /\ mark \in 0..6 /\ m \in 1..6 /\ mark < m
    /\ bar \in 0..96 /\ Shows(i, n, mark, bar)

\* A marker ahead of the last raises the bar to its place and no further.
LEMMA MarkRises ==
    ASSUME NEW i, NEW n, NEW mark, NEW bar, NEW m, Announces(i, n, mark, bar, m)
    PROVE  Reported(i, n, m) \in 0..96 /\ AtLeast(bar, Reported(i, n, m)) = Reported(i, n, m)
  <1>0. /\ n \in Nat \ {0} /\ i \in 1..n /\ mark \in 0..6 /\ m \in 1..6 /\ mark < m
        /\ bar \in 0..96 /\ Shows(i, n, mark, bar)
    BY DEF Announces
  <1>1. /\ Band(i, n)[1] \in 15..85 /\ Band(i, n)[2] \in 15..85
        /\ \A k \in 1..6 : Reported(i, n, k) \in Band(i, n)[1]..Band(i, n)[2]
        /\ \A k, l \in 1..6 : k <= l => Reported(i, n, k) <= Reported(i, n, l)
    BY <1>0, BandsMeet
  <1>2. PICK x \in Int, y \in Int, r \in Int :
          /\ x = Band(i, n)[1] /\ y = Band(i, n)[2] /\ r = Reported(i, n, m)
          /\ 15 <= x /\ x <= r /\ r <= y /\ y <= 85
    <2>1. PICK x \in Int, y \in Int : x = Band(i, n)[1] /\ y = Band(i, n)[2] /\ 15 <= x /\ y <= 85
      BY <1>1
    <2>2. PICK r : r = Reported(i, n, m) /\ r \in x..y
      BY <1>0, <1>1, <2>1
    <2>3. r \in Int /\ x <= r /\ r <= y
      BY <2>1, <2>2
    <2> QED
      BY <2>1, <2>2, <2>3
  <1>3. bar <= r
    <2>1. CASE mark = 0
      BY <1>0, <1>2, <2>1 DEF Shows
    <2>2. CASE mark > 0
      <3>1. mark \in 1..6 /\ mark <= m
        BY <1>0, <2>2
      <3> QED
        BY <1>0, <1>1, <1>2, <2>2, <3>1 DEF Shows
    <2> QED
      BY <1>0, <2>1, <2>2
  <1>4. AtLeast(bar, r) = r
    BY <1>0, <1>2, <1>3 DEF AtLeast
  <1> QED
    BY <1>2, <1>4

\* A marker keeps the invariant.
LEMMA MarkerKeeps ==
    ASSUME NEW v, VideoGood(v), v.at = "rendering", NEW m \in 1..6, v.mark < m, NEW w,
           w = [v EXCEPT !.mark = m, !.bar = AtLeast(@, Reported(v.i, Sections(v.plan), m))]
    PROVE  VideoGood(w)
  <1>1. /\ v \in VideoState /\ Sections(v.plan) \in Nat \ {0} /\ v.i \in 1..Sections(v.plan)
        /\ v.bar \in 0..96 /\ v.mark \in 0..6
    BY ChainFields DEF Chained
  <1>3. PICK n, i, mark, bar : /\ n = Sections(v.plan) /\ i = v.i /\ n \in Nat \ {0} /\ i \in 1..n
                               /\ mark = v.mark /\ bar = v.bar /\ mark \in 0..6 /\ bar \in 0..96
                               /\ mark < m
    BY Zenon, <1>1
  <1>4. Shows(i, n, mark, bar)
    BY <1>3 DEF VideoGood, BarInBand, Running
  <1>5. Reported(i, n, m) \in 0..96 /\ AtLeast(bar, Reported(i, n, m)) = Reported(i, n, m)
    <2>1. Announces(i, n, mark, bar, m)
      BY <1>3, <1>4 DEF Announces
    <2> QED
      BY <2>1, MarkRises
  <1>6. w = [v EXCEPT !.mark = m, !.bar = Reported(i, n, m)]
    BY <1>3, <1>5
  <1>7. w \in VideoState
    <2>1. m \in 0..6
      OBVIOUS
    <2> QED
      BY ZenonT(40), <1>5, <1>1, <1>6, <2>1 DEF VideoState
  <1>8. /\ w.at = "rendering" /\ w.i = v.i /\ w.parts = v.parts /\ w.plan = v.plan
        /\ w.job = v.job /\ w.bar = Reported(i, n, m) /\ w.mark = m /\ w.frames = v.frames
    BY <1>1, <1>6 DEF VideoState
  <1>9. BarInBand(w)
    BY <1>3, <1>8 DEF BarInBand, Early, Running, Shows
  <1> QED
    BY <1>7, <1>8, <1>9 DEF VideoGood, Early, Chained, Running, VideoOver

\* A render that closes its output keeps the invariant.
LEMMA CloseKeeps ==
    ASSUME NEW v, VideoGood(v), v.at = "rendering", NEW w, w = [v EXCEPT !.at = "awaiting"]
    PROVE  VideoGood(w)
  <1>1. v \in VideoState
    BY DEF VideoGood
  <1>2. w \in VideoState
    BY ZenonT(40), <1>1 DEF VideoState
  <1>3. /\ w.at = "awaiting" /\ w.i = v.i /\ w.parts = v.parts /\ w.plan = v.plan
        /\ w.job = v.job /\ w.bar = v.bar /\ w.mark = v.mark /\ w.frames = v.frames
    BY <1>1 DEF VideoState
  <1>4. BarInBand(w)
    BY <1>3 DEF VideoGood, BarInBand, Early, Running
  <1> QED
    BY <1>2, <1>3, <1>4 DEF VideoGood, Early, Chained, Running, VideoOver

\* Killing a render keeps the invariant.
LEMMA KillKeeps ==
    ASSUME NEW v, VideoGood(v), v.at \in Running, NEW w,
           w = Kill([v EXCEPT !.ends = "cancelled"])
    PROVE  VideoGood(w)
  <1>1. v \in VideoState /\ w = [v EXCEPT !.ends = "cancelled", !.at = "killing"]
    BY DEF VideoGood, Kill
  <1>2. w \in VideoState
    BY ZenonT(40), <1>1 DEF VideoState
  <1>3. /\ w.at = "killing" /\ w.i = v.i /\ w.parts = v.parts /\ w.plan = v.plan
        /\ w.job = v.job /\ w.ends = "cancelled"
    BY <1>1 DEF VideoState
  <1>4. BarInBand(w)
    BY <1>3 DEF BarInBand, Early, Running
  <1> QED
    BY <1>2, <1>3, <1>4 DEF VideoGood, Early, Chained, Running, VideoOver

\* A pass that ends with a file, of any length, keeps the invariant.
LEMMA ExitKeeps ==
    ASSUME NEW v, VideoGood(v), v.at = "awaiting", NEW length \in Nat, NEW faulty \in Nat, NEW w,
           w = [v EXCEPT !.at = "rendered", !.frames = length, !.faulty = faulty]
    PROVE  VideoGood(w)
  <1>1. v \in VideoState
    BY DEF VideoGood
  <1>2. w \in VideoState
    BY ZenonT(40), <1>1 DEF VideoState
  <1>3. /\ w.at = "rendered" /\ w.i = v.i /\ w.parts = v.parts /\ w.plan = v.plan
        /\ w.job = v.job /\ w.bar = v.bar
    BY <1>1 DEF VideoState
  <1>4. PICK n, i, mark, bar : /\ n = Sections(v.plan) /\ i = v.i /\ n \in Nat \ {0} /\ i \in 1..n
                               /\ mark = v.mark /\ bar = v.bar /\ mark \in 0..6 /\ bar \in 0..96
    BY ChainFields DEF Chained
  <1>5. Shows(i, n, mark, bar)
    BY <1>4 DEF VideoGood, BarInBand, Running
  <1>6. bar <= Band(i, n)[2]
    <2>1. PICK x \in Int, y \in Int : x = Band(i, n)[1] /\ y = Band(i, n)[2] /\ x <= y
      <3>1. Band(i, n)[1] \in 15..85 /\ Band(i, n)[2] \in 15..85 /\ Band(i, n)[1] <= Band(i, n)[2]
        BY <1>4, BandsMeet
      <3> QED
        BY <3>1
    <2>2. CASE mark = 0
      BY <1>4, <1>5, <2>1, <2>2 DEF Shows
    <2>3. CASE mark > 0
      <3>1. mark \in 1..6 /\ bar = Reported(i, n, mark)
        BY <1>4, <1>5, <2>3 DEF Shows
      <3>2. bar \in x..y
        BY <1>4, <2>1, <3>1, BandsMeet
      <3> QED
        BY <2>1, <3>2
    <2> QED
      BY <1>4, <2>2, <2>3
  <1>7. BarInBand(w)
    BY <1>3, <1>4, <1>6 DEF BarInBand, Early, Running
  <1> QED
    BY <1>2, <1>3, <1>7 DEF VideoGood, Early, Chained, Running, VideoOver

\* A part has a number of frames.
LEMMA TrimmedType ==
    ASSUME NEW came \in Int, NEW wanted \in Int, NEW rendered \in Int
    PROVE  TrimmedTo(came, wanted, rendered) \in Int
  BY DEF TrimmedTo, AtMost

\* Finishing a pass keeps the invariant.
LEMMA FinishKeeps ==
    ASSUME NEW v, VideoGood(v), v.at = "rendered", NEW part \in Int, NEW w,
           w = [v EXCEPT !.parts = Append(@, part),
                         !.at = IF v.i < Sections(v.plan) THEN "frame" ELSE "assembling"]
    PROVE  VideoGood(w)
  <1>1. /\ v \in VideoState /\ v.parts \in Seq(Int) /\ Sections(v.plan) \in Nat \ {0}
        /\ v.i \in 1..Sections(v.plan)
    BY ChainFields DEF Chained
  <1>2. PICK at \in {"frame", "assembling"} :
          at = (IF v.i < Sections(v.plan) THEN "frame" ELSE "assembling")
    OBVIOUS
  <1>3. PICK parts \in Seq(Int) : parts = Append(v.parts, part) /\ Len(parts) = Len(v.parts) + 1
    <2>1. PICK s \in Seq(Int) : s = v.parts
      BY <1>1
    <2>2. Append(s, part) \in Seq(Int) /\ Len(Append(s, part)) = Len(s) + 1
      BY <2>1
    <2> QED
      BY <2>1, <2>2
  <1>4. w = [v EXCEPT !.parts = parts, !.at = at]
    BY <1>2, <1>3
  <1>5. w \in VideoState
    BY ZenonT(40), <1>1, <1>2, <1>3, <1>4 DEF VideoState
  <1>6. /\ w.at = at /\ w.i = v.i /\ w.parts = parts /\ w.plan = v.plan
        /\ w.job = v.job /\ w.bar = v.bar
    BY <1>1, <1>4 DEF VideoState
  <1>7. Len(v.parts) < v.i /\ v.bar <= Band(v.i, Sections(v.plan))[2]
    BY DEF VideoGood, BarInBand, VideoOver
  <1>8. Len(w.parts) <= w.i
    <2>1. PICK l \in Nat, i \in Nat : l = Len(v.parts) /\ i = v.i /\ l < i
      BY SMTT(30), <1>1, <1>7
    <2>2. l + 1 <= i
      BY <2>1
    <2> QED
      BY <1>3, <1>6, <2>1, <2>2
  <1>9. BarInBand(w)
    BY <1>2, <1>6, <1>7 DEF BarInBand, Early, Running
  <1>10. Tiles(w.job, w.plan) /\ w.i \in 1..Sections(w.plan)
    BY <1>1, <1>6 DEF VideoGood, Chained
  <1> QED
    BY <1>2, <1>5, <1>6, <1>8, <1>9, <1>10 DEF VideoGood, Early, Chained, Running, VideoOver

\* Going on to the next section keeps the invariant.
LEMMA NextSectionKeeps ==
    ASSUME NEW v, VideoGood(v), v.at = "frame", NEW w,
           w = [v EXCEPT !.at = "section", !.i = @ + 1, !.seam = v.i]
    PROVE  VideoGood(w)
  <1>1. /\ v \in VideoState /\ Sections(v.plan) \in Nat \ {0} /\ v.i \in 1..Sections(v.plan)
        /\ v.i < Sections(v.plan) /\ v.parts \in Seq(Int)
    BY ChainFields DEF Chained, VideoGood
  <1>2. PICK n, i : /\ n = Sections(v.plan) /\ i = v.i /\ n \in Nat \ {0} /\ i \in 1..n
                    /\ i < n /\ i \in Nat /\ i + 1 \in 1..n /\ i + 1 \in Nat \ {0}
    BY <1>1
  <1>3. w = [v EXCEPT !.at = "section", !.i = i + 1, !.seam = i]
    BY <1>2
  <1>4. w \in VideoState
    BY ZenonT(40), <1>1, <1>2, <1>3 DEF VideoState
  <1>5. /\ w.at = "section" /\ w.i = i + 1 /\ w.parts = v.parts /\ w.plan = v.plan
        /\ w.job = v.job /\ w.bar = v.bar
    BY <1>1, <1>3 DEF VideoState
  <1>6. v.bar <= Band(i + 1, n)[1]
    <2>1. v.bar <= Band(i, n)[2]
      BY <1>2 DEF VideoGood, BarInBand
    <2>2. Band(i + 1, n)[1] = Band(i, n)[2]
      BY <1>2, BandsMeet
    <2> QED
      BY <2>1, <2>2
  <1>7. BarInBand(w)
    BY <1>2, <1>5, <1>6 DEF BarInBand, Early, Running
  <1>8. Len(w.parts) < w.i
    <2>1. PICK l \in Nat : l = Len(v.parts) /\ l <= i
      BY <1>1, <1>2 DEF VideoGood
    <2>2. l < i + 1
      BY <1>2, <2>1
    <2> QED
      BY <1>5, <2>1, <2>2
  <1>9. Len(w.parts) <= w.i
    <2>1. PICK l \in Nat : l = Len(v.parts) /\ l <= i
      BY <1>1, <1>2 DEF VideoGood
    <2>2. l <= i + 1
      BY <1>2, <2>1
    <2> QED
      BY <1>5, <2>1, <2>2
  <1>10. Tiles(w.job, w.plan) /\ w.i \in 1..Sections(w.plan)
    BY <1>2, <1>5 DEF VideoGood, Chained
  <1> QED
    BY <1>4, <1>5, <1>7, <1>8, <1>9, <1>10 DEF VideoGood, Early, Chained, Running, VideoOver

\* The video adapter keeps its invariant.
LEMMA VideoStays ==
    ASSUME VideoInv, VideoMoves \/ UNCHANGED videoVars
    PROVE  VideoInv'
  <1>1. PICK v : v = video /\ VideoGood(v)
    BY DEF VideoInv
  <1>2. PICK w : w = video'
    OBVIOUS
  <1>3. v \in VideoState /\ gpu \subseteq {"render", "stray"}
    BY <1>1 DEF VideoInv, VideoGood
  <1> SUFFICES VideoGood(w) /\ gpu' \subseteq {"render", "stray"}
    BY <1>2 DEF VideoInv
  <1> USE DEF VideoTo
  <1>4. CASE UNCHANGED videoVars
    BY <1>1, <1>2, <1>3, <1>4 DEF videoVars
  <1>5. ASSUME w = v, gpu' \subseteq {"render", "stray"}
        PROVE  VideoGood(w) /\ gpu' \subseteq {"render", "stray"}
    BY <1>1, <1>5
  <1>6. CASE CheckRequest
    <2>1. v.at = "checking" /\ gpu' = gpu
      BY <1>1, <1>6 DEF CheckRequest
    <2>2. CASE w = Failing(v, FALSE)
      BY <1>1, <1>3, <2>1, <2>2, FailingIsGood
    <2>3. CASE w = [v EXCEPT !.at = IF v.job.directed THEN "directing" ELSE "planning", !.bar = 12]
      <3>1. PICK at \in {"directing", "planning"} : w = [v EXCEPT !.at = at, !.bar = 12]
        BY <2>3
      <3>2. w \in VideoState
        <4>1. 12 \in 0..96
          OBVIOUS
        <4> QED
          BY ZenonT(40), <1>3, <3>1, <4>1 DEF VideoState
      <3>3. w.at \in {"directing", "planning"} /\ w.i = v.i /\ w.parts = v.parts /\ w.bar = 12
        BY <1>3, <3>1 DEF VideoState
      <3> QED
        BY <1>1, <1>3, <2>1, <3>2, <3>3, OpeningKeeps DEF Early
    <2> QED
      BY <1>1, <1>2, <1>6, <2>2, <2>3 DEF CheckRequest
  <1>7. ASSUME NEW outcome \in {"ready", "failed", "stopped"}, Directed(outcome)
        PROVE  VideoGood(w) /\ gpu' \subseteq {"render", "stray"}
    <2>1. v.at = "directing" /\ gpu' = gpu
      BY <1>1, <1>7 DEF Directed
    <2>2. CASE outcome = "ready"
      <3>1. w = [v EXCEPT !.at = "planning", !.bar = 14]
        BY <1>1, <1>2, <1>7, <2>2 DEF Directed
      <3>2. w \in VideoState
        <4>1. 14 \in 0..96
          OBVIOUS
        <4> QED
          BY ZenonT(40), <1>3, <3>1, <4>1 DEF VideoState
      <3>3. w.at = "planning" /\ w.i = v.i /\ w.parts = v.parts /\ w.bar = 14
        BY <1>3, <3>1 DEF VideoState
      <3> QED
        BY <1>1, <1>3, <2>1, <3>2, <3>3, OpeningKeeps DEF Early
    <2>3. CASE outcome = "failed"
      <3>1. w = Failing(v, FALSE)
        BY <1>1, <1>2, <1>7, <2>3 DEF Directed
      <3> QED
        BY <1>1, <1>3, <2>1, <3>1, FailingIsGood
    <2>4. CASE outcome = "stopped"
      <3>1. w = [v EXCEPT !.at = "cancelled"]
        BY <1>1, <1>2, <1>7, <2>4 DEF Directed
      <3> QED
        BY <1>1, <1>3, <2>1, <3>1, CancelledIsGood
    <2> QED
      BY <2>2, <2>3, <2>4
  <1>8. CASE PlanSections
    <2>1. /\ v.at = "planning" /\ gpu' = gpu
          /\ w = IF TooLong(v.job, PlanOf[v.job]) THEN Failing([v EXCEPT !.ends = "plan"], TRUE)
                 ELSE [v EXCEPT !.at = "section", !.plan = PlanOf[v.job]]
      BY <1>1, <1>2, <1>8 DEF PlanSections
    <2> QED
      BY <1>1, <1>3, <2>1, PlanningKeeps
  <1>9. CASE StartSection
    <2>1. /\ v.at = "section" /\ gpu' = gpu
          /\ w = [v EXCEPT !.at = "cancelled"] \/ w = [v EXCEPT !.at = "preparing"]
      BY <1>1, <1>2, <1>9 DEF StartSection
    <2> QED
      BY <1>1, <1>3, <2>1, CancelledIsGood, StartKeeps
  <1>10. CASE LaunchPass
    <2>1. v.at = "preparing" /\ gpu' \subseteq {"render", "stray"}
      BY <1>1, <1>3, <1>10 DEF LaunchPass
    <2>2. \/ w = [v EXCEPT !.at = "rendering", !.mark = 0,
                           !.frames = RenderedFrames(v.job, v.plan, v.i)]
          \/ \E retry \in BOOLEAN : w = Failing(v, retry)
      BY <1>1, <1>2, <1>10 DEF LaunchPass
    <2> QED
      BY <1>1, <1>3, <2>1, <2>2, LaunchKeeps, FailingIsGood
  <1>11. CASE PreparationCancelled \/ ToolCancelled
    <2>1. w = [v EXCEPT !.at = "cancelled"] /\ gpu' = gpu
      BY <1>1, <1>2, <1>11 DEF PreparationCancelled, ToolCancelled
    <2> QED
      BY <1>1, <1>3, <2>1, CancelledIsGood
  <1>12. CASE Marker
    <2>1. v.at = "rendering" /\ gpu' = gpu
      BY <1>1, <1>12 DEF Marker
    <2>2. PICK m \in (v.mark + 1)..Len(Markers) :
            w = [v EXCEPT !.mark = m, !.bar = AtLeast(@, Reported(v.i, Sections(v.plan), m))]
      BY <1>1, <1>2, <1>12 DEF Marker
    <2>3. m \in 1..6 /\ v.mark < m
      <3>1. v.mark \in 0..6 /\ Len(Markers) = 6
        BY <1>3 DEF VideoState, Markers
      <3> QED
        BY <2>2, <3>1
    <2> QED
      BY <1>1, <1>3, <2>1, <2>2, <2>3, MarkerKeeps
  <1>13. CASE PollCancelled
    <2>1. v.at = "rendering" /\ gpu' = gpu /\ w = Kill([v EXCEPT !.ends = "cancelled"])
      BY <1>1, <1>2, <1>13 DEF PollCancelled
    <2> QED
      BY <1>1, <1>3, <2>1, KillKeeps DEF Running
  <1>14. CASE Exit \/ FindExited
    <2>1. v.at = "awaiting" /\ gpu' \subseteq {"render", "stray"} /\ Exited
      BY <1>1, <1>3, <1>14 DEF Exit, FindExited
    <2>2. v.frames = RenderedFrames(v.job, v.plan, v.i)
      BY <1>1, <2>1 DEF VideoGood, Running
    <2>3. v.frames \notin Deadly(v.job, Images(v.job, v.plan, v.i)) /\ v.frames \in Nat
      BY <1>1, <2>1, <2>2, ChainFields DEF Chained
    <2>4. \/ w = Failing(v, TRUE)
          \/ \E length \in {v.frames, v.frames \div 2, 2 * v.frames} :
               w = [v EXCEPT !.at = "rendered", !.frames = length,
                             !.faulty = IF length = v.frames THEN @ ELSE @ + 1]
      BY <1>1, <1>2, <2>1, <2>3 DEF Exited
    <2>5. CASE w = Failing(v, TRUE)
      BY <1>1, <2>1, <2>5, FailingIsGood
    <2>6. CASE w # Failing(v, TRUE)
      <3>1. PICK length \in {v.frames, v.frames \div 2, 2 * v.frames} :
               w = [v EXCEPT !.at = "rendered", !.frames = length,
                             !.faulty = IF length = v.frames THEN @ ELSE @ + 1]
        BY <2>4, <2>6
      <3>2. length \in Nat
        BY <2>3, <3>1
      <3>3. PICK faulty \in Nat : faulty = IF length = v.frames THEN v.faulty ELSE v.faulty + 1
        <4>1. v.faulty \in Nat
          BY <1>3 DEF VideoState
        <4> QED
          BY <4>1
      <3>4. w = [v EXCEPT !.at = "rendered", !.frames = length, !.faulty = faulty]
        BY <3>1, <3>3
      <3> QED
        BY <1>1, <2>1, <3>2, <3>3, <3>4, ExitKeeps
    <2> QED
      BY <2>5, <2>6
  <1>15. CASE KillLands \/ KillGraceRunsOut
    <2>1. v.at = "killing" /\ w = [v EXCEPT !.at = v.ends]
          /\ gpu' \subseteq {"render", "stray"}
      BY <1>1, <1>2, <1>3, <1>15 DEF KillLands, KillGraceRunsOut
    <2>2. w = [v EXCEPT !.at = "cancelled"]
      BY <1>1, <2>1 DEF VideoGood
    <2> QED
      BY <1>1, <2>1, <2>2, CancelledIsGood
  <1>16. CASE FinishPass
    <2>1. v.at = "rendered" /\ gpu' = gpu
      BY <1>1, <1>16 DEF FinishPass
    <2>2. PICK part : part = TrimmedTo(v.frames, FramesOf(v.plan, v.i), RenderedFrames(v.job, v.plan, v.i))
      OBVIOUS
    <2>3. part \in Int
      <3>1. /\ v.frames \in Int /\ FramesOf(v.plan, v.i) \in Int
            /\ RenderedFrames(v.job, v.plan, v.i) \in Int
        BY <1>1, <2>1, ChainFields DEF Chained
      <3> QED
        BY <2>2, <3>1, TrimmedType
    <2>4. \/ w = Failing(v, TRUE)
          \/ w = [v EXCEPT !.parts = Append(@, part),
                           !.at = IF v.i < Sections(v.plan) THEN "frame" ELSE "assembling"]
      BY <1>1, <1>2, <1>16, <2>2 DEF FinishPass
    <2> QED
      BY <1>1, <1>3, <2>1, <2>3, <2>4, FailingIsGood, FinishKeeps
  <1>17. CASE TakeFinalFrame
    <2>1. /\ v.at = "frame" /\ gpu' = gpu
          /\ \/ w = [v EXCEPT !.at = "section", !.i = @ + 1, !.seam = v.i]
             \/ w = Failing(v, TRUE)
      BY <1>1, <1>2, <1>17 DEF TakeFinalFrame
    <2> QED
      BY <1>1, <1>3, <2>1, NextSectionKeeps, FailingIsGood
  <1>18. CASE Assemble
    <2>1. gpu' = gpu /\ v.at = "assembling"
      BY <1>1, <1>18 DEF Assemble
    <2>2. w = Failing(v, TRUE) \/ w = [v EXCEPT !.at = "delivered", !.bar = 96]
      BY <1>1, <1>2, <1>18 DEF Assemble
    <2>3. CASE w = [v EXCEPT !.at = "delivered", !.bar = 96]
      <3>1. w \in VideoState
        <4>1. 96 \in 0..96
          OBVIOUS
        <4> QED
          BY ZenonT(40), <1>3, <2>3, <4>1 DEF VideoState
      <3>2. w.at \in VideoOver /\ w.i = v.i /\ w.parts = v.parts
        BY <1>3, <2>3 DEF VideoState, VideoOver
      <3> QED
        BY <1>1, <1>3, <2>1, <3>1, <3>2, OverIsGood
    <2> QED
      BY <1>1, <1>3, <2>1, <2>2, <2>3, FailingIsGood
  <1>19. CASE VideoCancel
    <2>1. w = [v EXCEPT !.cancelled = TRUE] /\ gpu' = gpu
      BY <1>1, <1>2, <1>19 DEF VideoCancel
    <2>2. w \in VideoState
      BY ZenonT(40), <1>3, <2>1 DEF VideoState
    <2>3. /\ w.at = v.at /\ w.job = v.job /\ w.plan = v.plan /\ w.i = v.i /\ w.frames = v.frames
          /\ w.mark = v.mark /\ w.bar = v.bar /\ w.parts = v.parts /\ w.ends = v.ends
      BY <1>3, <2>1 DEF VideoState
    <2>4. BarInBand(w)
      BY <1>1, <2>3 DEF VideoGood, BarInBand
    <2> QED
      BY <1>1, <1>3, <2>1, <2>2, <2>3, <2>4 DEF VideoGood
  <1>20. CASE VideoAborted
    <2>1. gpu' = gpu
      BY <1>20 DEF VideoAborted
    <2>2. \/ v.at \in Running /\ w = Kill([v EXCEPT !.ends = "cancelled"])
          \/ w = [v EXCEPT !.at = "cancelled"]
      BY <1>1, <1>2, <1>20 DEF VideoAborted, Running
    <2> QED
      BY <1>1, <1>3, <2>1, <2>2, KillKeeps, CancelledIsGood
  <1>21. CASE StrayEnds \/ LeaderDies
    BY <1>1, <1>2, <1>3, <1>21 DEF StrayEnds, LeaderDies
  <1>22. CASE CloseOutput
    <2>1. v.at = "rendering" /\ gpu' = gpu /\ w = [v EXCEPT !.at = "awaiting"]
      BY <1>1, <1>2, <1>22 DEF CloseOutput
    <2> QED
      BY <1>1, <1>3, <2>1, CloseKeeps
  <1> QED
    BY <1>4, <1>6, <1>7, <1>8, <1>9, <1>10, <1>11, <1>12, <1>13, <1>14, <1>15, <1>16, <1>17,
       <1>18, <1>19, <1>20, <1>21, <1>22 DEF VideoMoves, VideoNext, VideoStep

\* It holds at first, of a video that is asked for and of none.
LEMMA VideoBegins ==
    ASSUME VideoInit \/ VideoIdle
    PROVE  VideoInv
  <1>1. PICK at \in {"checking", "idle"}, job \in VideoJobs : video = VideoStarting(at, job)
    <2>1. (CHOOSE job \in VideoJobs : TRUE) \in VideoJobs
      BY VideoAssumption DEF VideoAssumption
    <2> QED
      BY <2>1 DEF VideoInit, VideoIdle
  <1>2. video = [at |-> at, job |-> job, plan |-> NoPlanYet, i |-> 1, frames |-> 0, mark |-> 0,
                 bar |-> 0, parts |-> <<>>, faulty |-> 0, seam |-> 0, cancelled |-> FALSE,
                 ends |-> "none", retry |-> TRUE]
    BY <1>1 DEF VideoStarting
  <1>3. 1 \in Nat \ {0} /\ 0 \in Nat /\ 0 \in 0..6 /\ 0 \in 0..96 /\ <<>> \in Seq(Int)
    BY EmptySeq
  <1>4. video \in VideoState
    BY ZenonT(40), <1>2, <1>3 DEF VideoState
  <1>5. /\ video.at = at /\ video.i = 1 /\ video.parts = <<>> /\ video.bar = 0
        /\ video.at \in Early /\ video.at \notin Chained \cup Running \cup {"frame", "killing"}
    BY <1>2 DEF Early, Chained, Running
  <1>6. BarInBand(video)
    BY <1>5 DEF BarInBand, Chained
  <1>7. Len(video.parts) = 0 /\ 0 <= video.i /\ 0 < video.i
    BY <1>5
  <1>8. VideoGood(video)
    BY <1>4, <1>5, <1>6, <1>7 DEF VideoGood
  <1> QED
    BY <1>8 DEF VideoInv, VideoInit, VideoIdle

\* What the invariant says of a video.
LEMMA VideoIsSafe ==
    ASSUME VideoInv
    PROVE  /\ VideoTypeOK /\ DecoderSurvives /\ PlanIsWhole /\ BarNeverHeldBack
           /\ video.job \in VideoJobs /\ video.cancelled \in BOOLEAN
  <1>1. PICK v : v = video /\ VideoGood(v)
    BY DEF VideoInv
  <1>2. v \in VideoState
    BY <1>1 DEF VideoGood
  <1>3. VideoTypeOK
    <2>1. /\ v.job \in VideoJobs /\ v.bar \in 0..96
          /\ v.at \in VideoOver \cup {"idle", "checking", "directing", "planning", "section",
                         "preparing", "rendering", "awaiting", "killing", "rendered", "frame",
                         "assembling"}
      BY <1>2 DEF VideoState, VideoOver
    <2> QED
      BY <1>1, <2>1 DEF VideoTypeOK, VideoInv, VideoGood
  <1>4. v.ends \in {"none", "cancelled"} /\ v.job \in VideoJobs /\ v.cancelled \in BOOLEAN
    BY <1>2 DEF VideoState
  <1>5. DecoderSurvives
    <2>1. ASSUME v.at \in Running PROVE v.frames >= FramesOf(v.plan, v.i)
      <3>1. v.frames = RenderedFrames(v.job, v.plan, v.i)
        BY <1>1, <2>1 DEF VideoGood, Running
      <3> QED
        BY <1>1, <2>1, <3>1, ChainFields DEF Chained, Running
    <2> QED
      BY <1>1, <1>4, <2>1 DEF DecoderSurvives, Running
  <1>6. ASSUME v.at = "section"
        PROVE  LET plan == v.plan
                   job  == v.job
                   n    == Sections(plan)
                   upto(i) == SumTo(i, [k \in 1..n |-> SectionFrames(job, plan, k)])
               IN  /\ plan.cuts[1] = 0 /\ plan.cuts[n + 1] = job.total * plan.den
                   /\ \A i \in 1..n : 0 < Window(plan, i)
                   /\ n > 1 => \A i \in 1..n : Window(plan, i) >= MinimumWindow(job) * plan.den
                   /\ ~TooLong(job, plan) /\ n <= PassCount(job)
                   /\ Handler(job).oneTrack /\ job.total * job.fps >= Second =>
                        \A i \in 1..n :
                          2 * Drift(upto(i) * Second * plan.den, plan.cuts[i + 1] * job.fps)
                            <= Second * plan.den
                   /\ \A k \in DOMAIN job.story :
                        Cardinality(SectionsOfAction(job, n, k)) \in {1, n}
    <2>1. v.job \in VideoRequest /\ Tiles(v.job, v.plan) /\ Sections(v.plan) \in Nat \ {0}
      BY <1>1, <1>6, ChainFields DEF Chained
    <2>2. PICK job, plan, n : /\ job = v.job /\ plan = v.plan /\ n = Sections(plan)
                              /\ job \in VideoRequest /\ n \in Nat \ {0} /\ Tiles(job, plan)
      BY <2>1
    <2>3. /\ plan.cuts[1] = 0 /\ plan.cuts[n + 1] = job.total * plan.den
          /\ \A i \in 1..n : 0 < Window(plan, i)
          /\ n > 1 => \A i \in 1..n : Window(plan, i) >= MinimumWindow(job) * plan.den
      BY <2>2 DEF Tiles
    <2>4. ~TooLong(job, plan) /\ n <= PassCount(job)
      BY <2>2, TiledIsNotTooLong DEF Tiles
    <2>5. job.total * job.fps >= Second =>
            \A i \in 1..Sections(plan) :
              2 * Drift(SumTo(i, [k \in 1..Sections(plan) |-> SectionFrames(job, plan, k)])
                          * Second * plan.den,
                        plan.cuts[i + 1] * job.fps)
                <= Second * plan.den
      BY <2>2, FramesAddUp
    <2>6. \A k \in DOMAIN job.story : Cardinality(SectionsOfAction(job, n, k)) \in {1, n}
      BY <2>2, ActionsAreShownOnce
    <2> QED
      BY <2>2, <2>3, <2>4, <2>5, <2>6
  <1>7. PlanIsWhole
    BY <1>1, <1>4, <1>6 DEF PlanIsWhole
  <1>8. BarNeverHeldBack
    <2> SUFFICES ASSUME v.at \in Running, v.mark > 0
                 PROVE  /\ v.bar = Reported(v.i, Sections(v.plan), v.mark)
                        /\ v.mark = 6 => v.bar = IF v.i < Sections(v.plan)
                                                THEN Band(v.i + 1, Sections(v.plan))[1] ELSE 85
      BY <1>1 DEF BarNeverHeldBack, Running, Markers
    <2>1. PICK n, i : /\ n = Sections(v.plan) /\ i = v.i /\ n \in Nat \ {0} /\ i \in 1..n
      BY <1>1, ChainFields DEF Chained, Running
    <2>2. v.bar = Reported(i, n, v.mark)
      BY <1>1, <2>1 DEF VideoGood, BarInBand, Shows
    <2>3. Reported(i, n, 6) = IF i < n THEN Band(i + 1, n)[1] ELSE 85
      BY <2>1, LastMarkEndsSlice
    <2> QED
      BY <2>1, <2>2, <2>3
  <1> QED
    BY <1>1, <1>3, <1>4, <1>5, <1>7, <1>8

(***************************************************************************)
(* The adapters together.  Their invariant is that of each part; Director  *)
(* is at work only for a video that waits for it, which is what keeps a    *)
(* plan from reaching a job that has moved on.                             *)
(***************************************************************************)
PlansForOne == director.at # "idle" => Directing

AdaptersInv == DirectorInv /\ VideoInv /\ MusicInv /\ PlansForOne

\* Nothing is planned of a job that is not asked for.
LEMMA DirectorBegins ==
    ASSUME DirectorIdle
    PROVE  DirectorInv /\ director.at = "idle"
  <1>1. director = [at |-> "idle", anchored |-> FALSE, lineage |-> FALSE, facts |-> FALSE,
                    chain |-> <<>>, sample |-> FALSE, notes |-> FALSE, asked |-> {},
                    cancelled |-> FALSE, best |-> NoPlan, plan |-> NoPlan]
    BY DEF DirectorIdle, Planning
  <1>2. director \in DirectorState
    BY ZenonT(40), <1>1 DEF DirectorState
  <1>3. director.at = "idle" /\ director.sample = FALSE
    BY <1>1
  <1> QED
    BY <1>2, <1>3 DEF DirectorInv, DirectorIdle

\* A video leaves its planning only by Director's answer, which idles Director.
LEMMA PlansStayForOne ==
    ASSUME VideoInv, PlansForOne, [AdaptersNext]_adapterVars
    PROVE  PlansForOne'
  <1>1. video \in VideoState
    BY DEF VideoInv, VideoGood
  <1> USE DEF PlansForOne, Directing
  <1>2. CASE UNCHANGED adapterVars
    BY <1>2 DEF adapterVars, directorVars, videoVars
  <1>3. CASE BeginPlanning
    BY <1>3 DEF BeginPlanning, videoVars
  <1>4. CASE PlanningEnds
    BY <1>4 DEF PlanningEnds, Planning
  <1>5. CASE DirectorStep /\ UNCHANGED <<videoVars, musicVars>>
    <2>1. director.at # "idle"
      BY <1>5 DEF DirectorStep, LookAtPicture, AskPlanner, Answer, AnswerUnusable, SkipProvider,
                  LocalPlannerFails, ChainSpent
    <2> QED
      BY <1>5, <2>1 DEF videoVars
  <1>6. CASE VideoStep /\ UNCHANGED <<directorVars, musicVars>>
    <2>1. video.at # "directing"
      BY <1>6 DEF VideoStep, CheckRequest, PlanSections, StartSection, LaunchPass, PollCancelled,
                  FindExited, KillLands, FinishPass, TakeFinalFrame, Assemble
    <2> QED
      BY <1>6, <2>1 DEF directorVars
  <1>7. CASE RenderActs
    <2>1. video.at # "directing" \/ video' = video
      BY <1>7 DEF RenderActs, PreparationCancelled, Marker, LeaderDies, CloseOutput, Exit,
                  KillGraceRunsOut, ToolCancelled, StrayEnds
    <2> QED
      BY <1>7, <2>1 DEF RenderActs, directorVars
  <1>8. CASE CancelVideo
    <2>1. video' = [video EXCEPT !.cancelled = TRUE]
      BY <1>8 DEF CancelVideo, VideoCancel, VideoTo
    <2>2. video'.at = video.at
      BY <1>1, <2>1 DEF VideoState
    <2>3. Directing \/ director' = director
      BY <1>8 DEF CancelVideo, directorVars
    <2> QED
      BY <2>2, <2>3
  <1>9. CASE Abort
    <2>1. CASE DirectorAborted /\ UNCHANGED <<videoVars, musicVars>>
      BY <2>1 DEF DirectorAborted, videoVars
    <2>2. CASE VideoAborted /\ UNCHANGED <<directorVars, musicVars>>
      BY <2>2 DEF VideoAborted, directorVars
    <2>3. CASE MusicAborted /\ UNCHANGED <<directorVars, videoVars>>
      BY <2>3 DEF directorVars, videoVars
    <2> QED
      BY <1>9, <2>1, <2>2, <2>3 DEF Abort
  <1>10. CASE UNCHANGED <<directorVars, videoVars>>
    BY <1>10 DEF directorVars, videoVars
  <1> QED
    BY <1>2, <1>3, <1>4, <1>5, <1>6, <1>7, <1>8, <1>9, <1>10 DEF AdaptersNext, AdapterStep

\* The invariant holds of every behaviour of the adapters.
LEMMA AdaptersInvariant == AdaptersSpec => []AdaptersInv
  <1>1. AdaptersInit => AdaptersInv
    BY DirectorBegins, VideoBegins, MusicBegins DEF AdaptersInit, AdaptersInv, PlansForOne
  <1>2. AdaptersInv /\ [AdaptersNext]_adapterVars => AdaptersInv'
    <2> SUFFICES ASSUME AdaptersInv, [AdaptersNext]_adapterVars
                 PROVE  AdaptersInv'
      OBVIOUS
    <2>1. /\ DirectorMoves \/ UNCHANGED directorVars
          /\ VideoMoves \/ UNCHANGED videoVars
          /\ MusicNext \/ UNCHANGED musicVars
      BY StepsAreLocal
    <2>2. VideoInv'
      BY <2>1, VideoStays DEF AdaptersInv
    <2>3. DirectorInv'
      BY <2>1, VideoIsSafe, DirectorStays DEF AdaptersInv
    <2>4. MusicInv'
      BY <2>1, MusicStays DEF AdaptersInv
    <2>5. PlansForOne'
      BY PlansStayForOne DEF AdaptersInv
    <2> QED
      BY <2>2, <2>3, <2>4, <2>5 DEF AdaptersInv
  <1> QED
    BY <1>1, <1>2, PTL DEF AdaptersSpec

\* Everything the adapters keep has its type, whatever is asked of them; Director
\* plans only for a video that waits for it.
THEOREM AdaptersTypeCorrect == AdaptersSpec => []AdaptersTypeOK
  <1>1. AdaptersInv => AdaptersTypeOK
    BY DirectorIsSafe, VideoIsSafe, MusicIsSafe DEF AdaptersInv, PlansForOne, AdaptersTypeOK
  <1> QED
    BY <1>1, AdaptersInvariant, PTL

\* Whatever the planners answer and however often the hosted one fails, planning
\* fails only after the local planner was asked; and a song that the local writer
\* can write never fails for want of words.
THEOREM TheLocalOneIsAsked == AdaptersSpec => []LocalIsAsked
  <1>1. AdaptersInv => LocalIsAsked
    BY DirectorIsSafe, MusicIsSafe DEF AdaptersInv, LocalIsAsked, LocalCan
  <1> QED
    BY <1>1, AdaptersInvariant, PTL

\* What the user wrote in quotation marks is in the plan that is rendered, as words in
\* order from one mouth or among the characters of one line; and no draft that says it in
\* lines of its own loses a word of it to the trim, whatever else the draft says and
\* however long it is.
THEOREM UserLinesAlwaysSurvive == AdaptersSpec => []UserLinesSurvive
  <1>1. AdaptersInv => UserLinesSurvive
    BY DirectorIsSafe, QuotesSurvive DEF AdaptersInv, UserLinesSurvive
  <1> QED
    BY <1>1, AdaptersInvariant, PTL

\* However many sections a plan is rendered in: nobody speaks after they have left, and
\* what a caption says of who remains is what it goes on to assert.
THEOREM TheGoneStayGone == AdaptersSpec => []GoneAreGone
  <1>1. AdaptersInv => GoneAreGone
    BY DirectorKeepsGone DEF AdaptersInv
  <1> QED
    BY <1>1, AdaptersInvariant, PTL

\* Of any number of passes of any lengths, none is asked of a decoder at a frame
\* count it was seen to die on, and none is shorter than its section.
THEOREM DecodersSurvive == AdaptersSpec => []DecoderSurvives
  <1>1. AdaptersInv => DecoderSurvives
    BY VideoIsSafe DEF AdaptersInv
  <1> QED
    BY <1>1, AdaptersInvariant, PTL

\* Any video, of any length and with any music, is planned as windows that tile it:
\* none too long for a pass, no more than even windows take, their frames adding up
\* to the soundtrack's, no action of the prompt lost or shown twice.
THEOREM PlansAreWhole == AdaptersSpec => []PlanIsWhole
  <1>1. AdaptersInv => PlanIsWhole
    BY VideoIsSafe DEF AdaptersInv
  <1> QED
    BY <1>1, AdaptersInvariant, PTL

\* However many sections sweep it, the bar shows what the last marker reported, and one
\* section's slice of it ends where the next one's begins.
THEOREM BarsNeverHoldBack == AdaptersSpec => []BarNeverHeldBack
  <1>1. AdaptersInv => BarNeverHeldBack
    BY VideoIsSafe DEF AdaptersInv
  <1> QED
    BY <1>1, AdaptersInvariant, PTL

\* Whoever writes a song, in however many rounds: it is sung with the words the user
\* supplied, without words only where none were wanted or nobody may write them, and
\* with written ones only where they do not read as another language than the song's.
THEOREM SongsAreSungAsAsked == AdaptersSpec => []SungAsAsked
  <1>1. AdaptersInv => SungAsAsked
    BY MusicIsSafe DEF AdaptersInv
  <1> QED
    BY <1>1, AdaptersInvariant, PTL

\* A song of any length, from a service of any ceiling: the takes it is planned in are
\* as few as will do, none is beyond the ceiling, and joined they are as long as was
\* asked for, where a crossfade is at most half a take and the takes are not hundreds.
THEOREM SongsAreWhole ==
    ASSUME \A job \in MusicJobs : Joinable(job)
    PROVE  AdaptersSpec => []SongIsWhole
  <1>1. AdaptersInit => CountInv
    BY DEF AdaptersInit, MusicInit, MusicIdle, MusicStarting, CountInv, Rounds
  <1>2. ASSUME AdaptersInv, CountInv, [AdaptersNext]_adapterVars PROVE CountInv'
    <2>1. MusicNext \/ UNCHANGED musicVars
      BY <1>2, StepsAreLocal DEF adapterVars, musicVars
    <2> QED
      BY <1>2, <2>1, CountStays DEF AdaptersInv
  <1>3. AdaptersInv /\ CountInv => SongIsWhole
    BY CountedIsWhole DEF AdaptersInv
  <1> QED
    BY <1>1, <1>2, <1>3, AdaptersInvariant, PTL DEF AdaptersSpec

\* The best draft of a song is sung: however the writers answer, take turns and fail, an
\* acceptable draft is never passed over for one that is not.  That the local writer's
\* sheets are acceptable where they have no more than two details to work in is
\* computed, for every song of the run, by TLC.
THEOREM AcceptableIsAlwaysShipped ==
    ASSUME \A job \in SungJobs : LocalFits(job)
    PROVE  AdaptersSpec => []AcceptableIsShipped
  <1>1. AdaptersInit => BestInv
    BY DEF AdaptersInit, MusicInit, MusicIdle, MusicStarting, BestInv, AcceptableIsShipped
  <1>2. ASSUME AdaptersInv, BestInv, [AdaptersNext]_adapterVars PROVE BestInv'
    <2>1. MusicNext \/ UNCHANGED musicVars
      BY <1>2, StepsAreLocal DEF adapterVars, musicVars
    <2> QED
      BY <1>2, <2>1, BestStays DEF AdaptersInv
  <1>3. BestInv => AcceptableIsShipped
    BY DEF BestInv
  <1> QED
    BY <1>1, <1>2, <1>3, AdaptersInvariant, PTL DEF AdaptersSpec

=============================================================================
