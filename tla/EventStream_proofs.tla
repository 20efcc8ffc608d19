------------------------- MODULE EventStream_proofs -------------------------
(***************************************************************************)
(* Theorems about EventStream: what a browser receives ascends across      *)
(* every reconnection, and a live stream leaves out only what the channel  *)
(* has lost.                                                               *)
(***************************************************************************)
EXTENDS EventStream, JobQueue_proofs, FiniteSetTheorems, SequenceTheorems

USE WatchAssumption DEF WatchAssumption

(***************************************************************************)
(* Events in order.                                                        *)
(***************************************************************************)
\* Events are numbered without repetition from a + 1 to b.
Numbers(S, a, b) ==
    /\ {e.seq : e \in S} = (a + 1)..b
    /\ \A d, e \in S : d.seq = e.seq => d = e

\* There are as many of them as numbers.
LEMMA NumbersCount ==
    ASSUME NEW S, NEW a \in Nat, NEW b \in Nat, a <= b, Numbers(S, a, b)
    PROVE  IsFiniteSet(S) /\ Cardinality(S) = b - a
<1> DEFINE I == (a + 1)..b
           f == [i \in I |-> CHOOSE e \in S : e.seq = i]
<1>1. \A i \in I : f[i] \in S /\ f[i].seq = i
  <2> SUFFICES ASSUME NEW i \in I PROVE f[i] \in S /\ f[i].seq = i
    OBVIOUS
  <2>1. \E e \in S : e.seq = i
    BY DEF Numbers
  <2> QED
    BY <2>1
<1>2. \A e \in S : e.seq \in I /\ f[e.seq] = e
  <2> SUFFICES ASSUME NEW e \in S PROVE e.seq \in I /\ f[e.seq] = e
    OBVIOUS
  <2>1. e.seq \in I
    BY DEF Numbers
  <2> QED
    BY <1>1, <2>1 DEF Numbers
<1> HIDE DEF f
<1>3. f \in [I -> S]
  <2>1. f = [i \in I |-> f[i]]
    BY DEF f
  <2> QED
    BY <1>1, <2>1
<1>4. f \in Bijection(I, S)
  <2>1. \A i, k \in I : f[i] = f[k] => i = k
    BY <1>1
  <2>2. \A e \in S : \E i \in I : f[i] = e
    BY <1>2
  <2> QED
    BY <1>3, <2>1, <2>2 DEF Bijection, Injection, Surjection, IsInjective
<1>5. IsFiniteSet(I) /\ Cardinality(I) = b - a
  <2>1. a + 1 \in Int /\ b \in Int /\ (a + 1 > b => b - a = 0) /\ b - (a + 1) + 1 = b - a
    OBVIOUS
  <2> QED
    BY <2>1, FS_Interval
<1> QED
  BY <1>4, <1>5, FS_Bijection DEF ExistsBijection

\* Put in order, event number a + i comes at place i.
LEMMA InOrderNumbers ==
    ASSUME NEW S \in SUBSET Event, NEW a \in Nat, NEW b \in Nat, a <= b, Numbers(S, a, b)
    PROVE  /\ InOrder(S) \in Seq(Event)
           /\ Len(InOrder(S)) = b - a
           /\ \A i \in 1..(b - a) : InOrder(S)[i] \in S /\ InOrder(S)[i].seq = a + i
           /\ \A e \in S : e.seq - a \in 1..(b - a) /\ InOrder(S)[e.seq - a] = e
<1> DEFINE Before(e) == {d \in S : d.seq < e.seq}
<1>1. Cardinality(S) = b - a
  BY NumbersCount
<1>2. ASSUME NEW e \in S PROVE e.seq \in (a + 1)..b /\ Cardinality(Before(e)) = e.seq - a - 1
  <2>1. e.seq \in (a + 1)..b
    BY DEF Numbers
  <2>2. PICK c \in Nat : c = e.seq - 1
    BY <2>1
  <2>3. a <= c /\ c - a = e.seq - a - 1
    BY <2>1, <2>2
  <2>4. Numbers(Before(e), a, c)
    <3>1. \A n : n \in (a + 1)..c <=> n \in (a + 1)..b /\ n < e.seq
      BY <2>1, <2>2
    <3>2. {d.seq : d \in Before(e)} = (a + 1)..c
      BY <3>1 DEF Numbers
    <3> QED
      BY <3>2 DEF Numbers
  <2> HIDE DEF Before
  <2> QED
    BY <2>1, <2>3, <2>4, NumbersCount
<1>3. ASSUME NEW i \in 1..(b - a)
      PROVE  InOrder(S)[i] \in S /\ InOrder(S)[i].seq = a + i
  <2>1. a + i \in (a + 1)..b
    OBVIOUS
  <2>2. PICK e \in S : e.seq = a + i
    BY <2>1 DEF Numbers
  <2>3. Cardinality(Before(e)) = i - 1
    BY <1>2, <2>2
  <2>4. InOrder(S)[i] = CHOOSE d \in S : Cardinality(Before(d)) = i - 1
    BY <1>1 DEF InOrder
  <2>5. InOrder(S)[i] \in S /\ Cardinality(Before(InOrder(S)[i])) = i - 1
    <3> HIDE DEF Before
    <3> QED
      BY <2>3, <2>4
  <2>6. PICK d \in S : d = InOrder(S)[i]
    BY <2>5
  <2>7. d.seq \in (a + 1)..b /\ d.seq - a - 1 = i - 1
    BY <1>2, <2>5, <2>6
  <2> QED
    BY <2>6, <2>7
<1>4. InOrder(S) \in [1..(b - a) -> Event]
  <2> DEFINE F(i) == CHOOSE e \in S : Cardinality(Before(e)) = i - 1
  <2>1. InOrder(S) = [i \in 1..(b - a) |-> F(i)]
    BY <1>1 DEF InOrder
  <2> HIDE DEF F
  <2>2. \A i \in 1..(b - a) : F(i) \in Event
    BY <1>3, <2>1
  <2> QED
    BY <2>1, <2>2
<1>5. InOrder(S) \in Seq(Event) /\ Len(InOrder(S)) = b - a
  <2>1. b - a \in Nat
    OBVIOUS
  <2> QED
    BY <1>4, <2>1
<1>6. ASSUME NEW e \in S PROVE e.seq - a \in 1..(b - a) /\ InOrder(S)[e.seq - a] = e
  <2>1. e.seq \in (a + 1)..b
    BY <1>2
  <2>2. PICK i \in 1..(b - a) : i = e.seq - a /\ e.seq = a + i
    BY <2>1
  <2> QED
    BY <1>3, <2>2 DEF Numbers
<1> QED
  BY <1>3, <1>5, <1>6

(***************************************************************************)
(* The log grows.                                                          *)
(***************************************************************************)
\* No step takes an event out of the log.
LEMMA LogGrows ==
    ASSUME TypeOK, [Next]_vars, NEW k \in Jobs
    PROVE  events[k] \subseteq events'[k]
<1>1. ASSUME NEW j \in Jobs, NEW row, WriteLogged(j, row) PROVE events[k] \subseteq events'[k]
  BY <1>1 DEF WriteLogged, TypeOK
<1>2. ASSUME NEW r \in Requests, CancelCommit(r) PROVE events[k] \subseteq events'[k]
  BY <1>2 DEF CancelCommit, TypeOK
<1>3. CASE events' = events
  BY <1>3
<1>4. ASSUME NEW g \in grants,
             \/ \E status \in Reported, p \in 0..Full : Progress(g, status, p)
             \/ Complete(g)
             \/ \E retriable \in BOOLEAN : Fail(g, retriable)
      PROVE  events[k] \subseteq events'[k]
  <2>1. \E row : WriteLogged(g.job, row)
    BY <1>4 DEF Progress, Complete, Fail
  <2>2. g.job \in Jobs
    BY DEF TypeOK, Grant
  <2> QED
    BY <1>1, <2>1, <2>2
<1>5. ASSUME NEW j \in Jobs, Submit(j) PROVE events[k] \subseteq events'[k]
  BY <1>1, <1>5 DEF Submit
<1> QED
  BY <1>2, <1>3, <1>4, <1>5 DEF Next, vars, LeaseExpires, ClaimLock, ClaimCommit,
     ClaimRollback, Reap, CancelLoad, CancelRollback

\* The numbers of a log.
LEMMA LogNumbers ==
    ASSUME TypeOK, LogInv, NEW k \in Jobs
    PROVE  /\ events[k] \in SUBSET Event
           /\ Numbers(events[k], 0, job[k].seq) /\ job[k].seq \in Nat
           /\ \A e \in events[k] : e \in Event /\ e.seq \in Nat /\ e.seq <= job[k].seq
<1>1. events[k] \in SUBSET Event /\ job[k].seq \in Nat
  BY DEF TypeOK, Row
<1>2. Numbers(events[k], 0, job[k].seq)
  BY DEF LogInv, LogIsDense, Numbers
<1>3. \A e \in events[k] : e.seq \in 1..job[k].seq
  BY <1>2 DEF Numbers
<1> QED
  BY <1>1, <1>2, <1>3

\* New events come after the old ones.
LEMMA NewEventsFollow ==
    ASSUME TypeOK, LogInv, TypeOK', LogInv', [Next]_vars, NEW k \in Jobs
    PROVE  /\ job[k].seq <= job'[k].seq
           /\ \A e \in events'[k] \ events[k] : job[k].seq < e.seq /\ e.seq <= job'[k].seq
<1>1. /\ {e.seq : e \in events[k]} = 1..job[k].seq
      /\ {e.seq : e \in events'[k]} = 1..job'[k].seq
      /\ \A d, e \in events'[k] : d.seq = e.seq => d = e
  BY DEF LogInv, LogIsDense
<1>2. job[k].seq \in Nat /\ job'[k].seq \in Nat
  BY DEF TypeOK, Row
<1>3. events[k] \subseteq events'[k]
  BY LogGrows
<1>4. 1..job[k].seq \subseteq 1..job'[k].seq
  BY <1>1, <1>3
<1>5. ASSUME NEW e \in events'[k] \ events[k]
      PROVE  job[k].seq < e.seq /\ e.seq <= job'[k].seq
  <2>1. e.seq \in 1..job'[k].seq
    BY <1>1
  <2>2. e.seq \notin 1..job[k].seq
    <3> SUFFICES ASSUME e.seq \in 1..job[k].seq PROVE FALSE
      OBVIOUS
    <3>1. PICK d \in events[k] : d.seq = e.seq
      BY <1>1
    <3> QED
      BY <1>1, <1>3, <3>1
  <2> QED
    BY <1>2, <2>1, <2>2
<1>6. job[k].seq <= job'[k].seq
  <2>1. CASE job[k].seq = 0
    BY <1>2, <2>1
  <2>2. CASE job[k].seq # 0
    <3>1. job[k].seq \in 1..job[k].seq
      BY <1>2, <2>2
    <3>2. job[k].seq \in 1..job'[k].seq
      BY <1>4, <3>1
    <3> QED
      BY <1>2, <3>2
  <2> QED
    BY <2>1, <2>2
<1> QED
  BY <1>5, <1>6

(***************************************************************************)
(* Streams and pages.                                                      *)
(***************************************************************************)
\* The facts about the queue each step of the system may use.
QueueInv == TypeOK /\ LeaseInv /\ LogInv

\* One connection and its page change, in a sound way.
LEMMA LocalStep ==
    ASSUME StreamTypeOK, StreamInv, UNCHANGED <<vars, unpublished, carried, lost>>,
           NEW w \in Watchers, NEW s \in Stream, NEW p \in Page, SoundStream(w, s, p),
           stream' = [stream EXCEPT ![w] = s], page' = [page EXCEPT ![w] = p]
    PROVE  StreamTypeOK' /\ StreamInv'
<1>1. StreamTypeOK'
  BY DEF StreamTypeOK
<1>2. job' = job /\ events' = events
  BY DEF vars
<1>3. ASSUME NEW v \in Watchers, NEW t \in Stream, NEW q \in Page, SoundStream(v, t, q)
      PROVE  SoundStream(v, t, q)'
  BY <1>2, <1>3 DEF SoundStream, NothingBeforeTheLog, LateIsLost, FramesClimb, HasItsPlace,
     Missed, InLog
<1>4. ASSUME NEW v \in Watchers PROVE SoundStream(v, stream[v], page[v])'
  <2>1. PICK t \in Stream, q \in Page : t = stream'[v] /\ q = page'[v] /\ SoundStream(v, t, q)
    <3>1. CASE v = w
      BY <3>1 DEF StreamTypeOK
    <3>2. CASE v # w
      BY <3>2 DEF StreamTypeOK, StreamInv
    <3> QED
      BY <3>1, <3>2
  <2>2. SoundStream(v, t, q)'
    BY <1>3, <2>1
  <2> QED
    BY <2>1, <2>2 DEF SoundStream, NothingBeforeTheLog, LateIsLost, FramesClimb, HasItsPlace
<1> QED
  BY <1>1, <1>2, <1>4 DEF StreamInv

\* The log and the channel move on, and the connection does not: what was to be
\* published still is or is lost, and what is new is to be published.
LEMMA SoundStays ==
    ASSUME QueueInv, QueueInv', StreamTypeOK, [Next]_vars,
           lost \subseteq lost', carried' = carried,
           unpublished \subseteq unpublished' \cup lost',
           NEW v \in Watchers, NEW s \in Stream, NEW p \in Page, SoundStream(v, s, p),
           \A e \in events'[Watched[v]] \ events[Watched[v]] : InLog(v, e) \in unpublished'
    PROVE  SoundStream(v, s, p)'
<1> DEFINE j == Watched[v]
<1>1. j \in Jobs /\ events[j] \subseteq events'[j]
  BY LogGrows DEF QueueInv
<1>2. /\ job[j].seq \in Nat /\ job'[j].seq \in Nat /\ job[j].seq <= job'[j].seq
      /\ \A e \in events'[j] \ events[j] : job[j].seq < e.seq /\ e.seq \in Nat
  BY <1>1, NewEventsFollow, LogNumbers DEF QueueInv, TypeOK, Row, Event
<1>3. p.cursor \in Nat /\ s.highest \in Nat
  BY DEF Page, Stream
<1>4. NothingBeforeTheLog(v, s, p)'
  <2>1. p.cursor <= job[j].seq /\ s.highest <= job[j].seq
    BY DEF SoundStream, NothingBeforeTheLog
  <2>2. p.cursor <= job'[j].seq /\ s.highest <= job'[j].seq
    BY <1>2, <1>3, <2>1
  <2> QED
    BY <1>1, <2>2 DEF SoundStream, NothingBeforeTheLog
<1>5. LateIsLost(v, s)'
  BY DEF SoundStream, LateIsLost, InLog
<1>6. FramesClimb(s, p)'
  BY DEF SoundStream, FramesClimb
<1>7. ASSUME NEW e \in events'[j] PROVE HasItsPlace(v, s, p, e)'
  <2>1. CASE e \in events[j]
    <3>1. HasItsPlace(v, s, p, e)
      BY <2>1 DEF SoundStream
    <3>2. Missed(v, e) => Missed(v, e)'
      BY DEF Missed, InLog
    <3>3. InLog(v, e) \in unpublished \cup lost => InLog(v, e) \in unpublished' \cup lost'
      OBVIOUS
    <3> QED
      BY <3>1, <3>2, <3>3 DEF HasItsPlace, InLog
  <2>2. CASE e \notin events[j]
    <3>1. job[j].seq < e.seq /\ e.seq \in Nat
      BY <1>2, <2>2
    <3>2. p.cursor <= job[j].seq /\ s.highest <= job[j].seq
      BY DEF SoundStream, NothingBeforeTheLog
    <3>3. ~(e.seq <= p.cursor) /\ ~(e.seq <= s.highest)
      BY <1>2, <1>3, <3>1, <3>2
    <3>4. InLog(v, e) \in unpublished'
      BY <2>2
    <3> QED
      BY <3>3, <3>4 DEF HasItsPlace, InLog
  <2> QED
    BY <2>1, <2>2
<1> QED
  BY <1>4, <1>5, <1>6, <1>7 DEF SoundStream

\* What a sound stream knows of the numbers involved.
LEMMA SoundNumbers ==
    ASSUME QueueInv, NEW v \in Watchers, NEW s \in Stream, NEW p \in Page,
           SoundStream(v, s, p)
    PROVE  /\ Watched[v] \in Jobs /\ job[Watched[v]].seq \in Nat
           /\ p.cursor \in Nat /\ s.highest \in Nat
           /\ p.cursor <= job[Watched[v]].seq /\ s.highest <= job[Watched[v]].seq
           /\ \A e \in events[Watched[v]] : e \in Event /\ e.seq \in Nat
           /\ \A d, e \in events[Watched[v]] : d.seq = e.seq => d = e
           /\ \A k \in 1..Len(s.channel) : s.channel[k] \in events[Watched[v]]
  BY LogNumbers DEF QueueInv, Page, Stream, SoundStream, NothingBeforeTheLog, Numbers

\* The replay brings the stream to the end of the log.
LEMMA ReplaySound ==
    ASSUME QueueInv, StreamTypeOK, StreamInv, NEW v \in Watchers, Replay(v)
    PROVE  StreamTypeOK' /\ StreamInv'
<1>1. PICK s \in Stream, p \in Page : s = stream[v] /\ p = page[v] /\ SoundStream(v, s, p)
  BY DEF StreamTypeOK, StreamInv
<1> DEFINE j == Watched[v]
<1>2. PICK n \in Nat : n = job[j].seq
  BY <1>1, SoundNumbers
<1>3. PICK h \in Nat : h = s.highest /\ h <= n
  BY <1>1, <1>2, SoundNumbers
<1>4. PICK later : later = {e \in events[j] : e.seq > h}
  OBVIOUS
<1>5. later \in SUBSET Event /\ Numbers(later, h, n)
  <2>1. Numbers(events[j], 0, n) /\ events[j] \in SUBSET Event
    BY <1>1, <1>2, LogNumbers DEF QueueInv
  <2>2. \A i : i \in (h + 1)..n <=> i \in (0 + 1)..n /\ i > h
    BY <1>3
  <2>3. {e.seq : e \in later} = (h + 1)..n
    BY <1>4, <2>1, <2>2 DEF Numbers
  <2> QED
    BY <1>4, <2>1, <2>3 DEF Numbers
<1>6. PICK replay \in Seq(Event) :
         /\ replay = ReplayOf(v)
         /\ Len(replay) = n - h
         /\ \A i \in 1..(n - h) : replay[i] \in later /\ replay[i].seq = h + i
         /\ \A e \in later : e.seq - h \in 1..(n - h) /\ replay[e.seq - h] = e
  <2>1. ReplayOf(v) = InOrder(later)
    BY <1>1, <1>3, <1>4 DEF ReplayOf
  <2>2. /\ InOrder(later) \in Seq(Event) /\ Len(InOrder(later)) = n - h
        /\ \A i \in 1..(n - h) : InOrder(later)[i] \in later /\ InOrder(later)[i].seq = h + i
        /\ \A e \in later : e.seq - h \in 1..(n - h) /\ InOrder(later)[e.seq - h] = e
    <3>1. later \in SUBSET Event /\ h <= n /\ Numbers(later, h, n)
      BY <1>3, <1>5
    <3>2. InOrder(later) \in Seq(Event) /\ Len(InOrder(later)) = n - h
      BY <3>1, InOrderNumbers
    <3>3. \A i \in 1..(n - h) : InOrder(later)[i] \in later /\ InOrder(later)[i].seq = h + i
      BY <3>1, InOrderNumbers
    <3>4. \A e \in later : e.seq - h \in 1..(n - h) /\ InOrder(later)[e.seq - h] = e
      BY ZenonT(40), <3>1, InOrderNumbers
    <3> QED
      BY <3>2, <3>3, <3>4
  <2> QED
    BY <2>1, <2>2
<1> DEFINE last == Len(replay)
           q == [s EXCEPT !.wire    = replay,
                          !.highest = IF last = 0 THEN @ ELSE replay[last].seq,
                          !.state   = IF last > 0 /\ IsTerminal(replay[last].status)
                                      THEN "ended" ELSE "live"]
<1>7. s.state = "subscribed" /\ stream' = [stream EXCEPT ![v] = q]
  BY <1>1, <1>6 DEF Replay, StreamTypeOK
<1>8. (IF last = 0 THEN s.highest ELSE replay[last].seq) = n
  <2>1. CASE last = 0
    BY <1>3, <1>6, <2>1
  <2>2. CASE last # 0
    <3>1. last \in 1..(n - h) /\ h + last = n
      <4>1. last = n - h /\ last \in Nat
        BY <1>6
      <4> HIDE DEF last
      <4> QED
        BY <2>2, <4>1
    <3> QED
      BY <1>6, <2>2, <3>1
  <2> QED
    BY <2>1, <2>2
<1>9. /\ q \in Stream /\ q.wire = replay /\ q.highest = n /\ q.channel = s.channel
      /\ q.state \in {"live", "ended"}
  BY <1>2, <1>8 DEF Stream
<1> HIDE DEF q
<1>10. SoundStream(v, q, p)
  <2>1. NothingBeforeTheLog(v, q, p)
    BY <1>1, <1>2, <1>9 DEF SoundStream, NothingBeforeTheLog
  <2>2. LateIsLost(v, q)
    BY <1>1, <1>9 DEF SoundStream, LateIsLost
  <2>3. p.cursor \in Nat /\ p.cursor <= h
    BY <1>1, <1>3, <1>7 DEF SoundStream, FramesClimb, Page
  <2>4. FramesClimb(q, p)
    <3>1. p.cursor <= q.highest
      BY <1>3, <1>9, <2>3
    <3>2. ASSUME NEW k \in 1..Len(q.wire)
          PROVE  /\ p.cursor < q.wire[k].seq /\ q.wire[k].seq <= q.highest
                 /\ \A i \in 1..Len(q.wire) : i < k => q.wire[i].seq < q.wire[k].seq
      <4>1. \A i \in 1..Len(q.wire) : q.wire[i].seq = h + i /\ i \in 1..(n - h)
        BY <1>6, <1>9
      <4> QED
        BY <1>9, <2>3, <4>1
    <3> QED
      BY <1>9, <3>1, <3>2 DEF FramesClimb
  <2>5. ASSUME NEW e \in events[j] PROVE HasItsPlace(v, q, p, e)
    <3>1. HasItsPlace(v, s, p, e) /\ Len(s.wire) = 0 /\ e.seq \in Nat /\ e.seq <= n
      <4>1. s.wire = <<>>
        BY <1>1, <1>7 DEF SoundStream, FramesClimb
      <4>2. HasItsPlace(v, s, p, e)
        BY <1>1 DEF SoundStream
      <4>3. e.seq \in Nat /\ e.seq <= n
        BY <1>2, LogNumbers DEF QueueInv
      <4> QED
        BY <4>1, <4>2, <4>3
    <3>2. CASE e.seq <= h
      BY <1>3, <1>7, <1>9, <3>1, <3>2 DEF HasItsPlace
    <3>3. CASE e.seq > h
      <4>1. e \in later
        BY <1>4, <3>3
      <4>2. e.seq - h \in 1..Len(q.wire) /\ q.wire[e.seq - h] = e
        BY <1>6, <1>9, <4>1
      <4>3. ~(q.highest < e.seq) /\ ~(e.seq <= p.cursor)
        BY <1>9, <2>3, <3>1, <3>3
      <4> QED
        BY <4>2, <4>3 DEF HasItsPlace
    <3> QED
      BY <3>1, <3>2, <3>3
  <2> QED
    BY <2>1, <2>2, <2>4, <2>5 DEF SoundStream
<1>11. page' = [page EXCEPT ![v] = p] /\ UNCHANGED <<vars, unpublished, carried, lost>>
  BY <1>1 DEF Replay, StreamTypeOK
<1> QED
  BY <1>7, <1>9, <1>10, <1>11, LocalStep

\* A message of the feed is sent if it is new.
LEMMA RelaySound ==
    ASSUME QueueInv, StreamTypeOK, StreamInv, NEW v \in Watchers, Relay(v)
    PROVE  StreamTypeOK' /\ StreamInv'
<1>1. PICK s \in Stream, p \in Page : s = stream[v] /\ p = page[v] /\ SoundStream(v, s, p)
  BY DEF StreamTypeOK, StreamInv
<1> DEFINE j == Watched[v]
<1>2. s.state = "live" /\ s.channel # <<>> /\ s.channel \in Seq(Event) /\ s.wire \in Seq(Event)
  BY <1>1 DEF Relay, Stream
<1>3. PICK x \in Event : x = s.channel[1] /\ x = Head(s.channel)
  BY <1>2, HeadTailProperties
<1>4. PICK tail \in Seq(Event) :
         /\ tail = Tail(s.channel) /\ Len(tail) = Len(s.channel) - 1
         /\ \A k \in 1..Len(tail) : tail[k] = s.channel[k + 1]
  <2>1. /\ Tail(s.channel) \in Seq(Event) /\ Len(Tail(s.channel)) = Len(s.channel) - 1
        /\ \A k \in 1..Len(Tail(s.channel)) : Tail(s.channel)[k] = s.channel[k + 1]
    BY <1>2, HeadTailProperties
  <2> QED
    BY <2>1
<1>5. Len(s.channel) \in Nat \ {0} /\ Len(s.wire) \in Nat
  BY <1>2, EmptySeq, LenProperties
<1>6. /\ \A k \in 1..Len(tail) : k + 1 \in 1..Len(s.channel)
      /\ \A k \in 1..Len(s.channel) : k = 1 \/ (k - 1 \in 1..Len(tail) /\ tail[k - 1] = s.channel[k])
  BY <1>4, <1>5
<1>7. /\ p.cursor \in Nat /\ s.highest \in Nat /\ p.cursor <= s.highest /\ x.seq \in Nat
      /\ x \in events[j]
      /\ \A e \in events[j] : e.seq \in Nat /\ (e.seq = x.seq => e = x)
  <2>1. p.cursor <= s.highest
    BY <1>1, <1>2 DEF SoundStream, FramesClimb
  <2>2. x \in events[j]
    BY <1>1, <1>3, <1>5, SoundNumbers
  <2> QED
    BY <1>1, <2>1, <2>2, SoundNumbers DEF Event
<1>8. ASSUME NEW q \in Stream, q.channel = tail PROVE LateIsLost(v, q)
  <2>1. LateIsLost(v, s)
    BY <1>1 DEF SoundStream
  <2> QED
    BY <1>4, <1>6, <1>8, <2>1 DEF LateIsLost
<1>9. ASSUME NEW q \in Stream, q.channel = tail, SoundStream(v, q, p),
             stream' = [stream EXCEPT ![v] = q]
      PROVE  StreamTypeOK' /\ StreamInv'
  <2>1. page' = [page EXCEPT ![v] = p] /\ UNCHANGED <<vars, unpublished, carried, lost>>
    BY <1>1 DEF Relay, StreamTypeOK
  <2> QED
    BY <1>9, <2>1, LocalStep
<1>10. CASE ~Fresh(v, x)
  <2> DEFINE q == [s EXCEPT !.channel = tail]
  <2>1. stream' = [stream EXCEPT ![v] = q]
    BY <1>1, <1>3, <1>4, <1>10 DEF Relay
  <2>2. /\ q \in Stream /\ q.channel = tail /\ q.wire = s.wire /\ q.highest = s.highest
        /\ q.state = s.state
    BY DEF Stream
  <2>3. x.seq <= s.highest
    BY <1>1, <1>7, <1>10 DEF Fresh
  <2> HIDE DEF q
  <2>4. NothingBeforeTheLog(v, q, p)
    BY <1>1, <1>4, <1>6, <2>2 DEF SoundStream, NothingBeforeTheLog
  <2>5. FramesClimb(q, p)
    BY <1>1, <2>2 DEF SoundStream, FramesClimb
  <2>6. ASSUME NEW e \in events[j] PROVE HasItsPlace(v, q, p, e)
    <3>1. HasItsPlace(v, s, p, e) /\ e.seq \in Nat
      BY <1>1, <1>7 DEF SoundStream
    <3>2. ASSUME NEW k \in 1..Len(s.channel), s.channel[k] = e, s.highest < e.seq
          PROVE  k - 1 \in 1..Len(q.channel) /\ q.channel[k - 1] = e
      BY <1>3, <1>6, <1>7, <2>2, <2>3, <3>1, <3>2
    <3> QED
      BY <2>2, <3>1, <3>2 DEF HasItsPlace
  <2> QED
    BY <1>8, <1>9, <2>1, <2>2, <2>4, <2>5, <2>6 DEF SoundStream
<1>11. CASE Fresh(v, x)
  <2> DEFINE q == [s EXCEPT !.channel = tail, !.highest = x.seq, !.wire = Append(@, x),
                            !.state = IF IsTerminal(x.status) THEN "ended" ELSE @]
  <2>1. stream' = [stream EXCEPT ![v] = q]
    BY <1>1, <1>3, <1>4, <1>11 DEF Relay
  <2>2. PICK wire \in Seq(Event) :
           /\ wire = Append(s.wire, x) /\ Len(wire) = Len(s.wire) + 1
           /\ \A k \in 1..Len(s.wire) : wire[k] = s.wire[k]
           /\ wire[Len(s.wire) + 1] = x
    <3>1. /\ Append(s.wire, x) \in Seq(Event) /\ Len(Append(s.wire, x)) = Len(s.wire) + 1
          /\ \A k \in 1..Len(s.wire) : Append(s.wire, x)[k] = s.wire[k]
          /\ Append(s.wire, x)[Len(s.wire) + 1] = x
      BY <1>2, AppendProperties
    <3> QED
      BY <3>1
  <2>3. /\ q \in Stream /\ q.channel = tail /\ q.wire = wire /\ q.highest = x.seq
        /\ q.state \in {"live", "ended"}
    BY <1>2, <1>7, <2>2 DEF Stream
  <2>4. x.seq > s.highest
    BY <1>1, <1>11 DEF Fresh
  <2>5. /\ \A k \in 1..Len(wire) : k \in 1..Len(s.wire) \/ k = Len(s.wire) + 1
        /\ \A k \in 1..Len(s.wire) : k \in 1..Len(wire) /\ k < Len(s.wire) + 1
        /\ Len(s.wire) + 1 \in 1..Len(wire)
    BY <1>5, <2>2
  <2> HIDE DEF q
  <2>6. NothingBeforeTheLog(v, q, p)
    <3>1. x.seq <= job[j].seq
      BY <1>1, <1>7, SoundNumbers, LogNumbers DEF QueueInv
    <3> QED
      BY <1>1, <1>4, <1>6, <2>3, <3>1 DEF SoundStream, NothingBeforeTheLog
  <2>7. FramesClimb(q, p)
    <3>1. ASSUME NEW k \in 1..Len(s.wire)
          PROVE  /\ p.cursor < s.wire[k].seq /\ s.wire[k].seq <= s.highest
                 /\ s.wire[k].seq \in Nat
                 /\ \A i \in 1..Len(s.wire) : i < k => s.wire[i].seq < s.wire[k].seq
      <4>1. s.wire[k] \in Event
        BY <1>2, ElementOfSeq
      <4> QED
        BY <1>1, <4>1 DEF SoundStream, FramesClimb, Event
    <3>2. p.cursor < x.seq
      BY <1>7, <2>4
    <3>3. \A k \in 1..Len(s.wire) : s.wire[k].seq < x.seq
      BY <1>7, <2>4, <3>1
    <3>4. ASSUME NEW k \in 1..Len(wire)
          PROVE  /\ p.cursor < wire[k].seq /\ wire[k].seq <= x.seq
                 /\ \A i \in 1..Len(wire) : i < k => wire[i].seq < wire[k].seq
      <4>1. CASE k \in 1..Len(s.wire)
        <5>1. \A i \in 1..Len(wire) : i < k => i \in 1..Len(s.wire)
          BY <1>5, <2>2, <4>1
        <5>2. wire[k] = s.wire[k] /\ wire[k].seq <= x.seq
          BY <1>7, <2>2, <3>1, <3>3, <4>1
        <5> QED
          BY <2>2, <3>1, <4>1, <5>1, <5>2
      <4>2. CASE k = Len(s.wire) + 1
        <5>1. \A i \in 1..Len(wire) : i < k => i \in 1..Len(s.wire)
          BY <1>5, <2>2, <4>2
        <5>2. x.seq <= x.seq
          BY <1>7
        <5> QED
          BY <2>2, <3>2, <3>3, <4>2, <5>1, <5>2
      <4> QED
        BY <2>5, <4>1, <4>2
    <3>5. p.cursor <= x.seq
      BY <1>7, <3>2
    <3> QED
      BY <2>3, <3>4, <3>5 DEF FramesClimb
  <2>8. ASSUME NEW e \in events[j] PROVE HasItsPlace(v, q, p, e)
    <3>1. HasItsPlace(v, s, p, e) /\ e.seq \in Nat /\ (e.seq = x.seq => e = x)
      BY <1>1, <1>7 DEF SoundStream
    <3>2. ASSUME p.cursor < e.seq, e.seq <= x.seq
          PROVE  (\E k \in 1..Len(wire) : wire[k] = e) \/ Missed(v, e)
      <4>1. CASE e.seq <= s.highest
        BY <1>2, <2>2, <2>5, <3>1, <3>2, <4>1 DEF HasItsPlace
      <4>2. CASE e = x
        BY <2>2, <2>5, <4>2
      <4>3. CASE s.highest < e.seq /\ e.seq < x.seq
        <5>1. LateIsLost(v, s)
          BY <1>1 DEF SoundStream
        <5>2. x.seq <= carried[j] /\ carried[j] \in Nat
          <6>1. 1 \in 1..Len(s.channel)
            BY <1>5
          <6>2. x.seq <= carried[j]
            BY <1>3, <5>1, <6>1 DEF LateIsLost
          <6>3. j \in Jobs
            OBVIOUS
          <6> QED
            BY <6>2, <6>3 DEF StreamTypeOK
        <5>3. ASSUME NEW k \in 1..Len(s.channel), s.channel[k] = e PROVE Missed(v, e)
          <6>1. 1 < k /\ 1 \in 1..Len(s.channel)
            BY <1>3, <1>5, <1>7, <3>1, <4>3, <5>3
          <6> QED
            BY <1>3, <4>3, <5>1, <5>3, <6>1 DEF LateIsLost, Missed
        <5>4. InLog(v, e) \in unpublished => Missed(v, e)
          BY <1>7, <3>1, <4>3, <5>2 DEF Missed
        <5> QED
          BY <1>2, <3>1, <4>3, <5>3, <5>4 DEF HasItsPlace, Missed
      <4> QED
        BY <1>7, <3>1, <3>2, <4>1, <4>2, <4>3
    <3>3. ASSUME x.seq < e.seq
          PROVE  \/ \E k \in 1..Len(tail) : tail[k] = e
                 \/ InLog(v, e) \in unpublished \cup lost
      <4>1. s.highest < e.seq
        BY <1>7, <2>4, <3>1, <3>3
      <4>2. \A k \in 1..Len(s.channel) : s.channel[k] = e => k # 1
        BY <1>3, <1>7, <3>3
      <4> QED
        BY <1>2, <1>6, <3>1, <4>1, <4>2 DEF HasItsPlace
    <3> QED
      BY <2>3, <3>1, <3>2, <3>3 DEF HasItsPlace
  <2> QED
    BY <1>8, <1>9, <2>1, <2>3, <2>6, <2>7, <2>8 DEF SoundStream
<1> QED
  BY <1>10, <1>11

\* The browser takes a frame off the wire.
LEMMA ReceiveSound ==
    ASSUME QueueInv, StreamTypeOK, StreamInv, NEW v \in Watchers, Receive(v)
    PROVE  StreamTypeOK' /\ StreamInv'
<1>1. PICK s \in Stream, p \in Page : s = stream[v] /\ p = page[v] /\ SoundStream(v, s, p)
  BY DEF StreamTypeOK, StreamInv
<1> DEFINE j == Watched[v]
<1>2. s.wire # <<>> /\ s.wire \in Seq(Event) /\ s.state # "closed"
  BY <1>1 DEF Receive, Stream, SoundStream, FramesClimb
<1>3. PICK x \in Event : x = s.wire[1] /\ x = Head(s.wire)
  BY <1>2, HeadTailProperties
<1>4. PICK tail \in Seq(Event) :
         /\ tail = Tail(s.wire) /\ Len(tail) = Len(s.wire) - 1
         /\ \A k \in 1..Len(tail) : tail[k] = s.wire[k + 1]
  <2>1. /\ Tail(s.wire) \in Seq(Event) /\ Len(Tail(s.wire)) = Len(s.wire) - 1
        /\ \A k \in 1..Len(Tail(s.wire)) : Tail(s.wire)[k] = s.wire[k + 1]
    BY <1>2, HeadTailProperties
  <2> QED
    BY <2>1
<1>5. Len(s.wire) \in Nat \ {0}
  BY <1>2, EmptySeq
<1>6. /\ \A k \in 1..Len(tail) : k + 1 \in 1..Len(s.wire) /\ 1 < k + 1
      /\ \A i, k \in 1..Len(tail) : i < k => i + 1 < k + 1
      /\ \A k \in 1..Len(s.wire) : k = 1 \/ (k - 1 \in 1..Len(tail) /\ tail[k - 1] = s.wire[k])
  BY <1>4, <1>5
<1>7. /\ p.cursor \in Nat /\ s.highest \in Nat /\ x.seq \in Nat
      /\ p.cursor < x.seq /\ x.seq <= s.highest /\ s.highest <= job[j].seq /\ job[j].seq \in Nat
      /\ \A k \in 1..Len(s.wire) : k # 1 => x.seq < s.wire[k].seq
      /\ \A e \in events[j] : e.seq \in Nat
  <2>1. FramesClimb(s, p)
    BY <1>1 DEF SoundStream
  <2>2. 1 \in 1..Len(s.wire) /\ \A k \in 1..Len(s.wire) : k # 1 => 1 < k
    BY <1>5
  <2>3. p.cursor < x.seq /\ x.seq <= s.highest
    BY <1>3, <2>1, <2>2 DEF FramesClimb
  <2>4. \A k \in 1..Len(s.wire) : k # 1 => x.seq < s.wire[k].seq
    BY <1>3, <2>1, <2>2 DEF FramesClimb
  <2> QED
    BY <1>1, <2>3, <2>4, SoundNumbers DEF Event
<1> DEFINE over  == IsTerminal(x.status)
           shown == x.seq > p.seq
           q == [p EXCEPT !.cursor = x.seq,
                          !.got    = @ \cup {x.seq},
                          !.state  = IF over THEN "done" ELSE @,
                          !.status = IF over THEN job[j].status
                                     ELSE IF shown THEN x.status ELSE @,
                          !.seq    = IF over THEN job[j].seq
                                     ELSE IF shown THEN x.seq ELSE @]
           t == [s EXCEPT !.wire = tail]
           r == IF over THEN ClosedStream ELSE t
<1>8. stream' = [stream EXCEPT ![v] = r] /\ UNCHANGED <<vars, unpublished, carried, lost>>
  BY <1>1, <1>3, <1>4 DEF Receive
<1>9. page' = [page EXCEPT ![v] = q]
  <2>1. page[v] = p
    BY <1>1
  <2> QED
    BY <1>1, <1>3, <2>1 DEF Receive, StreamTypeOK, Page
<1>10. q \in Page /\ q.cursor = x.seq /\ q.got = p.got \cup {x.seq}
  <2>1. job[j].status \in Status \cup {Absent} /\ job[j].seq \in Nat
    BY DEF QueueInv, TypeOK, Row
  <2> QED
    BY <1>7, <2>1 DEF Page, Event
<1>11. t \in Stream /\ t.wire = tail /\ t.highest = s.highest /\ t.channel = s.channel
       /\ t.state = s.state
  BY DEF Stream
<1>12. /\ ClosedStream \in Stream /\ ClosedStream.state = "closed"
       /\ ClosedStream.highest = 0 /\ Len(ClosedStream.channel) = 0
       /\ ClosedStream.wire = <<>>
  BY EmptySeq DEF ClosedStream, Stream
<1> HIDE DEF q, t
<1>13. ASSUME NEW e \in events[j]
       PROVE  /\ e.seq \in Nat
              /\ e.seq <= x.seq => e.seq \in q.got \/ Missed(v, e)
              /\ x.seq < e.seq /\ e.seq <= s.highest
                    => (\E k \in 1..Len(tail) : tail[k] = e) \/ Missed(v, e)
  <2>1. HasItsPlace(v, s, p, e) /\ e.seq \in Nat
    BY <1>1, <1>7 DEF SoundStream
  <2>2. e.seq <= p.cursor \/ (p.cursor < e.seq)
    BY <1>7, <2>1
  <2>3. ASSUME p.cursor < e.seq, e.seq <= s.highest
        PROVE  (\E k \in 1..Len(s.wire) : s.wire[k] = e) \/ Missed(v, e)
    BY <1>2, <2>1, <2>3 DEF HasItsPlace
  <2>4. ASSUME e.seq <= x.seq PROVE e.seq \in q.got \/ Missed(v, e)
    <3>1. CASE e.seq <= p.cursor
      BY <1>10, <2>1, <3>1 DEF HasItsPlace
    <3>2. CASE p.cursor < e.seq
      <4>1. e.seq <= s.highest
        BY <1>7, <2>1, <2>4
      <4>2. ASSUME NEW k \in 1..Len(s.wire), s.wire[k] = e PROVE e.seq \in q.got
        <5>1. k = 1
          BY <1>7, <2>1, <2>4, <4>2
        <5> QED
          BY <1>3, <1>10, <4>2, <5>1
      <4> QED
        BY <2>3, <3>2, <4>1, <4>2
    <3> QED
      BY <2>2, <3>1, <3>2
  <2>5. ASSUME x.seq < e.seq, e.seq <= s.highest
        PROVE  (\E k \in 1..Len(tail) : tail[k] = e) \/ Missed(v, e)
    <3>1. p.cursor < e.seq
      BY <1>7, <2>1, <2>5
    <3>2. \A k \in 1..Len(s.wire) : s.wire[k] = e => k # 1
      BY <1>3, <1>7, <2>1, <2>5
    <3> QED
      BY <1>6, <2>3, <2>5, <3>1, <3>2
  <2> QED
    BY <2>1, <2>4, <2>5
<1>14. CASE ~over
  <2>1. NothingBeforeTheLog(v, t, q)
    <3>1. x.seq <= job[j].seq
      BY <1>7
    <3> QED
      BY <1>1, <1>10, <1>11, <3>1 DEF SoundStream, NothingBeforeTheLog
  <2>2. LateIsLost(v, t)
    BY <1>1, <1>11 DEF SoundStream, LateIsLost
  <2>3. FramesClimb(t, q)
    <3>1. FramesClimb(s, p)
      BY <1>1 DEF SoundStream
    <3>2. s.state \notin {"closed", "subscribed"}
      BY <1>2, <3>1 DEF FramesClimb
    <3>3. ASSUME NEW k \in 1..Len(tail)
          PROVE  /\ x.seq < tail[k].seq /\ tail[k].seq <= s.highest
                 /\ \A i \in 1..Len(tail) : i < k => tail[i].seq < tail[k].seq
      <4>1. k + 1 \in 1..Len(s.wire) /\ k + 1 # 1 /\ tail[k] = s.wire[k + 1]
        BY <1>4, <1>6
      <4>2. x.seq < tail[k].seq /\ tail[k].seq <= s.highest
        BY <1>7, <3>1, <4>1 DEF FramesClimb
      <4>3. ASSUME NEW i \in 1..Len(tail), i < k PROVE tail[i].seq < tail[k].seq
        <5>1. i + 1 \in 1..Len(s.wire) /\ i + 1 < k + 1 /\ tail[i] = s.wire[i + 1]
          BY <1>4, <1>6, <4>3
        <5> QED
          BY <3>1, <4>1, <5>1 DEF FramesClimb
      <4> QED
        BY <4>2, <4>3
    <3> QED
      BY <1>7, <1>10, <1>11, <3>2, <3>3 DEF FramesClimb
  <2>4. ASSUME NEW e \in events[j] PROVE HasItsPlace(v, t, q, e)
    <3>1. HasItsPlace(v, s, p, e)
      BY <1>1 DEF SoundStream
    <3> QED
      BY <1>10, <1>11, <1>13, <3>1 DEF HasItsPlace
  <2>5. SoundStream(v, t, q)
    BY <2>1, <2>2, <2>3, <2>4 DEF SoundStream
  <2> QED
    BY <1>8, <1>9, <1>10, <1>11, <1>14, <2>5, LocalStep
<1>15. CASE over
  <2>1. NothingBeforeTheLog(v, ClosedStream, q)
    <3>1. x.seq <= job[j].seq /\ 0 <= job[j].seq
      BY <1>7
    <3> QED
      BY <1>10, <1>12, <3>1 DEF NothingBeforeTheLog
  <2>2. LateIsLost(v, ClosedStream)
    BY <1>12 DEF LateIsLost
  <2>3. FramesClimb(ClosedStream, q)
    BY <1>12 DEF FramesClimb
  <2>4. ASSUME NEW e \in events[j] PROVE HasItsPlace(v, ClosedStream, q, e)
    BY <1>10, <1>12, <1>13 DEF HasItsPlace
  <2>5. SoundStream(v, ClosedStream, q)
    BY <2>1, <2>2, <2>3, <2>4 DEF SoundStream
  <2> QED
    BY <1>8, <1>9, <1>10, <1>12, <1>15, <2>5, LocalStep
<1> QED
  BY <1>14, <1>15

\* A stream opens at the browser's cursor, or closes: nothing is on its wire.
LEMMA ClosedSound ==
    ASSUME QueueInv, NEW v \in Watchers, NEW s \in Stream, NEW p \in Page,
           SoundStream(v, s, p)
    PROVE  /\ ClosedStream \in Stream /\ SoundStream(v, ClosedStream, p)
           /\ [ClosedStream EXCEPT !.state = "subscribed", !.highest = p.cursor] \in Stream
           /\ SoundStream(v, [ClosedStream EXCEPT !.state = "subscribed", !.highest = p.cursor], p)
<1> DEFINE q == [ClosedStream EXCEPT !.state = "subscribed", !.highest = p.cursor]
<1>0. /\ p.cursor \in Nat /\ job[Watched[v]].seq \in Nat /\ p.cursor <= job[Watched[v]].seq
      /\ \A e \in events[Watched[v]] : e.seq \in Nat /\ (e.seq <= p.cursor => ~(p.cursor < e.seq))
  BY SoundNumbers
<1>1. ASSUME NEW t \in Stream, t.channel = <<>>, t.wire = <<>>,
             \/ t.state = "closed" /\ t.highest = 0
             \/ t.state = "subscribed" /\ t.highest = p.cursor
      PROVE  SoundStream(v, t, p)
  <2>1. Len(t.channel) = 0 /\ Len(t.wire) = 0
    BY <1>1
  <2>2. NothingBeforeTheLog(v, t, p)
    BY <1>0, <1>1, <2>1 DEF NothingBeforeTheLog
  <2>3. LateIsLost(v, t)
    BY <2>1 DEF LateIsLost
  <2>4. FramesClimb(t, p)
    BY <1>0, <1>1, <2>1 DEF FramesClimb
  <2>5. ASSUME NEW e \in events[Watched[v]] PROVE HasItsPlace(v, t, p, e)
    <3>1. HasItsPlace(v, s, p, e)
      BY DEF SoundStream
    <3> QED
      BY <1>0, <1>1, <3>1 DEF HasItsPlace
  <2> QED
    BY <2>2, <2>3, <2>4, <2>5 DEF SoundStream
<1>2. /\ ClosedStream \in Stream /\ ClosedStream.channel = <<>> /\ ClosedStream.wire = <<>>
      /\ ClosedStream.state = "closed" /\ ClosedStream.highest = 0
  BY EmptySeq DEF ClosedStream, Stream
<1>3. /\ q \in Stream /\ q.channel = <<>> /\ q.wire = <<>>
      /\ q.state = "subscribed" /\ q.highest = p.cursor
  BY <1>0, EmptySeq DEF ClosedStream, Stream
<1> QED
  BY <1>1, <1>2, <1>3

\* The page loads the job.
LEMMA OpenSound ==
    ASSUME QueueInv, StreamTypeOK, StreamInv, NEW v \in Watchers, Open(v)
    PROVE  StreamTypeOK' /\ StreamInv'
<1>1. PICK s \in Stream, p \in Page : s = stream[v] /\ p = page[v] /\ SoundStream(v, s, p)
  BY DEF StreamTypeOK, StreamInv
<1> DEFINE row == job[Watched[v]]
           q == [p EXCEPT !.state = IF IsTerminal(row.status) THEN "done" ELSE "following",
                          !.status = row.status, !.seq = row.seq]
<1>2. row \in Row
  BY DEF QueueInv, TypeOK
<1>3. page' = [page EXCEPT ![v] = q]
  BY <1>1 DEF Open, StreamTypeOK, Page
<1>4. q \in Page /\ q.cursor = p.cursor /\ q.got = p.got
  BY <1>2 DEF Page, Row
<1> HIDE DEF q
<1>5. SoundStream(v, s, q)
  BY <1>1, <1>4 DEF SoundStream, NothingBeforeTheLog, FramesClimb, HasItsPlace
<1>6. stream' = [stream EXCEPT ![v] = s] /\ UNCHANGED <<vars, unpublished, carried, lost>>
  BY <1>1 DEF Open, StreamTypeOK
<1> QED
  BY <1>3, <1>4, <1>5, <1>6, LocalStep

\* A message is put on the channel, in its turn or too late.
LEMMA PublishSound ==
    ASSUME QueueInv, StreamTypeOK, StreamInv, NEW m \in unpublished, Publish(m)
    PROVE  StreamTypeOK' /\ StreamInv'
<1>1. PICK k \in Jobs, x \in Event : k = m.job /\ x = m.event /\ m = [job |-> k, event |-> x]
  BY DEF StreamTypeOK
<1>2. x.seq \in Nat /\ x \in events[k]
  BY <1>1 DEF Event, StreamInv
<1>3. /\ unpublished' = unpublished \ {m} /\ job' = job /\ events' = events /\ page' = page
      /\ carried' = [carried EXCEPT ![k] = IF x.seq > carried[k] THEN x.seq ELSE carried[k]]
      /\ lost' = IF x.seq < carried[k] THEN lost \cup {m} ELSE lost
  BY <1>1 DEF Publish, vars
<1>4. \A j \in Jobs : carried[j] \in Nat
  BY DEF StreamTypeOK
<1>5. /\ carried' \in [Jobs -> Nat] /\ \A j \in Jobs : carried[j] <= carried'[j]
      /\ x.seq <= carried'[k]
  <2>1. carried' \in [Jobs -> Nat]
    BY <1>2, <1>3, <1>4 DEF StreamTypeOK
  <2>2. x.seq <= carried'[k] /\ carried[k] <= carried'[k]
    BY <1>2, <1>3, <1>4 DEF StreamTypeOK
  <2>3. \A j \in Jobs : j # k => carried'[j] = carried[j]
    BY <1>3 DEF StreamTypeOK
  <2> QED
    BY <1>4, <2>1, <2>2, <2>3
<1>6. lost \subseteq lost'
  BY <1>3
<1>7. ASSUME NEW v \in Watchers, NEW e, Missed(v, e), e \in events[Watched[v]]
      PROVE  Missed(v, e)'
  <2>1. CASE InLog(v, e) \in lost
    BY <1>6, <2>1 DEF Missed, InLog
  <2>2. CASE InLog(v, e) \in unpublished /\ InLog(v, e) # m /\ e.seq < carried[Watched[v]]
    <3>1. e.seq \in Nat
      BY <1>7, LogNumbers DEF QueueInv
    <3>2. e.seq < carried'[Watched[v]]
      BY <1>4, <1>5, <2>2, <3>1
    <3> QED
      BY <1>3, <2>2, <3>2 DEF Missed, InLog
  <2>3. CASE InLog(v, e) = m /\ e.seq < carried[Watched[v]]
    <3>1. Watched[v] = k /\ e = x
      BY <1>1, <2>3 DEF InLog
    <3> QED
      BY <1>3, <2>3, <3>1 DEF Missed, InLog
  <2> QED
    BY <1>7, <2>1, <2>2, <2>3 DEF Missed
<1>8. ASSUME NEW v \in Watchers, NEW s \in Stream, NEW p \in Page, SoundStream(v, s, p),
             ~(Watched[v] = k /\ s.state \in {"subscribed", "live"})
      PROVE  SoundStream(v, s, p)'
  <2>1. NothingBeforeTheLog(v, s, p)'
    BY <1>3, <1>8 DEF SoundStream, NothingBeforeTheLog
  <2>2. LateIsLost(v, s)'
    <3>1. \A i \in 1..Len(s.channel) : s.channel[i].seq \in Nat
      <4>1. \A i \in 1..Len(s.channel) : s.channel[i] \in Event
        BY ElementOfSeq DEF Stream
      <4> QED
        BY <4>1 DEF Event
    <3>2. carried[Watched[v]] \in Nat /\ carried'[Watched[v]] \in Nat
          /\ carried[Watched[v]] <= carried'[Watched[v]]
      BY <1>4, <1>5
    <3> QED
      BY <1>6, <1>8, <3>1, <3>2 DEF SoundStream, LateIsLost, InLog
  <2>3. FramesClimb(s, p)'
    BY <1>8 DEF SoundStream, FramesClimb
  <2>4. ASSUME NEW e \in events[Watched[v]] PROVE HasItsPlace(v, s, p, e)'
    <3>1. HasItsPlace(v, s, p, e) /\ (Missed(v, e) => Missed(v, e)')
      BY <1>7, <1>8 DEF SoundStream
    <3>2. s.state = "live" => InLog(v, e) # m
      BY <1>1, <1>8 DEF InLog
    <3>3. s.state = "live" /\ InLog(v, e) \in unpublished \cup lost
             => InLog(v, e) \in unpublished' \cup lost'
      BY <1>3, <1>6, <3>2
    <3> QED
      BY <3>1, <3>3 DEF HasItsPlace, InLog
  <2> QED
    BY <1>3, <2>1, <2>2, <2>3, <2>4 DEF SoundStream
<1>9. ASSUME NEW v \in Watchers, NEW s \in Stream, NEW p \in Page, SoundStream(v, s, p),
             Watched[v] = k, NEW q \in Stream, q = [s EXCEPT !.channel = Append(@, x)]
      PROVE  SoundStream(v, q, p)'
  <2>1. s.channel \in Seq(Event)
    BY DEF Stream
  <2>2. PICK channel \in Seq(Event) :
           /\ channel = Append(s.channel, x) /\ Len(channel) = Len(s.channel) + 1
           /\ \A i \in 1..Len(s.channel) : channel[i] = s.channel[i]
           /\ channel[Len(s.channel) + 1] = x
    <3>1. /\ Append(s.channel, x) \in Seq(Event) /\ Len(Append(s.channel, x)) = Len(s.channel) + 1
          /\ \A i \in 1..Len(s.channel) : Append(s.channel, x)[i] = s.channel[i]
          /\ Append(s.channel, x)[Len(s.channel) + 1] = x
      BY <2>1, AppendProperties
    <3> QED
      BY <3>1
  <2>3. /\ q.channel = channel /\ q.state = s.state /\ q.highest = s.highest
        /\ q.wire = s.wire
    BY <1>9, <2>2 DEF Stream
  <2>4. Len(s.channel) \in Nat
    BY <2>1, LenProperties
  <2>5. /\ \A i \in 1..Len(channel) : i \in 1..Len(s.channel) \/ i = Len(s.channel) + 1
        /\ \A i \in 1..Len(s.channel) : i \in 1..Len(channel) /\ i < Len(s.channel) + 1
        /\ Len(s.channel) + 1 \in 1..Len(channel)
        /\ \A i \in 1..Len(s.channel) : ~(Len(s.channel) + 1 < i)
        /\ ~(Len(s.channel) + 1 < Len(s.channel) + 1)
    BY <2>2, <2>4
  <2>6. NothingBeforeTheLog(v, q, p)'
    BY <1>2, <1>3, <1>9, <2>2, <2>3, <2>5 DEF SoundStream, NothingBeforeTheLog
  <2>7. LateIsLost(v, q)'
    <3>1. LateIsLost(v, s)
      BY <1>9 DEF SoundStream
    <3>2. carried[k] \in Nat /\ carried'[k] \in Nat /\ carried[k] <= carried'[k]
      BY <1>4, <1>5
    <3>3. ASSUME NEW i \in 1..Len(s.channel)
          PROVE  /\ s.channel[i].seq \in Nat /\ s.channel[i].seq <= carried[k]
                 /\ s.channel[i].seq <= carried'[k]
      <4>0. s.channel[i] \in Event
        BY <2>1, ElementOfSeq
      <4>1. s.channel[i].seq \in Nat
        BY <4>0 DEF Event
      <4>2. s.channel[i].seq <= carried[k]
        BY <1>9, <3>1 DEF LateIsLost
      <4> QED
        BY <3>2, <4>1, <4>2
    <3>4. ASSUME NEW i \in 1..Len(s.channel), x.seq < s.channel[i].seq
          PROVE  InLog(v, x) \in lost'
      <4>1. x.seq < carried[k]
        BY <1>2, <3>2, <3>3, <3>4
      <4> QED
        BY <1>1, <1>3, <1>9, <4>1 DEF InLog
    <3>5. ASSUME NEW i \in 1..Len(channel)
          PROVE  /\ channel[i].seq <= carried'[k]
                 /\ \A l \in 1..Len(channel) : l < i /\ channel[i].seq < channel[l].seq =>
                       InLog(v, channel[i]) \in lost'
      <4>1. CASE i \in 1..Len(s.channel)
        <5>1. \A l \in 1..Len(channel) : l < i => l \in 1..Len(s.channel)
          BY <2>5, <4>1
        <5>2. \A l \in 1..Len(s.channel) : l < i /\ s.channel[i].seq < s.channel[l].seq =>
                 InLog(v, s.channel[i]) \in lost'
          BY <1>6, <3>1, <4>1 DEF LateIsLost
        <5> QED
          BY <2>2, <3>3, <4>1, <5>1, <5>2
      <4>2. CASE i = Len(s.channel) + 1
        <5>1. \A l \in 1..Len(channel) : l < i => l \in 1..Len(s.channel)
          BY <2>5, <4>2
        <5> QED
          BY <1>5, <2>2, <3>4, <4>2, <5>1
      <4> QED
        BY <2>5, <4>1, <4>2
    <3> QED
      BY <1>9, <2>3, <3>5 DEF LateIsLost, InLog
  <2>8. FramesClimb(q, p)'
    BY <1>9, <2>3 DEF SoundStream, FramesClimb
  <2>9. ASSUME NEW e \in events[k] PROVE HasItsPlace(v, q, p, e)'
    <3>1. HasItsPlace(v, s, p, e) /\ (Missed(v, e) => Missed(v, e)')
      BY <1>7, <1>9 DEF SoundStream
    <3>2. ASSUME s.state = "live", s.highest < e.seq
          PROVE  \/ \E i \in 1..Len(channel) : channel[i] = e
                 \/ InLog(v, e) \in unpublished' \cup lost'
      <4>1. CASE InLog(v, e) = m
        <5>1. e = x
          BY <1>1, <4>1 DEF InLog
        <5> QED
          BY <2>2, <2>5, <5>1
      <4>2. CASE InLog(v, e) # m
        BY <1>3, <1>6, <2>2, <2>5, <3>1, <3>2, <4>2 DEF HasItsPlace
      <4> QED
        BY <4>1, <4>2
    <3> QED
      BY <2>3, <3>1, <3>2 DEF HasItsPlace, InLog
  <2> QED
    BY <1>3, <1>9, <2>6, <2>7, <2>8, <2>9 DEF SoundStream
<1>10. ASSUME NEW v \in Watchers
       PROVE  \E q \in Stream, p \in Page : /\ q = stream'[v] /\ p = page'[v]
                                            /\ SoundStream(v, q, p)'
  <2>1. PICK s \in Stream, p \in Page : s = stream[v] /\ p = page[v] /\ SoundStream(v, s, p)
    BY DEF StreamTypeOK, StreamInv
  <2>2. CASE Watched[v] = k /\ s.state \in {"subscribed", "live"}
    <3> DEFINE q == [s EXCEPT !.channel = Append(@, x)]
    <3>1. stream'[v] = q
      BY <1>1, <2>1, <2>2 DEF Publish, Listening
    <3>2. q \in Stream
      <4>1. s.channel \in Seq(Event)
        BY DEF Stream
      <4>2. Append(s.channel, x) \in Seq(Event)
        BY <4>1, AppendProperties
      <4> QED
        BY <4>2 DEF Stream
    <3>3. SoundStream(v, q, p)'
      BY <1>9, <2>1, <2>2, <3>2
    <3> HIDE DEF q
    <3> QED
      BY <1>3, <2>1, <3>1, <3>2, <3>3
  <2>3. CASE ~(Watched[v] = k /\ s.state \in {"subscribed", "live"})
    <3>1. stream'[v] = s
      BY <1>1, <2>1, <2>3 DEF Publish, Listening
    <3> QED
      BY <1>3, <1>8, <2>1, <2>3, <3>1
  <2> QED
    BY <2>2, <2>3
<1>11. StreamTypeOK'
  <2>1. \A v \in Watchers : stream'[v] \in Stream
    BY <1>10
  <2>2. stream' \in [Watchers -> Stream]
    <3> DEFINE F(v) == IF Watched[v] = m.job /\ Listening(v)
                       THEN [stream[v] EXCEPT !.channel = Append(@, m.event)]
                       ELSE stream[v]
    <3>1. stream' = [v \in Watchers |-> F(v)]
      BY DEF Publish
    <3> HIDE DEF F
    <3> QED
      BY <2>1, <3>1
  <2> QED
    BY <1>3, <1>5, <2>2 DEF StreamTypeOK
<1>12. ASSUME NEW v \in Watchers PROVE SoundStream(v, stream[v], page[v])'
  <2>1. PICK q \in Stream, p \in Page : q = stream'[v] /\ p = page'[v] /\ SoundStream(v, q, p)'
    BY <1>10
  <2> QED
    BY <2>1 DEF SoundStream, NothingBeforeTheLog, LateIsLost, FramesClimb, HasItsPlace,
       Missed, InLog
<1> QED
  BY <1>3, <1>11, <1>12 DEF StreamInv

(***************************************************************************)
(* Every step.                                                             *)
(***************************************************************************)
LEMMA StreamInitInv == StreamInit => QueueInv /\ StreamTypeOK /\ StreamInv
<1> SUFFICES ASSUME StreamInit PROVE QueueInv /\ StreamTypeOK /\ StreamInv
  OBVIOUS
<1>1. QueueInv
  BY InitType, InitLease, InitLog DEF StreamInit, QueueInv
<1>2. /\ ClosedStream \in Stream /\ ClosedStream.state = "closed"
      /\ ClosedStream.highest = 0 /\ Len(ClosedStream.channel) = 0
      /\ ClosedStream.wire = <<>> /\ Len(ClosedStream.wire) = 0
  BY EmptySeq DEF ClosedStream, Stream
<1>3. StreamTypeOK
  <2>1. [state |-> "unopened", status |-> Absent, seq |-> 0, cursor |-> 0, got |-> {}] \in Page
    BY DEF Page
  <2> QED
    BY <1>2, <2>1 DEF StreamInit, StreamTypeOK
<1>4. \A j \in Jobs : events[j] = {} /\ job[j].seq = 0
  BY DEF StreamInit, Init, NoRow
<1>5. ASSUME NEW v \in Watchers PROVE SoundStream(v, stream[v], page[v])
  <2>1. /\ stream[v] = ClosedStream /\ page[v].cursor = 0 /\ page[v].got = {}
        /\ events[Watched[v]] = {} /\ job[Watched[v]].seq = 0
    BY <1>4 DEF StreamInit
  <2>2. NothingBeforeTheLog(v, stream[v], page[v]) /\ LateIsLost(v, stream[v])
    BY <1>2, <2>1 DEF NothingBeforeTheLog, LateIsLost
  <2>3. FramesClimb(stream[v], page[v])
    BY <1>2, <2>1 DEF FramesClimb
  <2> QED
    BY <2>1, <2>2, <2>3 DEF SoundStream
<1> QED
  BY <1>1, <1>3, <1>5 DEF StreamInv, StreamInit

\* Browsers and channels leave the queue alone.
LEMMA StreamStepIsQueueStep == [StreamNext]_allVars => [Next]_vars
  BY ZenonT(40) DEF StreamNext, allVars, vars, QueueStep, Publish, PublishFails, Open, Subscribe,
     Replay, Relay, Receive, MaxAge, Disconnect

\* The queue logs, or a publish fails: every connection stays as it is.
LEMMA ElsewhereSound ==
    ASSUME QueueInv, QueueInv', StreamTypeOK, StreamInv,
           QueueStep \/ (\E m \in unpublished : PublishFails(m)) \/ UNCHANGED allVars
    PROVE  StreamTypeOK' /\ StreamInv'
<1>1. stream' = stream /\ page' = page /\ carried' = carried /\ lost \subseteq lost'
  BY DEF QueueStep, PublishFails, allVars
<1>2. [Next]_vars
  BY DEF QueueStep, PublishFails, allVars, vars
<1>3. \A j \in Jobs : events[j] \subseteq events'[j] /\ events'[j] \in SUBSET Event
  BY <1>2, LogGrows DEF QueueInv, TypeOK
<1>4. /\ unpublished \subseteq unpublished' \cup lost'
      /\ \A j \in Jobs : \A e \in events'[j] \ events[j] :
            [job |-> j, event |-> e] \in unpublished'
      /\ \A m \in unpublished' \ unpublished : \E j \in Jobs : \E e \in events'[j] :
            m = [job |-> j, event |-> e]
  <2>1. CASE QueueStep
    <3>1. PICK Added : /\ Added = UNION {{[job |-> j, event |-> e] :
                                            e \in events'[j] \ events[j]} : j \in Jobs}
                       /\ unpublished' = unpublished \cup Added
      BY <2>1 DEF QueueStep
    <3>2. ASSUME NEW j \in Jobs, NEW e \in events'[j] \ events[j]
          PROVE  [job |-> j, event |-> e] \in unpublished'
      <4>1. [job |-> j, event |-> e] \in Added
        BY <3>1, <3>2
      <4> QED
        BY <3>1, <4>1
    <3>3. ASSUME NEW m \in unpublished' \ unpublished
          PROVE  \E j \in Jobs : \E e \in events'[j] : m = [job |-> j, event |-> e]
      <4>1. m \in Added
        BY <3>1, <3>3
      <4>2. PICK j \in Jobs : m \in {[job |-> j, event |-> e] : e \in events'[j] \ events[j]}
        BY <3>1, <4>1
      <4> QED
        BY <4>2
    <3> QED
      BY <3>1, <3>2, <3>3
  <2>2. CASE \E m \in unpublished : PublishFails(m)
    BY <2>2 DEF PublishFails, vars
  <2>3. CASE UNCHANGED allVars
    BY <2>3 DEF allVars
  <2> QED
    BY <2>1, <2>2, <2>3
<1>5. StreamTypeOK'
  <2>1. \A m \in unpublished' \ unpublished : m \in [job : Jobs, event : Event]
    BY <1>3, <1>4
  <2> QED
    BY <1>1, <2>1 DEF StreamTypeOK
<1>6. \A m \in unpublished' : m.event \in events'[m.job]
  <2>1. \A m \in unpublished : m.job \in Jobs /\ m.event \in events[m.job]
    BY DEF StreamTypeOK, StreamInv
  <2> QED
    BY <1>3, <1>4, <2>1
<1>7. ASSUME NEW v \in Watchers PROVE SoundStream(v, stream[v], page[v])'
  <2>1. PICK s \in Stream, p \in Page : s = stream[v] /\ p = page[v] /\ SoundStream(v, s, p)
    BY DEF StreamTypeOK, StreamInv
  <2>2. \A e \in events'[Watched[v]] \ events[Watched[v]] : InLog(v, e) \in unpublished'
    BY <1>4 DEF InLog
  <2>3. SoundStream(v, s, p)'
    BY <1>1, <1>2, <1>4, <2>1, <2>2, SoundStays
  <2> QED
    BY <1>1, <2>1, <2>3 DEF SoundStream, NothingBeforeTheLog, LateIsLost, FramesClimb,
       HasItsPlace, Missed, InLog
<1> QED
  BY <1>5, <1>6, <1>7 DEF StreamInv

\* A connection that opens, drops or reaches its age.
LEMMA ConnectionSound ==
    ASSUME QueueInv, StreamTypeOK, StreamInv, NEW v \in Watchers,
           Subscribe(v) \/ MaxAge(v) \/ Disconnect(v)
    PROVE  StreamTypeOK' /\ StreamInv'
<1>1. PICK s \in Stream, p \in Page : s = stream[v] /\ p = page[v] /\ SoundStream(v, s, p)
  BY DEF StreamTypeOK, StreamInv
<1>2. page' = [page EXCEPT ![v] = p] /\ UNCHANGED <<vars, unpublished, carried, lost>>
  BY <1>1 DEF Subscribe, MaxAge, Disconnect, StreamTypeOK
<1>3. CASE Subscribe(v)
  <2>1. stream' = [stream EXCEPT ![v] = [ClosedStream EXCEPT !.state = "subscribed",
                                                             !.highest = p.cursor]]
    BY <1>1, <1>3 DEF Subscribe, Resumed
  <2> QED
    BY <1>1, <1>2, <2>1, ClosedSound, LocalStep
<1>4. CASE MaxAge(v) \/ Disconnect(v)
  <2>1. stream' = [stream EXCEPT ![v] = ClosedStream]
    BY <1>4 DEF MaxAge, Disconnect
  <2> QED
    BY <1>1, <1>2, <2>1, ClosedSound, LocalStep
<1> QED
  BY <1>3, <1>4

\* The invariant is inductive.
LEMMA StreamNextInv ==
    QueueInv /\ StreamTypeOK /\ StreamInv /\ [StreamNext]_allVars
       => QueueInv' /\ StreamTypeOK' /\ StreamInv'
<1> SUFFICES ASSUME QueueInv, StreamTypeOK, StreamInv, [StreamNext]_allVars
             PROVE  QueueInv' /\ StreamTypeOK' /\ StreamInv'
  OBVIOUS
<1>1. QueueInv'
  BY StreamStepIsQueueStep, NextType, NextLease, NextLog DEF QueueInv
<1>2. CASE \/ QueueStep
           \/ \E m \in unpublished : PublishFails(m)
           \/ UNCHANGED allVars
  BY <1>1, <1>2, ElsewhereSound
<1>3. ASSUME NEW m \in unpublished, Publish(m) PROVE StreamTypeOK' /\ StreamInv'
  BY <1>3, PublishSound
<1>4. ASSUME NEW v \in Watchers,
             \/ Open(v) \/ Subscribe(v) \/ Replay(v) \/ Relay(v)
             \/ Receive(v) \/ MaxAge(v) \/ Disconnect(v)
      PROVE  StreamTypeOK' /\ StreamInv'
  BY <1>4, OpenSound, ConnectionSound, ReplaySound, RelaySound, ReceiveSound
<1> QED
  BY <1>1, <1>2, <1>3, <1>4 DEF StreamNext

\* Streams and pages are always typed and sound.
LEMMA StreamInvariant == StreamSpec => [](QueueInv /\ StreamTypeOK /\ StreamInv)
<1> QED
  BY StreamInitInv, StreamNextInv, PTL DEF StreamSpec

\* What a stream, a page and the publishes to come can be.
THEOREM StreamTypeCorrect == StreamSpec => []StreamTypeOK
<1> QED
  BY StreamInvariant, PTL

\* A browser never gets an event twice or out of order: not from the overlap of
\* a replay and the feed, not from publications that overtake each other, and
\* not from the next connection after a dropped one.
THEOREM FramesAlwaysAscend == StreamSpec => []FramesAscend
<1>1. QueueInv /\ StreamTypeOK /\ StreamInv => FramesAscend
  <2> SUFFICES ASSUME QueueInv, StreamTypeOK, StreamInv, NEW v \in Watchers,
                      NEW i \in 1..Len(stream[v].wire)
               PROVE  /\ stream[v].wire[i].seq > page[v].cursor
                      /\ i > 1 => stream[v].wire[i].seq > stream[v].wire[i - 1].seq
    BY DEF FramesAscend
  <2>1. FramesClimb(stream[v], page[v])
    BY DEF StreamInv, SoundStream
  <2>2. stream[v].wire[i].seq > page[v].cursor
    <3>1. page[v].cursor < stream[v].wire[i].seq
      BY <2>1 DEF FramesClimb
    <3> QED
      BY <3>1
  <2>3. ASSUME i > 1 PROVE stream[v].wire[i].seq > stream[v].wire[i - 1].seq
    <3>1. i - 1 \in 1..Len(stream[v].wire) /\ i - 1 < i
      <4>1. stream[v].wire \in Seq(Event)
        BY DEF StreamTypeOK, Stream
      <4>2. Len(stream[v].wire) \in Nat
        BY <4>1, LenProperties
      <4> QED
        BY <2>3, <4>2
    <3>2. stream[v].wire[i - 1].seq < stream[v].wire[i].seq
      BY <2>1, <3>1 DEF FramesClimb
    <3> QED
      BY <3>2
  <2> QED
    BY <2>2, <2>3
<1> QED
  BY <1>1, StreamInvariant, PTL

\* A live stream that is caught up has shown its page every event of the log,
\* those apart that the channel lost or carried late: whatever is logged or
\* published between the subscription and the replay is in one of the two.
THEOREM NoGaps == StreamSpec => []NoGapAfterReplay
<1>1. QueueInv /\ StreamTypeOK /\ StreamInv => NoGapAfterReplay
  <2> SUFFICES ASSUME QueueInv, StreamTypeOK, StreamInv, NEW v \in Watchers,
                      stream[v].state = "live", stream[v].channel = <<>>,
                      stream[v].wire = <<>>,
                      \A m \in unpublished : m.job # Watched[v],
                      NEW e \in events[Watched[v]]
               PROVE  e.seq \in page[v].got \/ [job |-> Watched[v], event |-> e] \in lost
    BY DEF NoGapAfterReplay
  <2>1. PICK s \in Stream, p \in Page : s = stream[v] /\ p = page[v] /\ SoundStream(v, s, p)
    BY DEF StreamTypeOK, StreamInv
  <2>2. HasItsPlace(v, s, p, e) /\ Len(s.wire) = 0 /\ Len(s.channel) = 0
    BY <2>1 DEF SoundStream
  <2>3. InLog(v, e) \notin unpublished
    BY DEF InLog
  <2>4. e.seq \in Nat /\ p.cursor \in Nat /\ s.highest \in Nat
    BY <2>1, SoundNumbers
  <2>5. e.seq <= p.cursor \/ (p.cursor < e.seq /\ e.seq <= s.highest) \/ s.highest < e.seq
    BY <2>4
  <2>6. Missed(v, e) => InLog(v, e) \in lost
    BY <2>3 DEF Missed
  <2> QED
    BY <2>1, <2>2, <2>3, <2>5, <2>6 DEF HasItsPlace, InLog
<1> QED
  BY <1>1, StreamInvariant, PTL
=============================================================================
