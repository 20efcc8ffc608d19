---------------------------- MODULE EventStream ----------------------------
(***************************************************************************)
(* A browser watching a job.  Every transaction of JobQueue that appends   *)
(* an event publishes it once it has committed, at best: the process may   *)
(* die first, Redis may refuse, and two API instances may publish in the   *)
(* other order.  A stream subscribes, replays the log from the cursor the  *)
(* browser gives, then follows the channel; the connection may drop at any *)
(* moment, and the browser comes back with the last id it received.        *)
(***************************************************************************)
EXTENDS JobQueue, Sequences

CONSTANT Watchers, Watched  \* pages open on a job, and which job: [Watchers -> Jobs]

ASSUME WatchAssumption == Watched \in [Watchers -> Jobs]

VARIABLES
    unpublished, \* committed events whose publish is still to come, with their job
    carried,     \* carried[j]: the highest seq the channel of j has carried
    lost,        \* events the channel never carried, or only after a later one
    stream,      \* stream[v]: the API's side of v's connection
    page         \* page[v]: the browser's side

streamVars == <<unpublished, carried, lost, stream, page>>
allVars    == <<job, events, outputs, grants, issued, claiming, cancel,
                unpublished, carried, lost, stream, page>>

(***************************************************************************)
(* A stream is closed, subscribed but not yet caught up, live, or ended by *)
(* the server with frames still to be read; `highest` is its highest_seq,  *)
(* `channel` what the subscription has buffered, `wire` the frames sent    *)
(* and not yet received.  A page keeps the cached job (status and          *)
(* last_event_seq), the Last-Event-ID and, for the properties, every seq   *)
(* it has received; it is unopened, following, or done with the stream.    *)
(***************************************************************************)
Stream == [state : {"closed", "subscribed", "live", "ended"}, highest : Nat,
           channel : Seq(Event), wire : Seq(Event)]
Page   == [state : {"unopened", "following", "done"}, status : Status \cup {Absent},
           seq : Nat, cursor : Nat, got : SUBSET Nat]

ClosedStream == [state |-> "closed", highest |-> 0, channel |-> <<>>, wire |-> <<>>]

StreamInit ==
    /\ Init
    /\ unpublished = {}
    /\ carried     = [j \in Jobs |-> 0]
    /\ lost        = {}
    /\ stream      = [v \in Watchers |-> ClosedStream]
    /\ page        = [v \in Watchers |->
          [state |-> "unopened", status |-> Absent, seq |-> 0, cursor |-> 0, got |-> {}]]

\* A step of the queue; what it logs is then to be published.
QueueStep ==
    /\ Next
    /\ unpublished' = unpublished \cup
          UNION {{[job |-> j, event |-> e] : e \in events'[j] \ events[j]} : j \in Jobs}
    /\ UNCHANGED <<carried, lost, stream, page>>

(***************************************************************************)
(* publish_event: best effort, after the commit.                           *)
(***************************************************************************)
\* Mutation: the subscription starts once the replay has been sent.
ListeningWhenSent(v) == stream[v].state = "live" /\ stream[v].wire = <<>>

Listening(v) == stream[v].state \in {"subscribed", "live"}

Publish(m) ==
    /\ unpublished' = unpublished \ {m}
    /\ carried' = [carried EXCEPT ![m.job] = IF m.event.seq > @ THEN m.event.seq ELSE @]
    /\ lost' = IF m.event.seq < carried[m.job] THEN lost \cup {m} ELSE lost
    /\ stream' = [v \in Watchers |->
          IF Watched[v] = m.job /\ Listening(v)
          THEN [stream[v] EXCEPT !.channel = Append(@, m.event)]
          ELSE stream[v]]
    /\ UNCHANGED <<vars, page>>

\* Redis is down, or the process dies between the commit and the publish.
PublishFails(m) ==
    /\ unpublished' = unpublished \ {m}
    /\ lost' = lost \cup {m}
    /\ UNCHANGED <<vars, carried, stream, page>>

(***************************************************************************)
(* stream_job_events.                                                      *)
(***************************************************************************)
\* _parse_cursor: EventSource sends no Last-Event-ID the first time, later the
\* last id it was given.
Resumed(v) == page[v].cursor

Subscribe(v) ==
    /\ page[v].state = "following"
    /\ stream[v].state = "closed"
    /\ stream' = [stream EXCEPT ![v] =
          [ClosedStream EXCEPT !.state = "subscribed", !.highest = Resumed(v)]]
    /\ UNCHANGED <<vars, unpublished, carried, lost, page>>

\* ORDER BY seq: each event stands after those with a smaller number.
InOrder(S) ==
    [i \in 1..Cardinality(S) |->
        CHOOSE e \in S : Cardinality({d \in S : d.seq < e.seq}) = i - 1]

\* _replay_from_db: the log after the cursor, in order.
ReplayOf(v) == InOrder({e \in events[Watched[v]] : e.seq > stream[v].highest})

\* A terminal event is always the last of its log, so the replay is sent whole
\* and the stream ends when its last event is terminal.
Replay(v) ==
    /\ stream[v].state = "subscribed"
    /\ LET replay == ReplayOf(v)
           last   == Len(replay)
       IN  stream' = [stream EXCEPT
              ![v].wire    = replay,
              ![v].highest = IF last = 0 THEN @ ELSE replay[last].seq,
              ![v].state   = IF last > 0 /\ IsTerminal(replay[last].status)
                             THEN "ended" ELSE "live"]
    /\ UNCHANGED <<vars, unpublished, carried, lost, page>>

\* Mutation: duplicates go through.
FreshAlways(v, event) == TRUE

Fresh(v, event) == event.seq > stream[v].highest

\* One message of the live feed: dropped, or sent and the stream's last one if
\* it is terminal.
Relay(v) ==
    /\ stream[v].state = "live"
    /\ stream[v].channel # <<>>
    /\ LET event == Head(stream[v].channel)
           rest  == [stream[v] EXCEPT !.channel = Tail(@)]
       IN  stream' = [stream EXCEPT ![v] =
              IF Fresh(v, event)
              THEN [rest EXCEPT !.highest = event.seq,
                                !.wire    = Append(@, event),
                                !.state   = IF IsTerminal(event.status)
                                            THEN "ended" ELSE @]
              ELSE rest]
    /\ UNCHANGED <<vars, unpublished, carried, lost, page>>

\* Mutation: a stream lives as long as the browser keeps it.
NeverTooOld(v) == FALSE

\* MAX_STREAM_SECONDS; the check comes before each wait for a message.
TooOld(v) == stream[v].state = "live" /\ stream[v].wire = <<>>

MaxAge(v) ==
    /\ TooOld(v)
    /\ stream' = [stream EXCEPT ![v] = ClosedStream]
    /\ UNCHANGED <<vars, unpublished, carried, lost, page>>

\* The connection drops, or an API instance restarts: frames in flight are gone.
Disconnect(v) ==
    /\ stream[v].state # "closed"
    /\ stream' = [stream EXCEPT ![v] = ClosedStream]
    /\ UNCHANGED <<vars, unpublished, carried, lost, page>>

(***************************************************************************)
(* The browser: useGeneration and useGenerationStream.                     *)
(***************************************************************************)
\* The page loads the job and follows it only while it runs.
Open(v) ==
    /\ page[v].state = "unopened"
    /\ job[Watched[v]].status # Absent
    /\ LET row == job[Watched[v]]
       IN  page' = [page EXCEPT ![v].state  = IF IsTerminal(row.status)
                                              THEN "done" ELSE "following",
                                ![v].status = row.status,
                                ![v].seq    = row.seq]
    /\ UNCHANGED <<vars, unpublished, carried, lost, stream>>

\* handle: an event the cached job already reflects is not shown; a terminal
\* one closes the source, and the job is fetched again.
Receive(v) ==
    /\ page[v].state = "following"
    /\ stream[v].wire # <<>>
    /\ LET event == Head(stream[v].wire)
           over  == IsTerminal(event.status)
           shown == event.seq > page[v].seq
       IN  /\ page' = [page EXCEPT
                 ![v].cursor = event.seq,
                 ![v].got    = @ \cup {event.seq},
                 ![v].state  = IF over THEN "done" ELSE @,
                 ![v].status = IF over THEN job[Watched[v]].status
                               ELSE IF shown THEN event.status ELSE @,
                 ![v].seq    = IF over THEN job[Watched[v]].seq
                               ELSE IF shown THEN event.seq ELSE @]
           /\ stream' = [stream EXCEPT ![v] =
                 IF over THEN ClosedStream ELSE [stream[v] EXCEPT !.wire = Tail(@)]]
    /\ UNCHANGED <<vars, unpublished, carried, lost>>

-----------------------------------------------------------------------------
StreamNext ==
    \/ QueueStep
    \/ \E m \in unpublished : Publish(m) \/ PublishFails(m)
    \/ \E v \in Watchers :
         \/ Open(v) \/ Subscribe(v) \/ Replay(v) \/ Relay(v)
         \/ Receive(v) \/ MaxAge(v) \/ Disconnect(v)

\* EventSource reconnects on its own, the API serves what it has, an idle
\* stream reaches its age; a connection that keeps dropping still lets a
\* replay and a frame through now and then.
StreamSpec ==
    /\ StreamInit
    /\ [][StreamNext]_allVars
    /\ \A v \in Watchers :
         /\ WF_allVars(Subscribe(v)) /\ WF_allVars(Relay(v)) /\ WF_allVars(MaxAge(v))
         /\ SF_allVars(Replay(v)) /\ SF_allVars(Receive(v))

(***************************************************************************)
(* Properties.                                                             *)
(***************************************************************************)
\* What a browser receives is strictly ascending across every reconnection:
\* nothing is shown twice and nothing out of order, whatever the order the
\* channel carried it in ("Duplicates are expected", services/events.py).
FramesAscend ==
    \A v \in Watchers :
       LET wire == stream[v].wire
       IN  \A i \in 1..Len(wire) :
              /\ wire[i].seq > page[v].cursor
              /\ i > 1 => wire[i].seq > wire[i - 1].seq

\* A live stream with nothing left to carry has shown the browser every event
\* but those the channel itself lost: subscribing before reading leaves no gap
\* between the replay and the feed.
NoGapAfterReplay ==
    \A v \in Watchers :
       /\ stream[v].state = "live" /\ stream[v].channel = <<>> /\ stream[v].wire = <<>>
       /\ \A m \in unpublished : m.job # Watched[v]
       => \A e \in events[Watched[v]] :
             e.seq \in page[v].got \/ [job |-> Watched[v], event |-> e] \in lost

\* Once a terminal event is in the log, a page that follows the job learns how
\* it ended, even when the event was never published.
LoggedEndIsSeen ==
    \A v \in Watchers :
       (page[v].state = "following" /\ \E e \in events[Watched[v]] : IsTerminal(e.status))
          ~> (page[v].state = "done" /\ IsTerminal(page[v].status))

(***************************************************************************)
(* What the source says of itself and the code does not do.                *)
(***************************************************************************)
\* api/v1/generations.py, stream_generation_events: "the browser opens one
\* connection and receives status, stage, progress and the terminal result".
EndIsSeen ==
    \A v \in Watchers :
       (page[v].state = "following" /\ IsTerminal(job[Watched[v]].status))
          ~> page[v].state = "done"

(***************************************************************************)
(* The facts FramesAscend and NoGapAfterReplay rest on: with the types and *)
(* the log properties of the queue they are inductive.                     *)
(***************************************************************************)
\* Publishes, connections and pages have their types.
StreamTypeOK ==
    /\ unpublished \subseteq [job : Jobs, event : Event]
    /\ carried \in [Jobs -> Nat]
    /\ stream \in [Watchers -> Stream]
    /\ page \in [Watchers -> Page]

InLog(v, e) == [job |-> Watched[v], event |-> e]

\* The channel will not bring v event e in its turn: it has lost it, or a later
\* event has overtaken its publication.
Missed(v, e) ==
    \/ InLog(v, e) \in lost
    \/ InLog(v, e) \in unpublished /\ e.seq < carried[Watched[v]]

\* A stream and its page have not heard of an event that is not logged.
NothingBeforeTheLog(v, s, p) ==
    /\ p.cursor <= job[Watched[v]].seq
    /\ s.highest <= job[Watched[v]].seq
    /\ \A k \in 1..Len(s.channel) : s.channel[k] \in events[Watched[v]]

\* What the channel carries after a later event counts as lost.
LateIsLost(v, s) ==
    \A k \in 1..Len(s.channel) :
       /\ s.channel[k].seq <= carried[Watched[v]]
       /\ \A i \in 1..Len(s.channel) :
             i < k /\ s.channel[k].seq < s.channel[i].seq => InLog(v, s.channel[k]) \in lost

\* The frames on the wire lead from the browser's cursor to highest_seq.
FramesClimb(s, p) ==
    /\ s.state \in {"closed", "subscribed"} => s.wire = <<>>
    /\ s.state # "closed" => p.cursor <= s.highest
    /\ \A k \in 1..Len(s.wire) :
          /\ p.cursor < s.wire[k].seq /\ s.wire[k].seq <= s.highest
          /\ \A i \in 1..Len(s.wire) : i < k => s.wire[i].seq < s.wire[k].seq

\* An event of the log is behind the cursor, on the wire or still to come from
\* the channel, unless the channel has missed it.
HasItsPlace(v, s, p, e) ==
    /\ e.seq <= p.cursor => e.seq \in p.got \/ Missed(v, e)
    /\ s.state # "closed" /\ p.cursor < e.seq /\ e.seq <= s.highest
          => (\E k \in 1..Len(s.wire) : s.wire[k] = e) \/ Missed(v, e)
    /\ s.state = "live" /\ s.highest < e.seq
          => \/ \E k \in 1..Len(s.channel) : s.channel[k] = e
             \/ InLog(v, e) \in unpublished \cup lost

SoundStream(v, s, p) ==
    /\ NothingBeforeTheLog(v, s, p)
    /\ LateIsLost(v, s)
    /\ FramesClimb(s, p)
    /\ \A e \in events[Watched[v]] : HasItsPlace(v, s, p, e)

StreamInv ==
    /\ \A m \in unpublished : m.event \in events[m.job]
    /\ \A v \in Watchers : SoundStream(v, stream[v], page[v])
=============================================================================
