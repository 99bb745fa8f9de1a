------------------------------- MODULE Streams -------------------------------
(***************************************************************************)
(* The live events of a sandbox (api/websocket.py): for each viewer a      *)
(* producer reads the gateway's stream into a bounded queue, drops what    *)
(* does not fit, and gives up on a viewer that stays slow; the consumer    *)
(* sends what it finds in the queue.  The end of the stream is a marker in *)
(* that same queue, and is itself dropped when the queue is full.  Each    *)
(* producer also feeds the ring of bypass events (services/bypass.py).     *)
(*                                                                         *)
(* Events are numbered in the order in which the gateway emits them.       *)
(***************************************************************************)
EXTENDS Integers, Sequences, SequencesExt

CONSTANTS Viewers,
          QueueSize,  \* ws_cfg.queue_maxsize
          DropLimit,  \* ws_cfg.backpressure_drop_limit
          TailLines,  \* log_tail_lines of the watch
          RingSize,   \* BypassService.ring_size
          MaxEvents   \* bound: events that the gateway emits

VARIABLES emitted,  \* events emitted by the gateway
          streamUp, \* whether the gateway's streams are open: "up", "over" or "failed"
          view,     \* the connection of each viewer
          ring,     \* the events in the ring
          fed,      \* all that were put into it
          session   \* an interactive session: a terminal or a forwarded port

ASSUME StreamsAssumption == TailLines \in Nat /\ RingSize \in Nat \ {0}

streamVars == <<emitted, streamUp, view, ring, fed, session>>

End == 0      \* the marker
Broken == -1  \* what a viewer is told when the stream failed
Unread(v) == view[v].read < emitted
NoView == [producer |-> "off", consumer |-> "off", queue |-> <<>>, read |-> 0, dropped |-> 0,
           inARow |-> 0, sent |-> <<>>, from |-> 0]

NoSession == [pump |-> "off", reader |-> "off", halfClosed |-> FALSE, call |-> "none"]

Put(queue, e) == IF Len(queue) < QueueSize THEN Append(queue, e) ELSE queue

StreamInit ==
    /\ emitted = 0 /\ streamUp = "up"
    /\ view = [v \in Viewers |-> NoView]
    /\ ring = <<>> /\ fed = <<>>
    /\ session = NoSession

Emits ==
    /\ streamUp = "up" /\ emitted < MaxEvents
    /\ emitted' = emitted + 1
    /\ UNCHANGED <<streamUp, view, ring, fed, session>>

StreamBreaks ==
    /\ streamUp = "up"
    /\ streamUp' \in {"over", "failed"}
    /\ UNCHANGED <<emitted, view, ring, fed, session>>

(* A viewer sees what is emitted after the watch has begun, and the last   *)
(* lines of the log before it.                                             *)
Opens(v) ==
    /\ view[v] = NoView /\ streamUp = "up"
    /\ LET n == Max({0, emitted - TailLines})
       IN  view' = [view EXCEPT ![v] = [NoView EXCEPT !.producer = "reading", !.consumer = "waiting",
                                                      !.read = n, !.from = n]]
    /\ UNCHANGED <<emitted, streamUp, ring, fed, session>>

-----------------------------------------------------------------------------
(* The producer: the ring first, then the queue, and it stops reading when *)
(* too many events in a row were dropped.                                  *)

RingedAtFront(e) == IF Len(ring) < RingSize THEN <<e>> \o ring ELSE <<e>> \o Tail(ring)
Ringed(e) == IF Len(ring) < RingSize THEN Append(ring, e) ELSE Append(Tail(ring), e)

Reads(v) ==
    /\ view[v].producer = "reading" /\ Unread(v)
    /\ LET e == view[v].read + 1
           fits == Len(view[v].queue) < QueueSize
           inARow == IF fits THEN 0 ELSE view[v].inARow + 1
       IN  /\ view' = [view EXCEPT ![v].read = e,
                                   ![v].queue = Put(@, e),
                                   ![v].dropped = IF fits THEN @ ELSE @ + 1,
                                   ![v].inARow = inARow,
                                   ![v].producer = IF inARow >= DropLimit THEN "ending" ELSE "reading"]
           /\ ring' = Ringed(e)
           /\ fed' = Append(fed, e)
    /\ UNCHANGED <<emitted, streamUp, session>>

StreamEnds(v) ==
    /\ view[v].producer = "reading" /\ streamUp # "up" /\ ~Unread(v)
    /\ view' = [view EXCEPT ![v].producer = "ending",
                            ![v].queue = IF streamUp = "failed" THEN Put(@, Broken) ELSE @]
    /\ UNCHANGED <<emitted, streamUp, ring, fed, session>>

(* The marker is lost when the queue is full. *)
Leaves(v) ==
    /\ view[v].producer = "ending"
    /\ view' = [view EXCEPT ![v].producer = "done", ![v].queue = Put(@, End)]
    /\ UNCHANGED <<emitted, streamUp, ring, fed, session>>

-----------------------------------------------------------------------------
(* The consumer.  Its wait for the queue ends after queue_get_timeout: it  *)
(* then leaves if the producer is done and nothing is queued.              *)

Closes(v) == view' = [view EXCEPT ![v].consumer = "closed", ![v].producer = "done", ![v].queue = <<>>]

Sends(v) ==
    /\ view[v].consumer = "waiting" /\ view[v].queue # <<>>
    /\ LET e == Head(view[v].queue)
       IN  IF e = End THEN Closes(v)
           ELSE view' = [view EXCEPT ![v].queue = Tail(@), ![v].sent = IF e = Broken THEN @ ELSE Append(@, e)]
    /\ UNCHANGED <<emitted, streamUp, ring, fed, session>>

OverWhenMarked(v) == FALSE
Over(v) == view[v].producer = "done"

TimesOut(v) ==
    /\ view[v].consumer = "waiting" /\ view[v].queue = <<>> /\ Over(v)
    /\ Closes(v)
    /\ UNCHANGED <<emitted, streamUp, ring, fed, session>>

(* The browser is gone: the producer is cancelled. *)
Disconnects(v) ==
    /\ view[v].consumer = "waiting"
    /\ Closes(v)
    /\ UNCHANGED <<emitted, streamUp, ring, fed, session>>

-----------------------------------------------------------------------------
(* An interactive session (_run_bidi_session): one task reads the socket   *)
(* into the call, the other sends what the call answers.  A reader that    *)
(* ends, in whatever way, closes its half of the call.                     *)

SessionStarts ==
    /\ session = NoSession
    /\ session' = [pump |-> "on", reader |-> "on", halfClosed |-> FALSE, call |-> "open"]
    /\ UNCHANGED <<emitted, streamUp, view, ring, fed>>

ReaderStopsOnly(s) == [s EXCEPT !.reader = "done"]
ReaderStops(s) == [s EXCEPT !.reader = "done", !.halfClosed = TRUE]

ClientGone ==
    /\ session.reader = "on"
    /\ session' = ReaderStops(session)
    /\ UNCHANGED <<emitted, streamUp, view, ring, fed>>

(* The command exits, the port is closed or the call fails; the gateway    *)
(* ends a call whose other half is closed.                                 *)
CallEnds ==
    /\ session.call = "open"
    /\ session' = [session EXCEPT !.call = "ended"]
    /\ UNCHANGED <<emitted, streamUp, view, ring, fed>>

PumpEnds ==
    /\ session.pump = "on" /\ session.call = "ended"
    /\ session' = [ReaderStops(session) EXCEPT !.pump = "over"]
    /\ UNCHANGED <<emitted, streamUp, view, ring, fed>>

ViewerNext ==
    \/ Emits \/ StreamBreaks
    \/ \E v \in Viewers : Opens(v) \/ Reads(v) \/ StreamEnds(v) \/ Leaves(v)
                          \/ Sends(v) \/ TimesOut(v) \/ Disconnects(v)
SessionNext == SessionStarts \/ ClientGone \/ CallEnds \/ PumpEnds
StreamNext == ViewerNext \/ SessionNext

(* The producer, the consumer and the pump are tasks of the event loop; a  *)
(* viewer need not come or go, and the gateway need not break, but it ends *)
(* a call whose other half is closed.                                      *)
ViewerFairness ==
    \A v \in Viewers : /\ WF_streamVars(Reads(v)) /\ WF_streamVars(StreamEnds(v)) /\ WF_streamVars(Leaves(v))
                       /\ WF_streamVars(Sends(v)) /\ WF_streamVars(TimesOut(v))
SessionFairness == WF_streamVars(PumpEnds) /\ WF_streamVars(CallEnds /\ session.halfClosed)

-----------------------------------------------------------------------------
(* What a viewer was sent is in the order of emission, and with what is    *)
(* queued and what was dropped it accounts for all that was read           *)
(* (sandbox_events).  The ring holds the newest of what it was fed, however *)
(* many viewers feed it (BypassService.ingest_log).                        *)
IsMarker(e) == e \in {End, Broken}
EventsIn(queue) == {e \in Range(queue) : ~IsMarker(e)}
Ascending(s) == \A i, j \in 1..Len(s) : i < j /\ ~IsMarker(s[i]) /\ ~IsMarker(s[j]) => s[i] < s[j]
Accounted ==
    /\ \A v \in Viewers :
        LET w == view[v]
        IN  /\ Ascending(w.sent \o w.queue)
            /\ w.consumer = "waiting" =>
                Len(w.sent) + Cardinality(EventsIn(w.queue)) + w.dropped = w.read - w.from
    /\ ring = SubSeq(fed, Len(fed) - Len(ring) + 1, Len(fed))
    /\ Len(ring) <= RingSize /\ (Len(fed) >= RingSize => Len(ring) = RingSize)

(* A stream that breaks, and a viewer that is too slow, end with the       *)
(* socket closed, even when the marker found the queue full.               *)
StreamsClose == \A v \in Viewers : view[v].producer \in {"ending", "done"} ~> view[v].consumer = "closed"

(* A session whose client is gone, or whose call has ended, ends, and no   *)
(* task of it is left.                                                     *)
SessionsClose == (session.reader = "done" \/ session.call = "ended") ~> (session.pump = "over" /\ session.reader = "done")

=============================================================================
