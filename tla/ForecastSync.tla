---------------------------- MODULE ForecastSync ----------------------------
(* The forecast timeline (time/state.ts, ForecastTimeProvider.tsx) and the     *)
(* requests that follow it (sync/request, sync/load/session.ts).  Dispatches   *)
(* change the state at once; the effects of React run later, with what the     *)
(* state is then, and a load may end at any time.  The state belongs to one    *)
(* run: another timeline mounts everything again.  queueTime is dispatched by  *)
(* nothing, so there is never a pending time.                                  *)
EXTENDS Naturals

CONSTANTS
    LastTime,       \* times are 0..LastTime, in steps of playback
    Views,          \* layers and options that make a plan
    MaxHost,        \* bound: renderer hosts
    MaxLoads,       \* bound: loads at a time
    MaxEvents,      \* bound: user events and failed loads
    Torn, None

VARIABLES
    timeline,       \* applied, target, inFlight, playing
    timer,          \* scheduled tick: from, to, and whether the version is still that one
    view,           \* selected view, None when the run does not have it
    host,           \* version of the renderer host, 0 before the first
    initial,        \* error, retryToken and whether a request was ever applied
    seen,           \* what the request effect ran with last
    tracker,        \* active request, lastAppliedKey and, for the properties, what failed last and whether
                    \* another view was asked for since one was applied
    loads,          \* requests whose load has not ended, aborted ones too
    committed,      \* view of the windows the session keeps
    shown,          \* key of the windows the host was given last, Torn when that threw
    probe,          \* view of the probe frame
    events

vars == <<timeline, timer, view, host, initial, seen, tracker, loads, committed, shown, probe, events>>

Times == 0..LastTime

\* createSyncRequestKey, with the version of the host before it.
Key == [host |-> host, view |-> view, time |-> timeline.target, token |-> initial.token]
Inputs == [key |-> Key, blocked |-> initial.error]
Request(id) == [id |-> id, key |-> Key]

\* isCurrent: the active request, which is no longer active once it is aborted.
IsCurrentAlways(request) == request \in loads
IsCurrent(request) == tracker.active = request

Event ==
    /\ events < MaxEvents
    /\ events' = events + 1

-----------------------------------------------------------------------------
\* The timeline.  Every change is a new version, which the scheduled tick does not have.

Change(state) ==
    /\ timeline' = state
    /\ timer' = IF timer = None THEN None ELSE [timer EXCEPT !.fresh = FALSE]

\* reduceRequestTime: back to the applied time ends the flight, since the request that
\* follows is one that was applied already.
ReturnsKeeps(state, time) == FALSE
Returns(state, time) == time = state.applied

RequestTime(time) ==
    /\ time # timeline.target
    /\ Event
    /\ Change([timeline EXCEPT !.target = time, !.inFlight = ~Returns(timeline, time)])
    /\ UNCHANGED <<view, host, initial, seen, tracker, loads, committed, shown, probe>>

\* reset, to the time the clock says.
ResetToNow(time) ==
    /\ Event
    /\ Change([applied |-> time, target |-> time, inFlight |-> FALSE, playing |-> FALSE])
    /\ UNCHANGED <<view, host, initial, seen, tracker, loads, committed, shown, probe>>

TogglePlay ==
    /\ Event
    /\ Change([timeline EXCEPT !.playing = ~@])
    /\ UNCHANGED <<view, host, initial, seen, tracker, loads, committed, shown, probe>>

\* stepForecastPlaybackTimeMs
NextTime(time) == IF time = LastTime THEN 0 ELSE time + 1

\* The playback effect, after a change: the former timer is cleared.
SchedulePlayback ==
    /\ IF timer = None THEN timeline.playing /\ ~timeline.inFlight ELSE ~timer.fresh
    /\ timer' = IF timeline.playing /\ ~timeline.inFlight
                THEN [from |-> timeline.applied, to |-> NextTime(timeline.applied), fresh |-> TRUE]
                ELSE None
    /\ UNCHANGED <<timeline, view, host, initial, seen, tracker, loads, committed, shown, probe, events>>

\* reducePlaybackTick
Ticks ==
    /\ timer.fresh
    /\ timeline.playing /\ ~timeline.inFlight
    /\ timeline.applied = timer.from /\ timeline.target = timer.from

\* A tick the reducer refuses changes nothing, so that no other is scheduled: the timer is
\* spent, not cleared.
PlaybackTick ==
    /\ timer # None /\ timer.to # timer.from
    /\ IF Ticks
       THEN /\ timeline' = [timeline EXCEPT !.target = timer.to, !.inFlight = TRUE]
            /\ timer' = [timer EXCEPT !.fresh = FALSE]
       ELSE /\ timer' = [timer EXCEPT !.to = timer.from]
            /\ UNCHANGED timeline
    /\ UNCHANGED <<view, host, initial, seen, tracker, loads, committed, shown, probe, events>>

-----------------------------------------------------------------------------
\* What else the effect depends on.

SelectView(v) ==
    /\ v # view /\ Event
    /\ view' = v
    /\ UNCHANGED <<timeline, timer, host, initial, seen, tracker, loads, committed, shown, probe>>

\* A map, or another renderer profile.  A map that is taken away (map == null: no host, and
\* versions begin again) is left out: useMapLibre takes it away when it fails before its style has
\* loaded, which is before there is anything to show, and when it is unmounted.
PublishHost ==
    /\ host < MaxHost
    /\ host' = host + 1
    /\ UNCHANGED <<timeline, timer, view, initial, seen, tracker, loads, committed, shown, probe, events>>

Retry ==
    /\ initial.error /\ Event
    /\ initial' = [initial EXCEPT !.error = FALSE, !.token = @ + 1]
    /\ UNCHANGED <<timeline, timer, view, host, seen, tracker, loads, committed, shown, probe>>

-----------------------------------------------------------------------------
\* The request effect of useRequestRunner.  The cleanup of its last run aborts the request
\* that run began, so that none is active when it begins.

Rerun ==
    /\ seen # Inputs
    /\ seen' = Inputs
    /\ UNCHANGED <<view, host, events>>

\* No plan: all is forgotten, the retries too.
Disable ==
    /\ Rerun /\ view = None
    /\ tracker' = [tracker EXCEPT !.active = None, !.applied = None, !.other = FALSE]
    /\ initial' = [error |-> FALSE, token |-> 0, applied |-> FALSE]
    /\ committed' = None /\ probe' = None
    /\ UNCHANGED <<timeline, timer, loads, shown>>

\* Blocked by the error of the first request, no host, or the windows applied last again.
Nothing ==
    /\ Rerun /\ view # None
    /\ initial.error \/ host = 0 \/ tracker.applied = Key
    /\ tracker' = [tracker EXCEPT !.active = None]
    /\ UNCHANGED <<timeline, timer, initial, loads, committed, shown, probe>>

Begin(id) ==
    /\ Rerun /\ view # None
    /\ ~initial.error /\ host # 0 /\ tracker.applied # Key
    /\ \A load \in loads : load.id # id
    /\ tracker' = [tracker EXCEPT !.active = Request(id), !.failed = None,
                               !.other = @ \/ view # committed]
    /\ loads' = loads \cup {Request(id)}
    /\ probe' = IF committed \notin {None, view} THEN None ELSE probe
    /\ Change([timeline EXCEPT !.inFlight = TRUE])
    /\ UNCHANGED <<initial, committed, shown>>

\* Nobody waits for an aborted load.
DropLoad(request) ==
    /\ request \in loads /\ ~IsCurrent(request)
    /\ loads' = loads \ {request}
    /\ UNCHANGED <<timeline, timer, view, host, initial, seen, tracker, committed, shown, probe, events>>

ApplyWindows(request) ==
    /\ request \in loads /\ IsCurrent(request)
    /\ loads' = loads \ {request}
    /\ shown' = request.key
    /\ probe' = request.key.view /\ committed' = request.key.view
    /\ tracker' = [tracker EXCEPT !.active = None, !.applied = request.key, !.other = FALSE]
    /\ Change([timeline EXCEPT !.applied = request.key.time, !.target = request.key.time,
                               !.inFlight = FALSE])
    /\ initial' = [initial EXCEPT !.error = FALSE, !.applied = TRUE]
    /\ UNCHANGED <<view, host, seen, events>>

\* The load fails, or the host throws with some of its layers changed.
FailRequest(request) ==
    /\ request \in loads /\ IsCurrent(request)
    /\ Event
    /\ loads' = loads \ {request}
    /\ shown' \in {shown, Torn}
    /\ tracker' = [tracker EXCEPT !.active = None, !.failed = request.key]
    /\ Change([timeline EXCEPT !.inFlight = FALSE, !.playing = FALSE])
    /\ initial' = [initial EXCEPT !.error = @ \/ ~initial.applied]
    /\ UNCHANGED <<view, host, seen, committed, probe>>

Init ==
    /\ \E time \in Times :
          timeline = [applied |-> time, target |-> time, inFlight |-> FALSE, playing |-> FALSE]
    /\ view \in Views \cup {None}
    /\ timer = None /\ host = 0 /\ seen = None
    /\ initial = [error |-> FALSE, token |-> 0, applied |-> FALSE]
    /\ tracker = [active |-> None, applied |-> None, failed |-> None, other |-> FALSE]
    /\ loads = {} /\ committed = None /\ shown = None /\ probe = None /\ events = 0

Next ==
    \/ \E time \in Times : RequestTime(time) \/ ResetToNow(time)
    \/ TogglePlay \/ SchedulePlayback \/ PlaybackTick
    \/ \E v \in Views \cup {None} : SelectView(v)
    \/ PublishHost \/ Retry
    \/ Disable \/ Nothing
    \/ \E id \in 1..MaxLoads : Begin(id)
    \/ \E load \in loads : DropLoad(load) \/ ApplyWindows(load) \/ FailRequest(load)

Spec == Init /\ [][Next]_vars
-----------------------------------------------------------------------------
\* The effect has run with what there is, nothing is being loaded, and what is asked for is
\* not what failed last: that is not tried again until something else was asked for.
AtRest ==
    /\ seen = Inputs
    /\ view # None /\ host # 0 /\ ~initial.error
    /\ tracker.active = None /\ tracker.failed # Key

\* What is asked for was applied last, but another view has been asked for since.
Withdrawn == tracker.applied = Key /\ tracker.other

\* A reset claimed that the time of the clock was applied, and it was not.
Misclaimed == timeline.applied # tracker.applied.time

\* However seeks, ticks, views, hosts and loads fall (useRequestRunner.ts:45-144,
\* requestTracker.ts:17-63, state.ts:85-215): at rest the host shows what the timeline and
\* the selection ask for, unless an apply threw half way, the
\* timeline says so unless a reset misled it, and the probes have the frame of the view,
\* unless a view was withdrawn.
ShownIsAsked ==
    AtRest =>
        /\ shown \in {Key, Torn}
        /\ timeline.applied = timeline.target \/ Misclaimed
        /\ probe = view \/ Withdrawn

\* The timeline waits for a request only while there is one (state.ts:88-156,
\* useRequestRunner.ts:84-126): playback, which waits for it, does not stop for good.  The
\* exceptions are a view that was withdrawn and a seek back after a reset.
InFlightIsBacked ==
    AtRest /\ timeline.inFlight => Withdrawn \/ Misclaimed

\* frontend/src/README.md:12-13: the sync turns the current state of the app into render
\* updates and probe frames.
ProbeFollowsSelection ==
    AtRest /\ shown = Key => probe = view
=============================================================================
