------------------------------ MODULE Heartbeat ------------------------------
(***************************************************************************)
(* The progress notifications of `compile` (tools/compile.rs): a task of   *)
(* its own that the handler spawns beside the build and aborts before it   *)
(* answers.  The runtime polls the two on different threads, and dropping  *)
(* a JoinHandle detaches its task: a handler that is dropped or panics     *)
(* stops nothing.                                                          *)
(*                                                                         *)
(* How the build itself goes is in Builds and ToolCall; here it is one     *)
(* step.  Calls share nothing but the peer, so one is enough.              *)
(***************************************************************************)
EXTENDS Naturals

CONSTANTS
  MaxDue,    \* bound: ticks of the interval that may be due at once
  MaxBeats   \* bound: notifications that are counted, per call

ASSUME HeartbeatAssumption == MaxDue \in Nat \ {0} /\ MaxBeats \in Nat \ {0}

VARIABLES
  handler,  \* idle, building, built, aborted, answered, refused, dropped, panicked
  beat,     \* the task: none, asleep, polled (awake on a thread), sending, ended
  due,      \* ticks that have come and were not taken: MissedTickBehavior::Burst
  doomed,   \* abort was called
  peer,     \* whether the transport is open
  sent,     \* notifications handed to the peer
  late,     \* history: those of them after the answer
  caught    \* history: the task was on a thread when it was aborted

beatVars == <<handler, beat, due, doomed, peer, sent, late, caught>>

Alive == beat \in {"asleep", "polled", "sending"}

BeatInit ==
  /\ handler = "idle" /\ beat = "none" /\ due = 0 /\ doomed = FALSE
  /\ peer = TRUE
  /\ sent = 0 /\ late = 0 /\ caught = FALSE

Task == <<beat, due, sent, late>>

-----------------------------------------------------------------------------
(* The handler *)

\* read_input may refuse before there is a heartbeat.
Refused ==
  /\ handler = "idle"
  /\ handler' = "refused"
  /\ UNCHANGED <<doomed, caught, peer>> /\ UNCHANGED Task

\* With a progress token the task is spawned; the first tick is due at once.
Begin(token) ==
  /\ handler = "idle"
  /\ handler' = "building"
  /\ beat' = IF token THEN "asleep" ELSE "none"
  /\ due' = IF token THEN 1 ELSE 0
  /\ UNCHANGED <<doomed, caught, peer, sent, late>>

Built ==
  /\ handler = "building"
  /\ handler' = "built"
  /\ UNCHANGED <<doomed, caught, peer>> /\ UNCHANGED Task

\* Seeded fault: the answer does not wait for the heartbeat's end.
StopBeat_Forgotten == handler' = "aborted" /\ UNCHANGED <<doomed, caught>>

\* abort: a task that no thread polls at this moment ends without another poll.
StopBeat ==
  /\ handler' = "aborted"
  /\ doomed' = Alive
  /\ caught' = (beat = "polled")

AbortBeat ==
  /\ handler = "built"
  /\ StopBeat
  /\ UNCHANGED peer /\ UNCHANGED Task

AnswerCall ==
  /\ handler = "aborted"
  /\ handler' = "answered"
  /\ UNCHANGED <<doomed, caught, peer>> /\ UNCHANGED Task

\* The request's future is dropped, or the build panics: both while it is awaited.
Lose(how) ==
  /\ handler = "building"
  /\ handler' = how
  /\ UNCHANGED <<doomed, caught, peer>> /\ UNCHANGED Task

-----------------------------------------------------------------------------
(* The heartbeat, and what it waits for *)

Handler == <<handler, doomed, caught>>

Tick ==
  /\ Alive /\ due < MaxDue
  /\ due' = due + 1
  /\ UNCHANGED <<beat, sent, late, peer>> /\ UNCHANGED Handler

\* A thread polls it: a tick is due, or its send has gone through.
Wake ==
  /\ ~doomed
  /\ \/ beat = "asleep" /\ due > 0
     \/ beat = "sending"
  /\ beat' = "polled"
  /\ UNCHANGED <<due, sent, late, peer>> /\ UNCHANGED Handler

\* notify_progress; it may be done at once, or wait for the transport.
Notify ==
  /\ beat = "polled" /\ due > 0 /\ peer /\ sent < MaxBeats
  /\ due' = due - 1
  /\ sent' = sent + 1
  /\ late' = IF handler = "answered" THEN late + 1 ELSE late
  /\ beat' \in {"polled", "sending"}
  /\ UNCHANGED peer /\ UNCHANGED Handler

\* The peer is gone: the loop breaks.
Break ==
  /\ beat = "polled" /\ due > 0 /\ ~peer
  /\ beat' = "ended"
  /\ UNCHANGED <<due, sent, late, peer>> /\ UNCHANGED Handler

\* Nothing is due any more, and the poll ends.
Sleep ==
  /\ beat = "polled" /\ due = 0
  /\ beat' = "asleep"
  /\ UNCHANGED <<due, sent, late, peer>> /\ UNCHANGED Handler

\* The runtime drops an aborted task that no thread polls.
ReapBeat ==
  /\ doomed /\ beat \in {"asleep", "sending"}
  /\ beat' = "ended"
  /\ UNCHANGED <<due, sent, late, peer>> /\ UNCHANGED Handler

Hangup ==
  /\ peer
  /\ peer' = FALSE
  /\ UNCHANGED Task /\ UNCHANGED Handler

\* The next call, over this connection or another.
NextCall ==
  /\ handler \in {"answered", "refused", "dropped", "panicked"} /\ ~Alive
  /\ handler' = "idle" /\ beat' = "none" /\ due' = 0 /\ doomed' = FALSE
  /\ peer' = TRUE
  /\ sent' = 0 /\ late' = 0 /\ caught' = FALSE

BeatNext ==
  \/ NextCall \/ Refused \/ Built \/ AbortBeat \/ AnswerCall
  \/ \E token \in BOOLEAN : Begin(token)
  \/ \E how \in {"dropped", "panicked"} : Lose(how)
  \/ Tick \/ Wake \/ Notify \/ Break \/ Sleep \/ ReapBeat \/ Hangup

BeatSpec == BeatInit /\ [][BeatNext]_beatVars

-----------------------------------------------------------------------------
(* Properties *)

\* tools/compile.rs:104, a caller that was answered hears no more of the call
\* than a poll that was under way when the heartbeat was aborted still sends;
\* and a heartbeat that nobody has aborted belongs to a call that still builds,
\* or to one that was dropped or panicked and so goes on until the peer is gone.
NoStrayBeat ==
  /\ late > 0 => caught
  /\ Alive /\ ~doomed => handler \in {"building", "built", "dropped", "panicked"}
=============================================================================
