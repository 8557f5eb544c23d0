------------------------------- MODULE Worker -------------------------------
(***************************************************************************)
(* NetlinkBackend (worker.rs): a thread that lives in one network namespace *)
(* and serves the calls of every clone of the handle, one at a time, from a *)
(* bounded channel.  A caller may drop its future at any moment; the thread *)
(* may stop at any moment, and then answers nobody; opening may time out    *)
(* while the thread is still starting.                                      *)
(*                                                                          *)
(* A plan is known by what its operations depend on; module Executor says   *)
(* what happens inside one of them.                                         *)
(***************************************************************************)
EXTENDS Integers, Sequences, FiniteSets, SequencesExt

CONSTANTS
  Handle,           \* handles: First and its clones
  First,
  Call,             \* calls ever made
  Owner,            \* call -> the handle it is made with
  Kind,             \* call -> "query", "apply" or "preview"
  Plan,             \* call -> its operations' dependencies (a query has none)
  Capacity,         \* of the channel (16 in the code)
  NoCall,
  MayStop,          \* whether the thread may stop unexpectedly
  MaxNotifications, \* bound: notifications waiting
  MaxTimeouts       \* bound: writes that are not confirmed in time

ASSUME WorkerAssumption ==
  /\ First \in Handle /\ Owner \in [Call -> Handle]
  /\ Kind \in [Call -> {"query", "apply", "preview"}]
  /\ Plan \in [Call -> Seq(SUBSET Nat)]
  /\ \A c \in Call : Kind[c] = "query" <=> Plan[c] = <<>>
  /\ Capacity \in Nat \ {0} /\ NoCall \notin Call /\ MayStop \in BOOLEAN
  /\ MaxNotifications \in Nat /\ MaxTimeouts \in Nat

VARIABLES
  opener,  \* the thread in NetlinkBackend::open
  ready,   \* what the worker sent it
  handles, \* live handles: each holds a sender of the channel
  caller,  \* call -> how far it is
  waiting, \* calls waiting for room in the channel, first come first served
  queue,   \* the channel
  worker,  \* the worker thread
  serving, \* the call it serves
  outcome, \* the outcomes of that call's operations so far
  submitting, \* the write of the operation in turn is with the transport
  backlog, \* notifications waiting
  answer,  \* call -> what the worker sent to its oneshot channel
  report,  \* call -> what the caller got
  \* history
  late,    \* unconfirmed writes that may still reach the kernel
  written, \* call -> operations whose write reached the kernel
  dropped, \* call -> its writes when its future was dropped
  timeouts

opening == <<opener, ready>>
channel == <<waiting, queue>>
thread == <<worker, serving, outcome, submitting>>
history == <<late, written, timeouts>>
vars == <<opening, handles, caller, channel, thread, backlog, answer, report,
          history, dropped>>

Outcome == {"observed", "done", "satisfied", "failed", "cancelled", "unknown",
            "blocked", "disconnected"}
Nothing == <<>>

Calling(c) == caller[c] = "calling"

-----------------------------------------------------------------------------
(* Opening. *)

\* The thread could not enter the namespace or open its sockets.
SetupFails ==
  /\ worker = "setup"
  /\ ready' = "error"
  /\ worker' = "stopped"
  /\ UNCHANGED <<opener, handles, caller, channel, serving, outcome, submitting,
                 backlog, answer, report, history, dropped>>

\* It starts to serve, unless nobody waits for it any more.
SetupReady ==
  /\ worker = "setup"
  /\ IF opener \in {"waiting", "timed out"}
     THEN ready' = "ok" /\ worker' = "idle"
     ELSE worker' = "stopped" /\ UNCHANGED ready
  /\ UNCHANGED <<opener, handles, caller, channel, serving, outcome, submitting,
                 backlog, answer, report, history, dropped>>

OpenReturns ==
  /\ opener = "waiting"
  /\ \/ ready = "ok" /\ opener' = "opened" /\ handles' = {First}
     \/ \/ ready = "error"
        \/ ready = "none" /\ worker = "stopped"
        /\ opener' = "failed" /\ UNCHANGED handles
  /\ UNCHANGED <<ready, caller, channel, thread, backlog, answer, report, history,
                 dropped>>

\* After 30 seconds; the ends of both channels are dropped a moment later.
OpenTimesOut ==
  /\ \/ opener = "waiting" /\ ready = "none" /\ opener' = "timed out"
     \/ opener = "timed out" /\ opener' = "failed"
  /\ UNCHANGED <<ready, handles, caller, channel, thread, backlog, answer, report,
                 history, dropped>>

CloneHandle(h) ==
  /\ handles # {} /\ h \notin handles
  /\ \A c \in Call : Owner[c] = h => caller[c] = "new"
  /\ handles' = handles \cup {h}
  /\ UNCHANGED <<opening, caller, channel, thread, backlog, answer, report, history,
                 dropped>>

\* A handle outlives the calls that borrow it.
DropHandle(h) ==
  /\ h \in handles
  /\ \A c \in Call : Owner[c] = h => ~Calling(c)
  /\ handles' = handles \ {h}
  /\ UNCHANGED <<opening, caller, channel, thread, backlog, answer, report, history,
                 dropped>>

-----------------------------------------------------------------------------
(* The callers: query, apply, dry_run. *)

\* The calls that wait, without c, which does so at most once.
Without(c) ==
  IF c \in ToSet(waiting)
  THEN RemoveAt(waiting, CHOOSE k \in DOMAIN waiting : waiting[k] = c)
  ELSE waiting

\* What the caller is told of every operation (failed_report).
FailedReport(c, failure) ==
  IF Kind[c] = "query" THEN <<failure>>
  ELSE [k \in DOMAIN Plan[c] |-> IF Plan[c][k] = {} THEN failure ELSE "blocked"]

Start(c) ==
  /\ caller[c] = "new" /\ Owner[c] \in handles
  /\ caller' = [caller EXCEPT ![c] = "calling"]
  /\ waiting' = Append(waiting, c)
  /\ UNCHANGED <<opening, handles, queue, thread, backlog, answer, report, history,
                 dropped>>

\* Mutant: the channel has no bound.
HasRoomAlways == TRUE

HasRoom == Len(queue) < Capacity

Accept ==
  /\ waiting # <<>> /\ worker # "stopped" /\ HasRoom
  /\ queue' = Append(queue, Head(waiting))
  /\ waiting' = Tail(waiting)
  /\ UNCHANGED <<opening, handles, caller, thread, backlog, answer, report, history,
                 dropped>>

Returns(c, r) ==
  /\ caller' = [caller EXCEPT ![c] = "returned"]
  /\ report' = [report EXCEPT ![c] = r]

\* send fails: the worker's end of the channel is gone.
Refused(c) ==
  /\ c \in ToSet(waiting) /\ worker = "stopped"
  /\ Returns(c, FailedReport(c, "disconnected"))
  /\ waiting' = Without(c)
  /\ UNCHANGED <<opening, handles, queue, thread, backlog, answer, history, dropped>>

Answered(c) ==
  /\ Calling(c) /\ answer[c] # Nothing
  /\ Returns(c, answer[c])
  /\ UNCHANGED <<opening, handles, channel, thread, backlog, answer, history, dropped>>

\* Mutant: an accepted plan is reported like one that was not.
LossOfNothing(c) == "disconnected"

Loss(c) == IF Kind[c] = "apply" THEN "unknown" ELSE "disconnected"

\* The oneshot channel is closed without an answer.
Lost(c) ==
  /\ Calling(c) /\ c \notin ToSet(waiting)
  /\ worker = "stopped" /\ answer[c] = Nothing
  /\ Returns(c, FailedReport(c, Loss(c)))
  /\ UNCHANGED <<opening, handles, channel, thread, backlog, answer, history, dropped>>

\* The future is dropped: a request in the channel stays there.
Drop(c) ==
  /\ Calling(c)
  /\ caller' = [caller EXCEPT ![c] = "dropped"]
  /\ waiting' = Without(c)
  /\ dropped' = [dropped EXCEPT ![c] = written[c]]
  /\ UNCHANGED <<opening, handles, queue, thread, backlog, answer, report, history>>

-----------------------------------------------------------------------------
(* The worker. *)

\* Mutant: the thread itself keeps a sender.
SendersGoneNever == FALSE

SendersGone == handles = {} /\ opener \in {"opened", "failed"}

\* The thread ends: the requests it has are dropped, and so is its socket.
Stops ==
  /\ worker' = "stopped" /\ serving' = NoCall
  /\ outcome' = <<>> /\ submitting' = FALSE
  /\ queue' = <<>> /\ late' = {}

\* Nobody can send another request.
LoopEnds ==
  /\ worker = "idle" /\ queue = <<>> /\ SendersGone
  /\ Stops
  /\ UNCHANGED <<opening, handles, caller, waiting, backlog, answer, report, written,
                 timeouts, dropped>>

\* A panic.
StopsUnexpectedly ==
  /\ MayStop /\ worker # "stopped"
  /\ Stops
  /\ UNCHANGED <<opening, handles, caller, waiting, backlog, answer, report, written,
                 timeouts, dropped>>

\* Mutant: the notifications have precedence.
MayTakeWhenQuiet == worker = "idle" /\ queue # <<>> /\ backlog = 0

MayTake == worker = "idle" /\ queue # <<>>

Take ==
  /\ MayTake
  /\ worker' = "busy" /\ serving' = Head(queue)
  /\ queue' = Tail(queue)
  /\ UNCHANGED <<opening, handles, caller, waiting, outcome, submitting, backlog,
                 answer, report, history, dropped>>

NextNotification ==
  /\ worker = "idle" /\ backlog > 0
  /\ backlog' = backlog - 1
  /\ UNCHANGED <<opening, handles, caller, channel, thread, answer, report, history,
                 dropped>>

\* The answer goes to the oneshot channel, if its other end is still there.
Respond(r) ==
  /\ answer' = IF Calling(serving) THEN [answer EXCEPT ![serving] = r] ELSE answer
  /\ worker' = "idle" /\ serving' = NoCall /\ outcome' = <<>>
  /\ UNCHANGED <<opening, handles, caller, channel, submitting, report, history, dropped>>

\* A request to the kernel drains the notifications.
ServeQuery ==
  /\ worker = "busy" /\ Kind[serving] = "query"
  /\ \E r \in {"observed", "failed"} : Respond(<<r>>)
  /\ backlog' = 0

Executing == worker = "busy" /\ Kind[serving] # "query"
Turn == Len(outcome) + 1
Ready ==
  \A d \in Plan[serving][Turn] :
    d \in DOMAIN outcome /\ outcome[d] \in {"done", "satisfied"}

\* Mutant: the caller is not asked.
CancelledNever == FALSE

Cancelled == Kind[serving] = "apply" /\ caller[serving] = "dropped"

Reports(o) ==
  /\ outcome' = Append(outcome, o)
  /\ submitting' = FALSE

\* The executor takes the operation in turn.
Decide ==
  /\ Executing /\ Turn \in DOMAIN Plan[serving] /\ ~submitting
  /\ \/ ~Ready /\ Reports("blocked")
     \/ Ready /\ Cancelled /\ Reports("cancelled")
     \/ /\ Ready /\ ~Cancelled
        /\ \/ \E o \in {"satisfied", "failed"} : Reports(o)
           \/ Kind[serving] = "preview" /\ Reports("done")
           \/ Kind[serving] = "apply" /\ submitting' = TRUE /\ UNCHANGED outcome
  /\ backlog' = 0
  /\ UNCHANGED <<opening, handles, caller, channel, worker, serving, answer,
                 report, history, dropped>>

\* The write reaches the kernel.  It is reported as done, or the comparison
\* afterwards fails: any error of module Executor that leaves it open.
Write ==
  /\ Executing /\ submitting
  /\ written' = [written EXCEPT ![serving] = @ \cup {Turn}]
  /\ \E o \in {"done", "unknown"} : Reports(o)
  /\ UNCHANGED <<opening, handles, caller, channel, worker, serving, backlog,
                 answer, report, late, timeouts, dropped>>

\* Mutant: a write that timed out is reported as failed.
UnconfirmedAsFailed == "failed"

Unconfirmed == "unknown"

\* It does not: it was refused, or timed out on its way, in the connection.
WriteFails ==
  /\ Executing /\ submitting
  /\ \/ Reports("failed") /\ UNCHANGED <<late, timeouts>>
     \/ /\ timeouts < MaxTimeouts
        /\ timeouts' = timeouts + 1
        /\ late' = late \cup {<<serving, Turn>>}
        /\ Reports(Unconfirmed)
  /\ UNCHANGED <<opening, handles, caller, channel, worker, serving, backlog,
                 answer, report, written, dropped>>

\* A write that timed out reaches the kernel after all.
LateWrite(w) ==
  /\ late' = late \ {w}
  /\ written' = [written EXCEPT ![w[1]] = @ \cup {w[2]}]
  /\ UNCHANGED <<opening, handles, caller, channel, thread, backlog, answer, report,
                 timeouts, dropped>>

FinishPlan ==
  /\ Executing /\ Turn \notin DOMAIN Plan[serving]
  /\ Respond(outcome)
  /\ UNCHANGED backlog

\* The kernel notifies of links that come and go.
Notify ==
  /\ worker # "stopped" /\ backlog < MaxNotifications
  /\ backlog' = backlog + 1
  /\ UNCHANGED <<opening, handles, caller, channel, thread, answer, report, history,
                 dropped>>

-----------------------------------------------------------------------------

Init ==
  /\ opener = "waiting" /\ ready = "none" /\ handles = {}
  /\ caller = [c \in Call |-> "new"]
  /\ waiting = <<>> /\ queue = <<>>
  /\ worker = "setup" /\ serving = NoCall /\ outcome = <<>> /\ submitting = FALSE
  /\ backlog = 0
  /\ answer = [c \in Call |-> Nothing] /\ report = [c \in Call |-> Nothing]
  /\ late = {} /\ timeouts = 0
  /\ written = [c \in Call |-> {}] /\ dropped = [c \in Call |-> {}]

Setup == SetupFails \/ SetupReady
Serve == ServeQuery \/ Decide \/ Write \/ WriteFails \/ FinishPlan
Wake(c) == Refused(c) \/ Answered(c) \/ Lost(c)

Next ==
  \/ Setup \/ OpenReturns \/ OpenTimesOut
  \/ \E h \in Handle : CloneHandle(h) \/ DropHandle(h)
  \/ \E c \in Call : Start(c) \/ Wake(c) \/ Drop(c)
  \/ Accept \/ Take \/ Serve \/ LoopEnds \/ StopsUnexpectedly
  \/ NextNotification \/ Notify
  \/ \E w \in late : LateWrite(w)

Spec == Init /\ [][Next]_vars

\* Threads and tasks are scheduled; select! chooses at random between a
\* request and a notification, so neither can be passed over for ever; every
\* round trip of the transport has a timeout.
Fairness ==
  /\ WF_vars(Setup) /\ WF_vars(OpenReturns) /\ WF_vars(OpenTimesOut)
  /\ WF_vars(Accept) /\ WF_vars(Take) /\ WF_vars(Serve) /\ WF_vars(LoopEnds)
  /\ WF_vars(NextNotification)
  /\ \A c \in Call : WF_vars(Wake(c))

FairSpec == Spec /\ Fairness

-----------------------------------------------------------------------------
(* Properties. *)

\* The values every variable takes.
TypeOK ==
  /\ opener \in {"waiting", "timed out", "opened", "failed"}
  /\ ready \in {"none", "ok", "error"}
  /\ handles \subseteq Handle
  /\ caller \in [Call -> {"new", "calling", "returned", "dropped"}]
  /\ waiting \in Seq(Call)
  /\ queue \in Seq(Call) /\ Len(queue) <= Capacity
  /\ worker \in {"setup", "idle", "busy", "stopped"}
  /\ serving \in Call \cup {NoCall} /\ (serving # NoCall <=> worker = "busy")
  /\ outcome \in Seq(Outcome) /\ submitting \in BOOLEAN
  /\ submitting => Executing /\ Turn \in DOMAIN Plan[serving]
  /\ backlog \in 0..MaxNotifications
  /\ answer \in [Call -> Seq(Outcome)] /\ report \in [Call -> Seq(Outcome)]
  /\ late \subseteq Call \X Nat /\ timeouts \in 0..MaxTimeouts
  /\ written \in [Call -> SUBSET Nat] /\ dropped \in [Call -> SUBSET Nat]

\* A caller that is told the worker stopped before accepting its plan may try
\* again elsewhere: nothing of it was written, nor will be.
DisconnectedMeansUnwritten ==
  \A c \in Call :
    "disconnected" \in ToSet(report[c]) =>
      written[c] = {} /\ \A w \in late : w[1] # c

\* An operation reported as failed or cancelled was not written and will not
\* be, although a write may outlive the request that gave up on it.
FailedIsNeverWritten ==
  \A c \in Call : \A k \in DOMAIN report[c] :
    report[c][k] \in {"failed", "cancelled", "satisfied"} =>
      k \notin written[c] /\ <<c, k>> \notin late

\* A future that is dropped, wherever its request is, lets at most one more
\* operation be written, besides those that had timed out.
AtMostOneWriteAfterDrop ==
  \A c \in Call :
    caller[c] = "dropped" =>
      Cardinality(written[c] \ dropped[c]) <= 1 + timeouts

\* report.rs says of a blocked operation that its dependencies failed or were
\* blocked: it cannot have been written.
BlockedIsNeverWritten ==
  \A c \in Call : \A k \in DOMAIN report[c] :
    report[c][k] = "blocked" => k \notin written[c]

\* Every call returns, unless it is dropped: whatever is in the channel
\* before it, however many notifications arrive, and if the worker stops.
EveryCallReturns ==
  \A c \in Call : Calling(c) ~> ~Calling(c)

\* When opening gave up, or the last handle is gone, the thread ends and
\* gives its namespace back.
NamespaceIsReleased ==
  handles = {} /\ opener \in {"opened", "failed"} ~> worker = "stopped"
=============================================================================
