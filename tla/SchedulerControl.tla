-------------------------- MODULE SchedulerControl --------------------------
(***************************************************************************)
(* MessageScheduler.Start / Stop of the sender service, called from the    *)
(* POST /scheduler/start and /scheduler/stop handlers (gin runs each       *)
(* request on its own goroutine) and from main at shutdown.                *)
(*                                                                         *)
(* isRunning is a plain bool read and written without a lock, and done is  *)
(* an unbuffered channel received only by a running run() loop.  The read  *)
(* and the write of isRunning are separate steps; a racy read is taken to  *)
(* see the last write (the interleavings, not weaker memory outcomes).     *)
(***************************************************************************)
EXTENDS Naturals, FiniteSets

CONSTANTS
    Requests,     \* calls of Start or Stop (model values), each made once
    Concurrent    \* TRUE: calls may overlap; FALSE: one call at a time

VARIABLES
    isRunning,    \* MessageScheduler.isRunning
    loops,        \* run() goroutines that have not returned
    pc,           \* where each call is
    op            \* which method each call is

vars == <<isRunning, loops, pc, op>>

Pcs == {"idle", "startRead", "startSet", "startGo",
        "stopRead", "stopSet", "stopSend", "returned"}

InFlight(r) == pc[r] \notin {"idle", "returned"}

Init ==
    /\ isRunning = FALSE
    /\ loops = 0
    /\ pc = [r \in Requests |-> "idle"]
    /\ op = [r \in Requests |-> "none"]

-----------------------------------------------------------------------------
\* A handler calls StartScheduler or StopScheduler; without Concurrent it
\* waits until no other call is in flight.
Call(r, method) ==
    /\ pc[r] = "idle"
    /\ Concurrent \/ \A q \in Requests : ~InFlight(q)
    /\ pc' = [pc EXCEPT ![r] = IF method = "Start" THEN "startRead" ELSE "stopRead"]
    /\ op' = [op EXCEPT ![r] = method]
    /\ UNCHANGED <<isRunning, loops>>

\* Mutant: the early return of Start is missing.
StartReadNoGuard(r) ==
    /\ pc[r] = "startRead"
    /\ pc' = [pc EXCEPT ![r] = "startSet"]
    /\ UNCHANGED <<isRunning, loops, op>>

\* Start: if s.isRunning { return }
StartRead(r) ==
    /\ pc[r] = "startRead"
    /\ pc' = [pc EXCEPT ![r] = IF isRunning THEN "returned" ELSE "startSet"]
    /\ UNCHANGED <<isRunning, loops, op>>

\* Start: s.isRunning = true
StartSet(r) ==
    /\ pc[r] = "startSet"
    /\ isRunning' = TRUE
    /\ pc' = [pc EXCEPT ![r] = "startGo"]
    /\ UNCHANGED <<loops, op>>

\* Start: go s.run()
StartGo(r) ==
    /\ pc[r] = "startGo"
    /\ loops' = loops + 1
    /\ pc' = [pc EXCEPT ![r] = "returned"]
    /\ UNCHANGED <<isRunning, op>>

\* Mutant: the early return of Stop is missing.
StopReadNoGuard(r) ==
    /\ pc[r] = "stopRead"
    /\ pc' = [pc EXCEPT ![r] = "stopSet"]
    /\ UNCHANGED <<isRunning, loops, op>>

\* Stop: if !s.isRunning { return }
StopRead(r) ==
    /\ pc[r] = "stopRead"
    /\ pc' = [pc EXCEPT ![r] = IF isRunning THEN "stopSet" ELSE "returned"]
    /\ UNCHANGED <<isRunning, loops, op>>

\* Mutant: Stop does not reset the flag.
StopSetNoReset(r) ==
    /\ pc[r] = "stopSet"
    /\ pc' = [pc EXCEPT ![r] = "stopSend"]
    /\ UNCHANGED <<isRunning, loops, op>>

\* Stop: s.isRunning = false
StopSet(r) ==
    /\ pc[r] = "stopSet"
    /\ isRunning' = FALSE
    /\ pc' = [pc EXCEPT ![r] = "stopSend"]
    /\ UNCHANGED <<loops, op>>

\* Mutant: run() breaks out of the select on done but keeps looping.
RunReceiveDoneNoExit(r) ==
    /\ pc[r] = "stopSend"
    /\ loops > 0
    /\ pc' = [pc EXCEPT ![r] = "returned"]
    /\ UNCHANGED <<isRunning, loops, op>>

\* Stop: s.done <- true, which completes only when a run() loop takes the
\* value in its select and returns.
RunReceiveDone(r) ==
    /\ pc[r] = "stopSend"
    /\ loops > 0
    /\ loops' = loops - 1
    /\ pc' = [pc EXCEPT ![r] = "returned"]
    /\ UNCHANGED <<isRunning, op>>

Step(r) == \/ StartRead(r) \/ StartSet(r) \/ StartGo(r)
           \/ StopRead(r) \/ StopSet(r) \/ RunReceiveDone(r)

Next == \E r \in Requests :
            \/ \E method \in {"Start", "Stop"} : Call(r, method)
            \/ Step(r)

\* Started goroutines are scheduled, and a run() loop whose select has a
\* sender on done takes it (select picks among ready cases at random).
\* Callers need not call.
Spec == Init /\ [][Next]_vars /\ \A r \in Requests : WF_vars(Step(r))

-----------------------------------------------------------------------------
(* Properties *)

Quiescent == \A r \in Requests : ~InFlight(r)

\* Spec 4.1: start is idempotent, so at most one run() loop ever ticks
\* (two loops would both publish each unsent message).
SingleLoop == loops <= 1

\* Between calls, isRunning says whether a loop runs: after Stop returns
\* no loop is left that a later Stop could not reach.
RunningFlagMatchesLoop == Quiescent => (isRunning <=> loops > 0)

\* Every StopScheduler call returns (the HTTP request and the shutdown in
\* main do not hang on the done channel).
StopReturns == \A r \in Requests : (op[r] = "Stop" /\ InFlight(r)) ~> pc[r] = "returned"

\* Spec 4.1 as an abstract Scheduler: a loop ticks exactly when the last
\* call to take effect was a start, and every call returns.  A call takes
\* effect when it returns: Start at go s.run() or at its early return,
\* Stop when a loop takes done or at its early return.  Needs the flag and
\* the loops to agree across calls (idempotent Start, Stop ending the only
\* loop), which isRunning read and written in separate steps must keep.
Abstract == INSTANCE Scheduler
    WITH ticking <- loops > 0,
         calls   <- [r \in Requests |->
                        CASE pc[r] = "idle"     -> "idle"
                          [] pc[r] = "returned" -> "done"
                          [] OTHER              -> "pending"],
         method  <- op

SchedulerRefinement == Abstract!Spec

=============================================================================
