------------------------------- MODULE Server -------------------------------
(***************************************************************************)
(* The life of an API process (cmd/api/main.go) around the calls it        *)
(* serves: start, the webhook processor's goroutine, the listener's        *)
(* goroutine, the orderly stop after a signal, the forced one after 30     *)
(* seconds, and the crash; and the next process after it.                  *)
(*                                                                         *)
(* What the processor does with an event is in Payouts; here it is in a    *)
(* batch or between two of them.                                           *)
(***************************************************************************)
EXTENDS AccountAPI

CONSTANT MaxStarts  \* bound on the number of processes, one after the other

ASSUME StartAssumption == MaxStarts \in Nat

VARIABLES
    main,       \* where main is
    processor,  \* where the goroutine of the webhook processor is
    starts      \* how many processes there have been

vars == <<apiVars, main, processor, starts>>

Ended == {"down", "stopped", "exited"}

ServerTypeOK ==
    /\ APITypeOK
    /\ main \in Ended \cup {"serving", "stopping", "draining"}
    /\ processor \in {"asleep", "polling", "returned"}
    /\ starts \in 0 .. MaxStarts

ServerInit ==
    /\ APIInit
    /\ main = "down"
    /\ processor = "returned"
    /\ starts = 0

-----------------------------------------------------------------------------
\* Configuration loaded, database reached, both goroutines started.
Start ==
    /\ main \in Ended /\ starts < MaxStarts
    /\ main' = "serving"
    /\ processor' = "asleep"
    /\ starts' = starts + 1
    /\ UNCHANGED apiVars

\* config.Load or NewPostgresDB fails.
StartFails ==
    /\ main \in Ended /\ starts < MaxStarts
    /\ main' = "exited"
    /\ starts' = starts + 1
    /\ UNCHANGED <<apiVars, processor>>

\* The process is gone, and with it whatever its goroutines were doing.
ProcessEnds(how) ==
    /\ main' = how
    /\ processor' = "returned"
    /\ calls' = [c \in DOMAIN calls |-> IF c \in InFlight
                                        THEN At(calls[c].ask, "cut") ELSE calls[c]]
    /\ UNCHANGED <<sessions, accounts, starts>>

\* SIGINT or SIGTERM: processorCancel.  The listener is still open.
Signal ==
    /\ main = "serving"
    /\ main' = "stopping"
    /\ UNCHANGED <<apiVars, processor, starts>>

\* Faulty variant: no processorWg.Wait.
DrainAtOnce ==
    /\ main = "stopping"
    /\ main' = "draining"
    /\ UNCHANGED <<apiVars, processor, starts>>

\* processorWg.Wait returns and srv.Shutdown closes the listener.
Drain ==
    /\ main = "stopping"
    /\ processor = "returned"
    /\ main' = "draining"
    /\ UNCHANGED <<apiVars, processor, starts>>

\* Shutdown has seen all calls end; main returns and db.Close runs.
StopCleanly ==
    /\ main = "draining"
    /\ InFlight = {}
    /\ ProcessEnds("stopped")

\* The 30 seconds are over first.
ForceStop ==
    /\ main = "draining"
    /\ ProcessEnds("exited")

\* ListenAndServe fails while the listener should be open, or the process is
\* killed.
Die ==
    /\ main \notin Ended
    /\ ProcessEnds("exited")

-----------------------------------------------------------------------------
(***************************************************************************)
(* The goroutine of the processor: WebhookProcessor.Start.                 *)
(***************************************************************************)
\* A tick.  After the cancellation select may still choose it.
Tick ==
    /\ main \notin Ended /\ processor = "asleep"
    /\ processor' = "polling"
    /\ UNCHANGED <<apiVars, main, starts>>

BatchDone ==
    /\ processor = "polling"
    /\ processor' = "asleep"
    /\ UNCHANGED <<apiVars, main, starts>>

\* Faulty variant: cancelled only after it has been waited for.
ReturnWhenDraining ==
    /\ main = "draining" /\ processor = "asleep"
    /\ processor' = "returned"
    /\ UNCHANGED <<apiVars, main, starts>>

\* select sees ctx.Done.
ProcessorReturns ==
    /\ main \in {"stopping", "draining"} /\ processor = "asleep"
    /\ processor' = "returned"
    /\ UNCHANGED <<apiVars, main, starts>>

-----------------------------------------------------------------------------
\* The listener is open until Shutdown is called.
Listening == main \in {"serving", "stopping"}

Serve ==
    \/ /\ Listening
       /\ \/ \E u \in Users : Login(u)
          \/ \E c \in Calls, k \in Asks, signed \in BOOLEAN : Arrive(c, k, signed)
       /\ UNCHANGED <<main, processor, starts>>
    \/ \E c \in Calls : CallStep(c) /\ UNCHANGED <<main, processor, starts>>
    \/ \E u \in Users : TokenExpires(u) /\ UNCHANGED <<main, processor, starts>>

ServerNext ==
    \/ Start \/ StartFails \/ Signal \/ Drain \/ StopCleanly \/ ForceStop \/ Die
    \/ Tick \/ BatchDone \/ ProcessorReturns
    \/ Serve

ServerSpec == ServerInit /\ [][ServerNext]_vars

(***************************************************************************)
(* Fairness: main goes on, the timer of Shutdown fires, a batch with a     *)
(* cancelled context ends, and select does not overlook ctx.Done for ever. *)
(* That the batch ends is an assumption on the driver, lib/pq: it must     *)
(* give up a statement whose context is cancelled, for processorWg.Wait    *)
(* has no timeout and a read that blocked in the driver would hold up the  *)
(* stop.  Nothing is assumed of the calls: one may hang in the database.   *)
(***************************************************************************)
ServerFairness ==
    /\ WF_vars(Drain)
    /\ WF_vars(StopCleanly \/ ForceStop)
    /\ WF_vars(BatchDone)
    /\ SF_vars(ProcessorReturns)

FairServerSpec == ServerSpec /\ ServerFairness

-----------------------------------------------------------------------------
(***************************************************************************)
(* Properties                                                              *)
(***************************************************************************)
\* When main returns of itself, the processor is not in the middle of a batch
\* and no call is cut off: README.md says the processor stops first, then the
\* calls in flight are drained.
CleanStopCutsNothing ==
    [][main # "stopped" /\ main' = "stopped" =>
          /\ processor = "returned"
          /\ \A c \in DOMAIN calls : calls'[c].pc = "cut" => calls[c].pc = "cut"]_vars

\* A process that was told to stop ends, even when a call hangs and whatever
\* the processor is doing at that moment.
SignalEndsProcess == main = "stopping" ~> main \in Ended
=============================================================================
