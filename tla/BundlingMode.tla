---------------------------- MODULE BundlingMode ----------------------------
(***************************************************************************)
(* The lifecycle of the bundler's ticker and the debug RPC that drives it: *)
(*  - Bundler.Run and Bundler.Stop (src/.gitlab-ci.yml, which holds the    *)
(*    bundler package) and the goroutine Run starts, which selects between *)
(*    the done channel and the ticker and runs Process on each tick;       *)
(*  - Debug.SetBundlingMode and Debug.SendBundleNow (pkg/client/debug.go), *)
(*    each run on the goroutine of its HTTP request.                       *)
(* SearcherMode calls Run at startup (part_004:173), so the bundler starts *)
(* in auto mode.  Process itself is the tick modelled in Bundler; here it  *)
(* is a step that starts and a step that ends.  isRunning is read and      *)
(* written by the handlers without a lock: the check and the update are    *)
(* separate steps.                                                         *)
(***************************************************************************)
EXTENDS Naturals, FiniteSets

CONSTANTS
    Clients,        \* the goroutines of concurrent debug RPC requests
    ModeClients,    \* those that may call SetBundlingMode
    MaxCalls        \* bound: debug calls in a behaviour

ASSUME ModeClients \subseteq Clients /\ MaxCalls \in Nat

\* Goroutine k runs on ticker k; Run makes a new pair each time it starts.
G == 1..(1 + MaxCalls)

VARIABLES
    isRunning,  \* Bundler.isRunning
    n,          \* the goroutines (and tickers) Run has started
    stopFn,     \* Bundler.stop: the Stop method of ticker stopFn
    gpc,        \* the place of each goroutine in its loop
    stopped,    \* ticker k has been stopped
    buf,        \* ticker k's channel holds a tick (its buffer is one)
    pc,         \* the place of each debug request
    calls       \* the debug calls made so far

vars == <<isRunning, n, stopFn, gpc, stopped, buf, pc, calls>>

Init ==
    /\ isRunning = TRUE /\ n = 1 /\ stopFn = 1
    /\ gpc = [k \in G |-> IF k = 1 THEN "select" ELSE "unstarted"]
    /\ stopped = [k \in G |-> FALSE] /\ buf = [k \in G |-> FALSE]
    /\ pc = [c \in Clients |-> "idle"] /\ calls = 0

Call(c) == pc[c] = "idle" /\ calls < MaxCalls /\ calls' = calls + 1

-----------------------------------------------------------------------------
(* The debug handlers.                                                     *)

\* SetBundlingMode("manual") calls Stop, which returns at once when the
\* bundler is not running.
SetManual(c) ==
    /\ c \in ModeClients /\ Call(c)
    /\ pc' = [pc EXCEPT ![c] = IF isRunning THEN "stopSet" ELSE "idle"]
    /\ UNCHANGED <<isRunning, n, stopFn, gpc, stopped, buf>>

\* Stop: isRunning is cleared and the ticker stopped; then true is sent on
\* the unbuffered done channel.
StopSet(c) ==
    /\ pc[c] = "stopSet"
    /\ isRunning' = FALSE
    /\ stopped' = [stopped EXCEPT ![stopFn] = TRUE]
    /\ pc' = [pc EXCEPT ![c] = "sendDone"]
    /\ UNCHANGED <<n, stopFn, gpc, buf, calls>>

\* SetBundlingMode("auto") calls Run, which returns nil at once when the
\* bundler is running.
SetAuto(c) ==
    /\ c \in ModeClients /\ Call(c)
    /\ pc' = [pc EXCEPT ![c] = IF isRunning THEN "idle" ELSE "runStart"]
    /\ UNCHANGED <<isRunning, n, stopFn, gpc, stopped, buf>>

\* Run: a new ticker, a goroutine on it, isRunning set, stop = ticker.Stop.
RunStart(c) ==
    /\ pc[c] = "runStart"
    /\ gpc' = [gpc EXCEPT ![n + 1] = "select"]
    /\ isRunning' = TRUE /\ stopFn' = n + 1 /\ n' = n + 1
    /\ pc' = [pc EXCEPT ![c] = "idle"]
    /\ UNCHANGED <<stopped, buf, calls>>

\* Any other mode is an error, and changes nothing.
SetOther(c) ==
    /\ c \in ModeClients /\ Call(c)
    /\ UNCHANGED <<isRunning, n, stopFn, gpc, stopped, buf, pc>>

\* SendBundleNow runs Process on the request's goroutine, whatever the mode.
SendBundleNow(c) ==
    /\ Call(c)
    /\ pc' = [pc EXCEPT ![c] = "bundleNow"]
    /\ UNCHANGED <<isRunning, n, stopFn, gpc, stopped, buf>>

\* Process returns; the handler returns the txn hash, "" or the error.
BundleNowDone(c) ==
    /\ pc[c] = "bundleNow"
    /\ pc' = [pc EXCEPT ![c] = "idle"]
    /\ UNCHANGED <<isRunning, n, stopFn, gpc, stopped, buf, calls>>

-----------------------------------------------------------------------------
(* The tickers and the goroutines Run starts.                              *)

\* time.Ticker: a tick is dropped when the channel is full.
Tick(k) ==
    /\ k <= n /\ ~stopped[k] /\ ~buf[k]
    /\ buf' = [buf EXCEPT ![k] = TRUE]
    /\ UNCHANGED <<isRunning, n, stopFn, gpc, stopped, pc, calls>>

\* select, case <-ticker.C: Process for the middleware.
ReceiveTick(k) ==
    /\ gpc[k] = "select" /\ buf[k]
    /\ buf' = [buf EXCEPT ![k] = FALSE]
    /\ gpc' = [gpc EXCEPT ![k] = "processing"]
    /\ UNCHANGED <<isRunning, n, stopFn, stopped, pc, calls>>

ProcessDone(k) ==
    /\ gpc[k] = "processing"
    /\ gpc' = [gpc EXCEPT ![k] = "select"]
    /\ UNCHANGED <<isRunning, n, stopFn, stopped, buf, pc, calls>>

\* select, case <-i.done: the goroutine returns, and the Stop blocked on
\* the send returns with it.
ReceiveDone(k) ==
    /\ gpc[k] = "select"
    /\ \E c \in Clients :
          /\ pc[c] = "sendDone"
          /\ pc' = [pc EXCEPT ![c] = "idle"]
    /\ gpc' = [gpc EXCEPT ![k] = "exited"]
    /\ UNCHANGED <<isRunning, n, stopFn, stopped, buf, calls>>

-----------------------------------------------------------------------------
Handler(c) ==
    \/ SetManual(c) \/ StopSet(c) \/ SetAuto(c) \/ RunStart(c) \/ SetOther(c)
    \/ SendBundleNow(c) \/ BundleNowDone(c)

Goroutine(k) == ReceiveTick(k) \/ ProcessDone(k) \/ ReceiveDone(k)

Next == (\E c \in Clients : Handler(c)) \/ (\E k \in G : Tick(k) \/ Goroutine(k))

Spec == Init /\ [][Next]_vars

-----------------------------------------------------------------------------
\* A goroutine that can still run Process: it has not returned, and its
\* ticker still fires, holds a tick, or it is processing one.
Ticking == {k \in 1..n : gpc[k] # "exited" /\ (~stopped[k] \/ buf[k] \/ gpc[k] = "processing")}

ModeCallInFlight == \E c \in Clients : pc[c] \in {"stopSet", "sendDone", "runStart"}

\* SetBundlingMode's comment: the bundler can be stopped "so that an
\* explicit call to debug_bundler_sendBundleNow is required to send a
\* bundle".  Once SetBundlingMode has returned, the mode it set holds: in
\* auto mode exactly one goroutine bundles on the ticker, and in manual
\* mode none is left that could still run Process.  Stop must both stop
\* the ticker and have its goroutine take the done signal; Run must not
\* start a second goroutine.
ModeHonoured == ~ModeCallInFlight => Cardinality(Ticking) = IF isRunning THEN 1 ELSE 0

=============================================================================
