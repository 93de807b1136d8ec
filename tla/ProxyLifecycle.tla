--------------------------- MODULE ProxyLifecycle ---------------------------
(***************************************************************************)
(* app.App.Run of the RPC proxy: two HTTP servers and the health poller    *)
(* run in goroutines; the main goroutine waits for a signal or for a       *)
(* server to stop, shuts both servers down under one deadline, collects    *)
(* what each Start returned, and ends the poller.                          *)
(***************************************************************************)
EXTENDS Naturals, Sequences

CONSTANT MaxConns       \* bound on requests in flight on one server

ASSUME MaxConnsAssumption == MaxConns \in Nat

Servers == {"main", "admin"}
serverCount == 2

VARIABLES
    start,       \* per server, the goroutine in Start: "new", "bound", "serving", "returned"
    closing,     \* per server, Shutdown has been called
    conns,       \* per server, requests in flight
    failed,      \* history: servers whose Start returned an error
    errCh,       \* the channel the Start goroutines send to
    signalled,   \* SIGINT or SIGTERM arrived
    pc,          \* the goroutine in Run
    consumed,    \* results read from errCh
    startErr,    \* Run holds an error of a Start
    shutdownErr, \* Run holds an error of a Shutdown
    expired,     \* shutdownCtx is past its deadline
    poller       \* "running", "cancelled" or "stopped"

servers == <<start, closing, conns, failed>>
run == <<pc, consumed, startErr, shutdownErr, expired>>
vars == <<servers, errCh, signalled, run, poller>>

Init ==
    /\ start = [s \in Servers |-> "new"]
    /\ closing = [s \in Servers |-> FALSE]
    /\ conns = [s \in Servers |-> 0]
    /\ failed = {}
    /\ errCh = <<>>
    /\ signalled = FALSE
    /\ pc = "select"
    /\ consumed = 0
    /\ startErr = FALSE /\ shutdownErr = FALSE /\ expired = FALSE
    /\ poller = "running"

-----------------------------------------------------------------------------
(* The Start goroutines and net/http.                                      *)

\* Start returns and its goroutine sends the result.
StartReturns(s, outcome) ==
    /\ start' = [start EXCEPT ![s] = "returned"]
    /\ errCh' = Append(errCh, outcome)
    /\ failed' = IF outcome = "error" THEN failed \cup {s} ELSE failed
    /\ UNCHANGED <<closing, conns, signalled, run, poller>>

Listen(s) ==
    /\ start[s] = "new"
    /\ \/ /\ start' = [start EXCEPT ![s] = "bound"]
          /\ UNCHANGED <<closing, conns, failed, errCh, signalled, run, poller>>
       \/ StartReturns(s, "error")

\* Serve returns ErrServerClosed, which Start turns into nil, once Shutdown
\* was called, even if that was before Serve began.
ServeClosed(s) ==
    /\ start[s] \in {"bound", "serving"}
    /\ closing[s]
    /\ StartReturns(s, "nil")

Serve(s) ==
    /\ start[s] = "bound"
    /\ ~closing[s]
    /\ start' = [start EXCEPT ![s] = "serving"]
    /\ UNCHANGED <<closing, conns, failed, errCh, signalled, run, poller>>

\* The listener breaks.
ServeFails(s) ==
    /\ start[s] = "serving"
    /\ ~closing[s]
    /\ StartReturns(s, "error")

RequestArrives(s) ==
    /\ start[s] = "serving"
    /\ ~closing[s]
    /\ conns[s] < MaxConns
    /\ conns' = [conns EXCEPT ![s] = @ + 1]
    /\ UNCHANGED <<start, closing, failed, errCh, signalled, run, poller>>

RequestEnds(s) ==
    /\ conns[s] > 0
    /\ pc # "returned"
    /\ conns' = [conns EXCEPT ![s] = @ - 1]
    /\ UNCHANGED <<start, closing, failed, errCh, signalled, run, poller>>

Signal ==
    /\ ~signalled
    /\ pc # "returned"
    /\ signalled' = TRUE
    /\ UNCHANGED <<servers, errCh, run, poller>>

\* The poller's context derives from the signal's; Run cancels it at the end.
PollerStops ==
    /\ signalled \/ poller = "cancelled"
    /\ poller # "stopped"
    /\ poller' = "stopped"
    /\ UNCHANGED <<servers, errCh, signalled, run>>

-----------------------------------------------------------------------------
(* Run.                                                                    *)

SelectError ==
    /\ pc = "select"
    /\ errCh # <<>>
    /\ startErr' = (Head(errCh) = "error")
    /\ errCh' = Tail(errCh)
    /\ consumed' = 1
    /\ pc' = "closeMain"
    /\ UNCHANGED <<servers, signalled, shutdownErr, expired, poller>>

SelectSignal ==
    /\ pc = "select"
    /\ signalled
    /\ pc' = "closeMain"
    /\ UNCHANGED <<servers, errCh, signalled, consumed, startErr, shutdownErr, expired, poller>>

\* http.Server.Shutdown closes the listener at once ...
Close(s, label, successor) ==
    /\ pc = label
    /\ pc' = successor
    /\ closing' = [closing EXCEPT ![s] = TRUE]
    /\ UNCHANGED <<start, conns, failed, errCh, signalled, consumed, startErr, shutdownErr,
                   expired, poller>>

\* ... and returns when no request is in flight, or at the deadline, which
\* both servers share.
Drain(s, label, successor) ==
    /\ pc = label
    /\ pc' = successor
    /\ \/ conns[s] = 0 /\ UNCHANGED shutdownErr
       \/ conns[s] > 0 /\ expired /\ shutdownErr' = TRUE
    /\ UNCHANGED <<servers, errCh, signalled, consumed, startErr, expired, poller>>

CloseMain == Close("main", "closeMain", "drainMain")

\* Mutant: shutdown without a deadline.
DrainMainForever ==
    /\ pc = "drainMain"
    /\ pc' = "closeAdmin"
    /\ conns["main"] = 0
    /\ UNCHANGED <<servers, errCh, signalled, consumed, startErr, shutdownErr, expired, poller>>

DrainMain == Drain("main", "drainMain", "closeAdmin")
CloseAdmin == Close("admin", "closeAdmin", "drainAdmin")
DrainAdmin == Drain("admin", "drainAdmin", "collect")

\* The clock of shutdownCtx starts with the shutdown.
DeadlinePasses ==
    /\ pc \in {"closeMain", "drainMain", "closeAdmin", "drainAdmin"}
    /\ ~expired
    /\ expired' = TRUE
    /\ UNCHANGED <<servers, errCh, signalled, pc, consumed, startErr, shutdownErr, poller>>

\* Mutant: only the first result is looked at.
CollectNothing ==
    /\ pc = "collect"
    /\ pc' = "endPoller"
    /\ UNCHANGED <<servers, errCh, signalled, consumed, startErr, shutdownErr, expired, poller>>

\* Mutant: each result replaces the error that Run already holds.
CollectOverwrites ==
    /\ pc = "collect"
    /\ IF consumed < serverCount
       THEN /\ errCh # <<>>
            /\ startErr' = (Head(errCh) = "error")
            /\ errCh' = Tail(errCh)
            /\ consumed' = consumed + 1
            /\ UNCHANGED pc
       ELSE /\ pc' = "endPoller"
            /\ UNCHANGED <<errCh, startErr, consumed>>
    /\ UNCHANGED <<servers, signalled, shutdownErr, expired, poller>>

\* Read the results that are left; each Start goroutine sends exactly one.
Collect ==
    /\ pc = "collect"
    /\ IF consumed < serverCount
       THEN /\ errCh # <<>>
            /\ startErr' = (startErr \/ Head(errCh) = "error")
            /\ errCh' = Tail(errCh)
            /\ consumed' = consumed + 1
            /\ UNCHANGED pc
       ELSE /\ pc' = "endPoller"
            /\ UNCHANGED <<errCh, startErr, consumed>>
    /\ UNCHANGED <<servers, signalled, shutdownErr, expired, poller>>

EndPoller ==
    /\ pc = "endPoller"
    /\ pc' = "wait"
    /\ poller' = IF poller = "running" THEN "cancelled" ELSE poller
    /\ UNCHANGED <<servers, errCh, signalled, consumed, startErr, shutdownErr, expired>>

\* wg.Wait, and Run returns errors.Join(startErr, shutdownErr).
WaitPoller ==
    /\ pc = "wait"
    /\ poller = "stopped"
    /\ pc' = "returned"
    /\ UNCHANGED <<servers, errCh, signalled, consumed, startErr, shutdownErr, expired, poller>>

RunStep ==
    \/ SelectError \/ SelectSignal
    \/ CloseMain \/ DrainMain \/ CloseAdmin \/ DrainAdmin
    \/ Collect \/ EndPoller \/ WaitPoller

StartStep(s) == Listen(s) \/ Serve(s) \/ ServeClosed(s)

Done == pc = "returned" /\ UNCHANGED vars

Next ==
    \/ RunStep \/ Signal \/ PollerStops \/ DeadlinePasses \/ Done
    \/ \E s \in Servers : StartStep(s) \/ ServeFails(s) \/ RequestArrives(s) \/ RequestEnds(s)

Spec == Init /\ [][Next]_vars

\* Goroutines are scheduled and deadlines pass; requests need not end: the
\* upstream timeout is longer than the shutdown deadline.
Fairness ==
    /\ WF_vars(RunStep) /\ WF_vars(PollerStops) /\ WF_vars(DeadlinePasses)
    /\ \A s \in Servers : WF_vars(StartStep(s))

FairSpec == Spec /\ Fairness

-----------------------------------------------------------------------------
\* Run returns an error exactly if some Start failed or a shutdown ran into
\* its deadline: no second bind failure is dropped and a graceful stop is not
\* reported as a failure (systemd restarts the proxy on failure only).
ErrorsReported ==
    pc = "returned" => /\ startErr <=> failed # {}
                       /\ ~shutdownErr => \A s \in Servers : conns[s] = 0

\* Nothing the proxy started outlives Run: both servers have stopped
\* listening, the poller has ended and no result is left unread.
NothingLeftRunning ==
    pc = "returned" =>
        /\ \A s \in Servers : start[s] = "returned"
        /\ poller = "stopped"
        /\ errCh = <<>>

\* A signal, or a server that cannot run, ends the process even if requests
\* hang.
Terminates == signalled \/ failed # {} ~> pc = "returned"
=============================================================================
