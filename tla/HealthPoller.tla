---------------------------- MODULE HealthPoller ----------------------------
(***************************************************************************)
(* The proxy's view of bitcoind's health: upstream.Poller (one goroutine)  *)
(* polls getblockcount and publishes the result, the metrics callback      *)
(* copies it into a gauge, and any number of /health requests read the     *)
(* published pointer.                                                      *)
(*                                                                         *)
(* Time advances in units; pollInterval is Interval units and the HTTP     *)
(* client's timeout is Timeout units.  In the program Timeout (30s) is     *)
(* longer than Interval (10s), so a poll of a silent upstream outlasts     *)
(* ticks of the ticker, of which its channel keeps one.  Steps that do not *)
(* wait take no time.                                                      *)
(*                                                                         *)
(* Its proofs are in one module with those of ProxyLifecycle, hence the    *)
(* prefix of the names that both would have.                               *)
(***************************************************************************)
EXTENDS Naturals

CONSTANTS Interval,     \* pollInterval
          Timeout,      \* Config.UpstreamTimeout
          Credentials   \* whether probe credentials are configured

ASSUME TimeAssumption == Interval \in Nat \ {0} /\ Timeout \in Nat \ {0}
ASSUME CredentialsAssumption == Credentials \in BOOLEAN

\* What bitcoind does with a request: answers 200, answers 5xx, rejects the
\* credentials (401/403), refuses the connection, each within the client's
\* timeout, or stays silent.
Upstreams == {"ok", "5xx", "unauthorized", "refused", "silent"}

\* Longest time a change of the upstream can stay unnoticed.
Bound == Interval + Timeout

VARIABLES
    upstream,   \* what bitcoind does now
    steadyFor,  \* time since its health last changed, capped past Bound
    pollPc,     \* the poller goroutine
    asked,      \* time since the current poll was sent
    phase,      \* time since the ticker last fired
    tick,       \* a tick waits in the ticker's channel
    verdict,    \* the Health the poll is about to publish
    health,     \* the published pointer: "nil", or whether Reachable
    gauge,      \* btc_rpc_proxy_upstream_healthy
    cancelled   \* the poller's context is done

pollerVars == <<upstream, steadyFor, pollPc, asked, phase, tick, verdict, health,
                gauge, cancelled>>

\* Without credentials a 401 still means that bitcoind is up.
Reachable(u) == u = "ok" \/ (u = "unauthorized" /\ ~Credentials)

PollerInit ==
    /\ upstream \in Upstreams
    /\ steadyFor = 0
    /\ pollPc = "poll"
    /\ asked = 0
    /\ phase = 0
    /\ tick = FALSE
    /\ verdict = FALSE
    /\ health = "nil"
    /\ gauge = 0
    /\ cancelled = FALSE

-----------------------------------------------------------------------------
\* poll: send getblockcount.
Ask ==
    /\ pollPc = "poll"
    /\ pollPc' = "asking"
    /\ asked' = 0
    /\ UNCHANGED <<upstream, steadyFor, phase, tick, verdict, health, gauge, cancelled>>

\* Mutant: any response at all counts as healthy.
AnswerAnyStatus ==
    /\ pollPc = "asking"
    /\ pollPc' = "store"
    /\ \/ ~cancelled /\ upstream # "silent" /\ verdict' = (upstream # "refused")
       \/ (cancelled \/ (upstream = "silent" /\ asked = Timeout)) /\ verdict' = FALSE
    /\ UNCHANGED <<upstream, steadyFor, asked, phase, tick, health, gauge, cancelled>>

\* The request ends: with a response, which decides the verdict, or without
\* one because the timeout expired or the context was cancelled.
Answer ==
    /\ pollPc = "asking"
    /\ pollPc' = "store"
    /\ \/ ~cancelled /\ upstream # "silent" /\ verdict' = Reachable(upstream)
       \/ (cancelled \/ (upstream = "silent" /\ asked = Timeout)) /\ verdict' = FALSE
    /\ UNCHANGED <<upstream, steadyFor, asked, phase, tick, health, gauge, cancelled>>

\* store: publish the pointer ...
Store ==
    /\ pollPc = "store"
    /\ pollPc' = "mark"
    /\ health' = IF verdict THEN "reachable" ELSE "unreachable"
    /\ UNCHANGED <<upstream, steadyFor, asked, phase, tick, verdict, gauge, cancelled>>

\* Mutant: the callback only ever sets the gauge.
MarkNeverClears ==
    /\ pollPc = "mark"
    /\ pollPc' = "select"
    /\ gauge' = IF verdict THEN 1 ELSE gauge
    /\ UNCHANGED <<upstream, steadyFor, asked, phase, tick, verdict, health, cancelled>>

\* ... then call OnPoll, which sets the gauge.
Mark ==
    /\ pollPc = "mark"
    /\ pollPc' = "select"
    /\ gauge' = IF verdict THEN 1 ELSE 0
    /\ UNCHANGED <<upstream, steadyFor, asked, phase, tick, verdict, health, cancelled>>

\* Run's select: with both channels ready either case may be taken.
SelectTick ==
    /\ pollPc = "select"
    /\ tick
    /\ tick' = FALSE
    /\ pollPc' = "poll"
    /\ UNCHANGED <<upstream, steadyFor, asked, phase, verdict, health, gauge, cancelled>>

\* Mutant: the loop has no case for the context.
SelectDoneNever == FALSE /\ UNCHANGED pollerVars

SelectDone ==
    /\ pollPc = "select"
    /\ cancelled
    /\ pollPc' = "stopped"
    /\ UNCHANGED <<upstream, steadyFor, asked, phase, tick, verdict, health, gauge, cancelled>>

Poller == Ask \/ Answer \/ Store \/ Mark \/ SelectTick \/ SelectDone

-----------------------------------------------------------------------------
\* The goroutine only lets time pass while it waits for the response or for
\* the ticker.
Waiting ==
    \/ pollPc = "asking" /\ asked < Timeout /\ ~cancelled
    \/ pollPc = "select" /\ ~tick /\ ~cancelled
    \/ pollPc = "stopped"

\* Time passes; the ticker fires every Interval, and drops a tick that finds
\* its channel full.  It is created when the first poll is over.
Advance ==
    /\ Waiting
    /\ asked' = IF pollPc = "asking" THEN asked + 1 ELSE asked
    /\ IF health = "nil" \/ pollPc = "stopped"
       THEN UNCHANGED <<phase, tick>>
       ELSE /\ phase' = IF phase + 1 = Interval THEN 0 ELSE phase + 1
            /\ tick' = (tick \/ phase + 1 = Interval)
    /\ steadyFor' = IF steadyFor > Bound THEN steadyFor ELSE steadyFor + 1
    /\ UNCHANGED <<upstream, pollPc, verdict, health, gauge, cancelled>>

UpstreamChanges ==
    /\ upstream' \in Upstreams \ {upstream}
    /\ steadyFor' = IF Reachable(upstream') = Reachable(upstream) THEN steadyFor ELSE 0
    /\ UNCHANGED <<pollPc, asked, phase, tick, verdict, health, gauge, cancelled>>

\* A signal, or the return of App.Run, cancels the poller's context.
Cancel ==
    /\ ~cancelled
    /\ cancelled' = TRUE
    /\ UNCHANGED <<upstream, steadyFor, pollPc, asked, phase, tick, verdict, health, gauge>>

PollerNext == Poller \/ Advance \/ UpstreamChanges \/ Cancel

PollerSpec == PollerInit /\ [][PollerNext]_pollerVars

\* The goroutine is scheduled, and bitcoind's answer or the client's timeout
\* arrives.
PollerFairness == WF_pollerVars(Poller) /\ WF_pollerVars(Advance)

PollerFairSpec == PollerSpec /\ PollerFairness

-----------------------------------------------------------------------------
\* What GET /health answers at this moment (handler.Health.evaluate).
Report ==
    IF health = "nil" THEN "starting"
    ELSE IF health = "reachable" THEN "ok" ELSE "degraded"

\* /health and the gauge say the same whenever the poller is between polls or
\* waits for an answer: a reader can see them apart only inside store().
ReadersAgree ==
    pollPc # "mark" => gauge = IF Report = "ok" THEN 1 ELSE 0

\* A change of bitcoind's health that lasts is reported within one interval
\* plus one timeout, even when polls of a silent bitcoind outlast the ticker.
Fresh ==
    steadyFor > Bound /\ ~cancelled => Report = IF Reachable(upstream) THEN "ok" ELSE "degraded"

\* Once its context is cancelled the goroutine ends, so that App.Run's
\* wg.Wait returns.
Stops == cancelled ~> pollPc = "stopped"
=============================================================================
