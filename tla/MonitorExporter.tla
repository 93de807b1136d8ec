-------------------------- MODULE MonitorExporter --------------------------
(***************************************************************************)
(* templates/bitcoind-monitor.py: the Prometheus exporter.  A single       *)
(* thread (wsgiref) serves one scrape after the other; a scrape refreshes  *)
(* the gauges first, unless the last refresh is too recent.  A refresh is  *)
(* a series of RPC calls with two points at which gauges are set; the      *)
(* statistics of the best block are cached by its hash.                    *)
(*                                                                         *)
(* Blocks are their heights, which also stand for their hashes.  The       *)
(* gauges are three groups: "early" (BITCOIN_BLOCKS and its neighbours,    *)
(* set before the fee and hash-rate calls), "late" (everything set after   *)
(* them) and, among the late ones, the gauges of the latest block.  Calls  *)
(* whose results nothing tells apart are one step: "uptime" stands for     *)
(* uptime and getmemoryinfo, "networkinfo" for getnetworkinfo up to        *)
(* getchaintxstats, "fees" for the estimatesmartfee and getnetworkhashps   *)
(* loops.                                                                  *)
(***************************************************************************)
EXTENDS Integers

CONSTANTS
    RateLimit,   \* RATE_LIMIT_SECONDS, in units of time
    MaxBack,     \* how far the wall clock may be set back
    MaxHeight,   \* bound on the height of the chain
    MaxScrapes,  \* bound on scrapes waiting to be accepted
    MaxFaults    \* bound on failing calls, signals, crashes and clock changes

ASSUME LimitAssumption == RateLimit \in Nat \ {0} /\ MaxBack \in Nat
ASSUME BoundsAssumption ==
    MaxHeight \in Nat \ {0} /\ MaxScrapes \in Nat \ {0} /\ MaxFaults \in Nat

\* What a call may raise, by the except clause that it meets.
Handled == {"RetryError", "JSONRPCError"}
Unhandled == {"JSONDecodeError", "other"}

VARIABLES
    height,   \* bitcoind's best block
    process,  \* "running", "exited" (systemd will restart it), "stopped"
    scrapes,  \* connections waiting in the listen queue
    pc,       \* the call that the request being served is at, or "idle"
    age,      \* datetime.now() - last_refresh, capped at RateLimit
    elapsed,  \* datetime.now() - process_start, capped at RateLimit
    chain,    \* bestblockhash as getblockchaininfo returned it
    stats,    \* what getblockstats returned for it
    cache,    \* its lru_cache: the one key it holds and the value
    blocks,   \* early gauges: the block they describe, 0 before the first refresh
    complete, \* the late gauges were set by the same refresh as the early ones
    latest,   \* latest-block gauges: the block they describe
    counted,  \* EXPORTER_ERRORS has grown since the last complete refresh
    raised,   \* what the last refresh raised, or "nothing"
    setBack,  \* history: the clock was set back since the last complete refresh
    faults    \* faults so far

gauges == <<blocks, complete, latest>>
refresh == <<chain, stats, cache>>
clock == <<age, elapsed>>
vars == <<height, process, scrapes, pc, clock, refresh, gauges, counted, raised, setBack, faults>>

None == -1          \* getblockstats returned None
NoEntry == <<0, 0>> \* an empty cache

Calls == {"uptime", "chaininfo", "networkinfo", "blockstats", "banned", "fees"}

\* A new process: no gauge set, an empty cache, last_refresh at the epoch.
Init ==
    /\ height = 1
    /\ process = "running"
    /\ scrapes = 0
    /\ pc = "idle"
    /\ age = RateLimit /\ elapsed = RateLimit
    /\ chain = 0 /\ stats = 0 /\ cache = NoEntry
    /\ blocks = 0 /\ complete = TRUE /\ latest = 0
    /\ counted = FALSE /\ raised = "nothing" /\ setBack = FALSE
    /\ faults = 0

Fault == faults < MaxFaults /\ faults' = faults + 1

-----------------------------------------------------------------------------
(* refresh_app.                                                            *)

\* Mutant: every scrape moves last_refresh, also one that does not refresh.
AcceptRecentTouches ==
    /\ process = "running" /\ pc = "idle" /\ scrapes > 0
    /\ age < RateLimit
    /\ scrapes' = scrapes - 1
    /\ age' = 0
    /\ UNCHANGED <<height, process, pc, elapsed, refresh, gauges, counted, raised, setBack, faults>>

\* Serve a scrape from the gauges as they are.
AcceptRecent ==
    /\ process = "running" /\ pc = "idle" /\ scrapes > 0
    /\ age < RateLimit
    /\ scrapes' = scrapes - 1
    /\ UNCHANGED <<height, process, pc, clock, refresh, gauges, counted, raised, setBack, faults>>

\* Begin a refresh.
AcceptRefresh ==
    /\ process = "running" /\ pc = "idle" /\ scrapes > 0
    /\ age >= RateLimit
    /\ scrapes' = scrapes - 1
    /\ pc' = "uptime"
    /\ elapsed' = 0
    /\ UNCHANGED <<height, process, age, refresh, gauges, counted, raised, setBack, faults>>

\* A call returns.
Return(call, successor) ==
    /\ process = "running"
    /\ pc = call
    /\ pc' = successor
    /\ UNCHANGED <<height, process, scrapes, faults>>

Uptime ==
    /\ Return("uptime", "chaininfo")
    /\ UNCHANGED <<clock, refresh, gauges, counted, raised, setBack>>

ChainInfo ==
    /\ Return("chaininfo", "networkinfo")
    /\ chain' = height
    /\ UNCHANGED <<stats, cache, clock, gauges, counted, raised, setBack>>

NetworkInfo ==
    /\ Return("networkinfo", "blockstats")
    /\ UNCHANGED <<clock, refresh, gauges, counted, raised, setBack>>

\* Mutant: the cache ignores its key.
BlockStatsHitAny ==
    /\ Return("blockstats", "banned")
    /\ cache # NoEntry
    /\ stats' = cache[2]
    /\ UNCHANGED <<chain, cache, clock, gauges, counted, raised, setBack>>

\* getblockstats: the lru_cache answers ...
BlockStatsHit ==
    /\ Return("blockstats", "banned")
    /\ cache # NoEntry /\ cache[1] = chain
    /\ stats' = cache[2]
    /\ UNCHANGED <<chain, cache, clock, gauges, counted, raised, setBack>>

\* ... or bitcoind does; whatever goes wrong is logged and cached as None.
BlockStatsMiss ==
    /\ cache = NoEntry \/ cache[1] # chain
    /\ \/ Return("blockstats", "banned") /\ stats' = chain /\ UNCHANGED counted
       \/ /\ process = "running" /\ pc = "blockstats" /\ pc' = "banned"
          /\ stats' = None
          /\ Fault
          /\ counted' \in {counted, TRUE}  \* on_retry counts each retry
          /\ UNCHANGED <<height, process, scrapes>>
    /\ cache' = <<chain, stats'>>
    /\ UNCHANGED <<chain, clock, gauges, raised, setBack>>

\* listbanned returns, and the early gauges are set.
Banned ==
    /\ Return("banned", "fees")
    /\ blocks' = chain
    /\ complete' = FALSE
    /\ UNCHANGED <<latest, refresh, clock, counted, raised, setBack>>

\* The last of the calls returns and the late gauges are set; the latest-block
\* gauges only if there are statistics.
Fees ==
    /\ Return("fees", "idle")
    /\ complete' = TRUE
    /\ latest' = IF stats = None THEN latest ELSE stats
    /\ age' = elapsed
    /\ counted' = FALSE
    /\ raised' = "nothing"
    /\ setBack' = FALSE
    /\ UNCHANGED <<blocks, elapsed, refresh>>

\* A call was retried by riprova and goes on.
Retry ==
    /\ process = "running" /\ pc \in Calls
    /\ ~counted
    /\ Fault
    /\ counted' = TRUE
    /\ UNCHANGED <<height, process, scrapes, pc, clock, refresh, gauges, raised, setBack>>

\* Mutant: the failure is not counted.
RaiseHandledUncounted(e) ==
    /\ process = "running" /\ pc \in Calls \ {"blockstats"}
    /\ e \in Handled
    /\ Fault
    /\ raised' = e
    /\ age' = elapsed
    /\ pc' = "idle"
    /\ UNCHANGED <<height, process, scrapes, elapsed, refresh, gauges, counted, setBack>>

\* A call fails for good.  RetryError and JSONRPCError are counted, the scrape
\* is served from the gauges as they are, and the rate limit applies.
RaiseHandled(e) ==
    /\ process = "running" /\ pc \in Calls \ {"blockstats"}
    /\ e \in Handled
    /\ Fault
    /\ raised' = e
    /\ counted' = TRUE
    /\ age' = elapsed
    /\ pc' = "idle"
    /\ UNCHANGED <<height, process, scrapes, elapsed, refresh, gauges, setBack>>

\* Anything else leaves the application, sys.exit(1) of the JSONDecodeError
\* clause included; wsgiref's BaseHandler.run catches it, answers 500 and the
\* server goes on.
RaiseUnhandled(e) ==
    /\ process = "running" /\ pc \in Calls \ {"blockstats"}
    /\ e \in Unhandled
    /\ Fault
    /\ raised' = e
    /\ pc' = "idle"
    /\ UNCHANGED <<height, process, scrapes, clock, refresh, gauges, counted, setBack>>

CallReturns ==
    \/ Uptime \/ ChainInfo \/ NetworkInfo \/ BlockStatsHit \/ BlockStatsMiss \/ Banned \/ Fees

Raise == \E e \in Handled \cup Unhandled : RaiseHandled(e) \/ RaiseUnhandled(e)

Serve == AcceptRecent \/ AcceptRefresh \/ CallReturns

-----------------------------------------------------------------------------
(* Signals and systemd (Restart=always).                                   *)

\* systemctl stop: signal_handler raises SystemExit in the main thread.  In
\* select it ends the process; in a request wsgiref catches it.
Sigterm ==
    /\ process = "running"
    /\ Fault
    /\ IF pc = "idle" THEN process' = "stopped" /\ UNCHANGED <<pc, raised>>
                      ELSE pc' = "idle" /\ raised' = "SystemExit" /\ UNCHANGED process
    /\ UNCHANGED <<height, scrapes, clock, refresh, gauges, counted, setBack>>

\* The process is killed: by the kernel, or by systemd when it did not stop.
Killed ==
    /\ process = "running"
    /\ Fault
    /\ process' \in {"exited", "stopped"}
    /\ UNCHANGED <<height, scrapes, pc, clock, refresh, gauges, counted, raised, setBack>>

\* RestartSec is over, or the charm starts the service again: a new process.
Starts ==
    /\ process # "running"
    /\ process' = "running"
    /\ scrapes' = 0
    /\ pc' = "idle"
    /\ age' = RateLimit /\ elapsed' = RateLimit
    /\ chain' = 0 /\ stats' = 0 /\ cache' = NoEntry
    /\ blocks' = 0 /\ complete' = TRUE /\ latest' = 0
    /\ counted' = FALSE /\ raised' = "nothing" /\ setBack' = FALSE
    /\ UNCHANGED <<height, faults>>

-----------------------------------------------------------------------------
(* Prometheus, the chain and the clock.                                    *)

Scrape ==
    /\ process = "running"
    /\ scrapes < MaxScrapes
    /\ scrapes' = scrapes + 1
    /\ UNCHANGED <<height, process, pc, clock, refresh, gauges, counted, raised, setBack, faults>>

NewBlock ==
    /\ height < MaxHeight
    /\ height' = height + 1
    /\ UNCHANGED <<process, scrapes, pc, clock, refresh, gauges, counted, raised, setBack, faults>>

Later(t) == IF t < RateLimit THEN t + 1 ELSE t

Advance ==
    /\ age < RateLimit \/ elapsed < RateLimit
    /\ age' = Later(age)
    /\ elapsed' = Later(elapsed)
    /\ UNCHANGED <<height, process, scrapes, pc, refresh, gauges, counted, raised, setBack, faults>>

\* datetime.now() is local wall-clock time.
ClockSetBack ==
    /\ Fault
    /\ \E back \in 1..MaxBack :
          /\ age' = IF age < back - MaxBack THEN -MaxBack ELSE age - back
          /\ elapsed' = IF elapsed < back - MaxBack THEN -MaxBack ELSE elapsed - back
    /\ setBack' = TRUE
    /\ UNCHANGED <<height, process, scrapes, pc, refresh, gauges, counted, raised>>

Next ==
    \/ Serve \/ Raise \/ Retry \/ Sigterm \/ Killed \/ Starts
    \/ Scrape \/ NewBlock \/ Advance \/ ClockSetBack

Spec == Init /\ [][Next]_vars

\* Prometheus keeps scraping; every call returns or fails within TIMEOUT per
\* call; time passes; systemd and the charm start the service again.
Fairness ==
    /\ WF_vars(Serve) /\ WF_vars(Scrape) /\ WF_vars(Advance) /\ WF_vars(Starts)

FairSpec == Spec /\ Fairness

-----------------------------------------------------------------------------
(* Properties.                                                             *)

\* The latest-block gauges never run ahead of the block height, and after a
\* refresh that ended without an exception they lag behind it only because
\* getblockstats failed for exactly that block: the failure stays cached until
\* there is a new best block, never longer.
LagExplained ==
    /\ latest <= blocks
    /\ pc = "idle" /\ raised = "nothing" /\ latest # blocks => cache = <<blocks, None>>

\* A scrape that is answered from gauges of two different refreshes can be
\* recognised: the error counter has grown since the last complete one.  A
\* failure that answers 500 does not count, but it does not start the rate
\* limit either, so the next scrape refreshes again; only a clock that is set
\* back meanwhile lets such gauges out uncounted.
TornIsCounted ==
    pc = "idle" /\ ~complete /\ age < RateLimit => counted \/ setBack

\* Whatever failed before, once bitcoind, the clock and systemd leave the
\* exporter alone its gauges end up complete and at the best block: scrapes
\* that fall under the rate limit do not put off the refresh for ever.
CatchesUp == <>[](blocks = height /\ (pc = "idle" => complete))

\* "Allow riprova.MaxRetriesExceeded and unknown exceptions to crash the
\* process", and sys.exit(1) after an answer that is not JSON.
UnknownEndsProcess == raised \in Unhandled => process # "running"
=============================================================================
