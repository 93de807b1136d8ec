----------------------- MODULE MonitorExporter_proofs -----------------------
(***************************************************************************)
(* Proofs about MonitorExporter, for every rate limit and every bound.     *)
(*                                                                         *)
(* Both properties speak of the moment at which a scrape is answered.      *)
(* What decides them happens during the refresh, so the invariant follows  *)
(* the block through the refresh, and the age of the last refresh.         *)
(***************************************************************************)
EXTENDS MonitorExporter, TLAPS

TypeInv ==
    /\ height \in Nat \ {0}
    /\ process \in {"running", "exited", "stopped"}
    /\ scrapes \in Nat
    /\ pc \in Calls \cup {"idle"}
    /\ age \in Int /\ elapsed \in Int
    /\ chain \in Nat /\ stats \in Nat \cup {None}
    /\ cache \in Nat \X (Nat \cup {None})
    /\ blocks \in Nat /\ latest \in Nat
    /\ complete \in BOOLEAN /\ counted \in BOOLEAN /\ setBack \in BOOLEAN
    /\ raised \in Handled \cup Unhandled \cup {"nothing", "SystemExit"}
    /\ faults \in Nat

\* The chain only grows, so what a refresh has seen of it is never ahead of
\* it, and never behind what an earlier refresh has seen.
ChainInv ==
    /\ latest <= blocks /\ blocks <= height /\ chain <= height
    /\ pc \in {"networkinfo", "blockstats", "banned", "fees"} => blocks <= chain /\ chain > 0

\* The cache holds a block's own statistics or a failure, and once
\* getblockstats has returned it holds what the refresh will use.
CacheInv ==
    /\ cache[2] \in {None, cache[1]}
    /\ pc \in {"banned", "fees"} => cache = <<chain, stats>>
    /\ pc = "fees" => blocks = chain

\* A refresh begins only when the last one is old enough, and that can be
\* undone only by the clock.
AgeInv ==
    /\ pc # "idle" => age >= RateLimit \/ setBack
    /\ ~complete /\ ~counted => age >= RateLimit \/ setBack

IInv == TypeInv /\ ChainInv /\ CacheInv /\ AgeInv /\ LagExplained

-----------------------------------------------------------------------------
\* Every step keeps each variable in its type.
LEMMA TypeStep == TypeInv /\ [Next]_vars => TypeInv'
<1> SUFFICES ASSUME TypeInv, [Next]_vars PROVE TypeInv'
  OBVIOUS
<1> USE LimitAssumption DEF TypeInv, Calls, Handled, Unhandled, None, NoEntry, Fault, gauges, refresh, clock
<1>1. CASE AcceptRecent BY <1>1 DEF AcceptRecent
<1>2. CASE AcceptRefresh BY <1>2 DEF AcceptRefresh
<1>3. CASE Uptime BY <1>3 DEF Uptime, Return
<1>4. CASE ChainInfo BY <1>4 DEF ChainInfo, Return
<1>5. CASE NetworkInfo BY <1>5 DEF NetworkInfo, Return
<1>6. CASE BlockStatsHit BY <1>6 DEF BlockStatsHit, Return
<1>7. CASE BlockStatsMiss
  <2>1. counted' \in BOOLEAN
    BY <1>7, Zenon DEF BlockStatsMiss, Return
  <2>2. /\ stats' = chain \/ stats' = None
        /\ faults' = faults \/ faults' = faults + 1
        /\ scrapes' = scrapes /\ height' = height /\ process' = process /\ pc' = "banned"
    BY <1>7, Zenon DEF BlockStatsMiss, Return
  <2>3. cache' \in Nat \X (Nat \cup {None})
    BY <1>7, <2>2 DEF BlockStatsMiss
  <2> QED
    BY <1>7, <2>1, <2>2, <2>3 DEF BlockStatsMiss
<1>8. CASE Banned BY <1>8 DEF Banned, Return
<1>9. CASE Fees
  BY <1>9 DEF Fees, Return
<1>10. ASSUME NEW e \in Handled \cup Unhandled, RaiseHandled(e) \/ RaiseUnhandled(e)
       PROVE TypeInv'
  <2>1. CASE RaiseHandled(e) BY <2>1 DEF RaiseHandled
  <2>2. CASE RaiseUnhandled(e) BY <2>2 DEF RaiseUnhandled
  <2> QED BY <1>10, <2>1, <2>2
<1>11. CASE Retry BY <1>11 DEF Retry
<1>12. CASE Sigterm BY <1>12 DEF Sigterm
<1>13. CASE Killed BY <1>13 DEF Killed
<1>14. CASE Starts
  <2>1. complete' \in BOOLEAN /\ counted' \in BOOLEAN /\ setBack' \in BOOLEAN
    BY <1>14, Zenon DEF Starts
  <2>2. cache' \in Nat \X (Nat \cup {None}) /\ stats' \in Nat \cup {None}
    BY <1>14 DEF Starts
  <2>3. /\ height' \in Nat \ {0} /\ scrapes' \in Nat /\ chain' \in Nat /\ faults' \in Nat
        /\ blocks' \in Nat /\ latest' \in Nat /\ age' \in Int /\ elapsed' \in Int
    BY <1>14 DEF Starts
  <2>4. process' = "running" /\ pc' = "idle" /\ raised' = "nothing"
    BY <1>14 DEF Starts
  <2> QED BY <2>1, <2>2, <2>3, <2>4
<1>15. CASE Scrape BY <1>15 DEF Scrape
<1>16. CASE NewBlock BY <1>16 DEF NewBlock
<1>17. CASE Advance BY <1>17 DEF Advance, Later
<1>18. CASE ClockSetBack BY <1>18 DEF ClockSetBack
<1>19. CASE UNCHANGED vars BY <1>19 DEF vars
<1> QED
  BY <1>1, <1>2, <1>3, <1>4, <1>5, <1>6, <1>7, <1>8, <1>9, <1>10, <1>11, <1>12, <1>13, <1>14, <1>15,
     <1>16, <1>17, <1>18, <1>19 DEF Next, Serve, CallReturns, Raise

\* What a refresh has seen of the chain follows the chain.
LEMMA ChainStep == IInv /\ TypeInv' /\ [Next]_vars => ChainInv'
<1> SUFFICES ASSUME IInv, TypeInv', [Next]_vars PROVE ChainInv'
  OBVIOUS
<1> USE DEF IInv, TypeInv, ChainInv, CacheInv, Calls, None, gauges, refresh
<1>1. CASE AcceptRecent BY <1>1 DEF AcceptRecent
<1>2. CASE AcceptRefresh BY <1>2 DEF AcceptRefresh
<1>3. CASE Uptime BY <1>3 DEF Uptime, Return
<1>4. CASE ChainInfo BY <1>4 DEF ChainInfo, Return
<1>5. CASE NetworkInfo BY <1>5 DEF NetworkInfo, Return
<1>6. CASE BlockStatsHit BY <1>6 DEF BlockStatsHit, Return
<1>7. CASE BlockStatsMiss
  <2>1. /\ height' = height /\ chain' = chain /\ blocks' = blocks /\ latest' = latest
        /\ pc = "blockstats"
    BY <1>7, Zenon DEF BlockStatsMiss, Return
  <2> QED BY <2>1
<1>8. CASE Banned BY <1>8 DEF Banned, Return
<1>9. CASE Fees BY <1>9 DEF Fees, Return
<1>10. ASSUME NEW e \in Handled \cup Unhandled, RaiseHandled(e) \/ RaiseUnhandled(e)
       PROVE ChainInv'
  BY <1>10 DEF RaiseHandled, RaiseUnhandled
<1>11. CASE Retry BY <1>11 DEF Retry
<1>12. CASE Sigterm BY <1>12 DEF Sigterm
<1>13. CASE Killed BY <1>13 DEF Killed
<1>14. CASE Starts BY <1>14 DEF Starts
<1>15. CASE Scrape BY <1>15 DEF Scrape
<1>16. CASE NewBlock BY <1>16 DEF NewBlock
<1>17. CASE Advance BY <1>17 DEF Advance
<1>18. CASE ClockSetBack BY <1>18 DEF ClockSetBack
<1>19. CASE UNCHANGED vars BY <1>19 DEF vars
<1> QED
  BY <1>1, <1>2, <1>3, <1>4, <1>5, <1>6, <1>7, <1>8, <1>9, <1>10, <1>11, <1>12, <1>13, <1>14, <1>15,
     <1>16, <1>17, <1>18, <1>19 DEF Next, Serve, CallReturns, Raise

\* The cache never answers for another block than the one it was filled for.
LEMMA CacheStep == IInv /\ TypeInv' /\ [Next]_vars => CacheInv'
<1> SUFFICES ASSUME IInv, TypeInv', [Next]_vars PROVE CacheInv'
  OBVIOUS
<1> USE DEF IInv, TypeInv, CacheInv, Calls, None, gauges, refresh
<1>1. CASE AcceptRecent BY <1>1 DEF AcceptRecent
<1>2. CASE AcceptRefresh BY <1>2 DEF AcceptRefresh
<1>3. CASE Uptime BY <1>3 DEF Uptime, Return
<1>4. CASE ChainInfo BY <1>4 DEF ChainInfo, Return
<1>5. CASE NetworkInfo BY <1>5 DEF NetworkInfo, Return
<1>6. CASE BlockStatsHit BY <1>6 DEF BlockStatsHit, Return
<1>7. CASE BlockStatsMiss
  <2>1. stats' \in {chain, None} /\ chain' = chain /\ cache' = <<chain, stats'>> /\ pc' = "banned"
    BY <1>7, Zenon DEF BlockStatsMiss, Return
  <2> QED BY <2>1
<1>8. CASE Banned BY <1>8 DEF Banned, Return
<1>9. CASE Fees BY <1>9 DEF Fees, Return
<1>10. ASSUME NEW e \in Handled \cup Unhandled, RaiseHandled(e) \/ RaiseUnhandled(e)
       PROVE CacheInv'
  BY <1>10 DEF RaiseHandled, RaiseUnhandled
<1>11. CASE Retry BY <1>11 DEF Retry
<1>12. CASE Sigterm BY <1>12 DEF Sigterm
<1>13. CASE Killed BY <1>13 DEF Killed
<1>14. CASE Starts BY <1>14 DEF Starts, NoEntry
<1>15. CASE Scrape BY <1>15 DEF Scrape
<1>16. CASE NewBlock BY <1>16 DEF NewBlock
<1>17. CASE Advance BY <1>17 DEF Advance
<1>18. CASE ClockSetBack BY <1>18 DEF ClockSetBack
<1>19. CASE UNCHANGED vars BY <1>19 DEF vars
<1> QED
  BY <1>1, <1>2, <1>3, <1>4, <1>5, <1>6, <1>7, <1>8, <1>9, <1>10, <1>11, <1>12, <1>13, <1>14, <1>15,
     <1>16, <1>17, <1>18, <1>19 DEF Next, Serve, CallReturns, Raise

\* Only a counted failure lets the rate limit apply to a refresh that did not
\* complete.
LEMMA AgeStep == IInv /\ TypeInv' /\ [Next]_vars => AgeInv'
<1> SUFFICES ASSUME IInv, TypeInv', [Next]_vars PROVE AgeInv'
  OBVIOUS
<1> USE LimitAssumption DEF IInv, TypeInv, AgeInv, Calls, gauges, clock
<1>1. CASE AcceptRecent BY <1>1 DEF AcceptRecent
<1>2. CASE AcceptRefresh BY <1>2 DEF AcceptRefresh
<1>3. CASE Uptime BY <1>3 DEF Uptime, Return
<1>4. CASE ChainInfo BY <1>4 DEF ChainInfo, Return
<1>5. CASE NetworkInfo BY <1>5 DEF NetworkInfo, Return
<1>6. CASE BlockStatsHit BY <1>6 DEF BlockStatsHit, Return
<1>7. CASE BlockStatsMiss
  <2>1. /\ pc = "blockstats" /\ age' = age /\ setBack' = setBack /\ complete' = complete
        /\ counted' = counted \/ counted'
    BY <1>7, Zenon DEF BlockStatsMiss, Return
  <2> QED BY <2>1
<1>8. CASE Banned BY <1>8 DEF Banned, Return
<1>9. CASE Fees BY <1>9 DEF Fees, Return
<1>10. ASSUME NEW e \in Handled \cup Unhandled, RaiseHandled(e) \/ RaiseUnhandled(e)
       PROVE AgeInv'
  <2>1. CASE RaiseHandled(e) BY <2>1 DEF RaiseHandled
  <2>2. CASE RaiseUnhandled(e) BY <2>2 DEF RaiseUnhandled
  <2> QED BY <1>10, <2>1, <2>2
<1>11. CASE Retry BY <1>11 DEF Retry
<1>12. CASE Sigterm BY <1>12 DEF Sigterm
<1>13. CASE Killed BY <1>13 DEF Killed
<1>14. CASE Starts BY <1>14 DEF Starts
<1>15. CASE Scrape BY <1>15 DEF Scrape
<1>16. CASE NewBlock BY <1>16 DEF NewBlock
<1>17. CASE Advance BY <1>17 DEF Advance, Later
<1>18. CASE ClockSetBack BY <1>18 DEF ClockSetBack
<1>19. CASE UNCHANGED vars BY <1>19 DEF vars
<1> QED
  BY <1>1, <1>2, <1>3, <1>4, <1>5, <1>6, <1>7, <1>8, <1>9, <1>10, <1>11, <1>12, <1>13, <1>14, <1>15,
     <1>16, <1>17, <1>18, <1>19 DEF Next, Serve, CallReturns, Raise

\* A refresh that ends without an exception either sets the latest-block gauges
\* or leaves the cached failure for the block it saw.
LEMMA LagStep == IInv /\ TypeInv' /\ ChainInv' /\ [Next]_vars => LagExplained'
<1> SUFFICES ASSUME IInv, TypeInv', ChainInv', [Next]_vars PROVE LagExplained'
  OBVIOUS
<1> USE DEF IInv, TypeInv, ChainInv, CacheInv, LagExplained, Calls, Handled, Unhandled, None, gauges, refresh
<1>1. CASE AcceptRecent BY <1>1 DEF AcceptRecent
<1>2. CASE AcceptRefresh BY <1>2 DEF AcceptRefresh
<1>3. CASE Uptime BY <1>3 DEF Uptime, Return
<1>4. CASE ChainInfo BY <1>4 DEF ChainInfo, Return
<1>5. CASE NetworkInfo BY <1>5 DEF NetworkInfo, Return
<1>6. CASE BlockStatsHit BY <1>6 DEF BlockStatsHit, Return
<1>7. CASE BlockStatsMiss
  <2>1. pc' = "banned"
    BY <1>7, Zenon DEF BlockStatsMiss, Return
  <2> QED BY <2>1
<1>8. CASE Banned BY <1>8 DEF Banned, Return
<1>9. CASE Fees
  <2>1. blocks' = blocks /\ cache' = cache /\ cache = <<chain, stats>> /\ blocks = chain
    BY <1>9 DEF Fees, Return
  <2>2. stats \in {None, chain}
    BY <2>1
  <2>3. latest' = IF stats = None THEN latest ELSE stats
    BY <1>9 DEF Fees
  <2> QED BY <2>1, <2>2, <2>3
<1>10. ASSUME NEW e \in Handled \cup Unhandled, RaiseHandled(e) \/ RaiseUnhandled(e)
       PROVE LagExplained'
  BY <1>10 DEF RaiseHandled, RaiseUnhandled
<1>11. CASE Retry BY <1>11 DEF Retry
<1>12. CASE Sigterm BY <1>12 DEF Sigterm
<1>13. CASE Killed BY <1>13 DEF Killed
<1>14. CASE Starts BY <1>14 DEF Starts
<1>15. CASE Scrape BY <1>15 DEF Scrape
<1>16. CASE NewBlock BY <1>16 DEF NewBlock
<1>17. CASE Advance BY <1>17 DEF Advance
<1>18. CASE ClockSetBack BY <1>18 DEF ClockSetBack
<1>19. CASE UNCHANGED vars BY <1>19 DEF vars
<1> QED
  BY <1>1, <1>2, <1>3, <1>4, <1>5, <1>6, <1>7, <1>8, <1>9, <1>10, <1>11, <1>12, <1>13, <1>14, <1>15,
     <1>16, <1>17, <1>18, <1>19 DEF Next, Serve, CallReturns, Raise

-----------------------------------------------------------------------------
\* The inductive invariant holds in every reachable state.
THEOREM Invariance == Spec => []IInv
<1>1. Init => IInv
  <2> SUFFICES ASSUME Init PROVE IInv
    OBVIOUS
  <2>1. complete \in BOOLEAN /\ counted \in BOOLEAN /\ setBack \in BOOLEAN
    BY Zenon DEF Init
  <2>2. TypeInv
    BY <2>1, LimitAssumption DEF Init, TypeInv, Calls, Handled, Unhandled, None, NoEntry
  <2>3. ChainInv /\ CacheInv /\ LagExplained
    BY DEF Init, ChainInv, CacheInv, LagExplained, None, NoEntry
  <2>4. AgeInv
    BY LimitAssumption DEF Init, AgeInv
  <2> QED
    BY <2>2, <2>3, <2>4 DEF IInv
<1>2. IInv /\ [Next]_vars => IInv'
  BY TypeStep, ChainStep, CacheStep, AgeStep, LagStep DEF IInv
<1> QED
  BY <1>1, <1>2, PTL DEF Spec

\* refresh_metrics and the lru_cache of getblockstats: after a refresh without
\* an exception the latest-block gauges are those of the block height, or the
\* statistics of exactly that block could not be had.
THEOREM LagExplainedHolds == Spec => []LagExplained
<1>1. IInv => LagExplained
  BY DEF IInv
<1> QED
  BY <1>1, Invariance, PTL

\* refresh_app: gauges of two refreshes are never served under the rate limit
\* without the error counter having grown, as long as the clock moves forward.
THEOREM TornIsCountedHolds == Spec => []TornIsCounted
<1>1. IInv => TornIsCounted
  BY LimitAssumption DEF IInv, TypeInv, AgeInv, TornIsCounted
<1> QED
  BY <1>1, Invariance, PTL
=============================================================================
