------------------------- MODULE ProxyProcess_proofs -------------------------
(***************************************************************************)
(* Proofs about the goroutines of the proxy process: the health poller,    *)
(* for every interval and timeout, with or without probe credentials,      *)
(* and App.Run, which starts and ends it, for any number of requests in    *)
(* flight.                                                                 *)
(*                                                                         *)
(* The poller.  Fresh bounds the time for which a wrong report can stand.  *)
(* The invariant splits that time over the places where the goroutine can  *)
(* be: none while a verdict is published, at most the phase of the ticker  *)
(* while it waits for a tick, at most one interval when the tick is there, *)
(* and the time since the request was sent on top of it from then until    *)
(* its verdict is published.                                               *)
(*                                                                         *)
(* Run.  What it returns is decided by results that were sent and read at  *)
(* unrelated times.  The invariant accounts for every one of them: a Start *)
(* goroutine that has returned left one result, which is in the channel or *)
(* has been read, and an error among them is in the channel or held by     *)
(* Run.                                                                    *)
(***************************************************************************)
EXTENDS HealthPoller, ProxyLifecycle, TLAPS

-----------------------------------------------------------------------------
(* The health poller.                                                      *)

PollerTypeInv ==
    /\ upstream \in Upstreams
    /\ steadyFor \in Nat
    /\ pollPc \in {"poll", "asking", "store", "mark", "select", "stopped"}
    /\ asked \in Nat /\ phase \in Nat
    /\ tick \in BOOLEAN /\ verdict \in BOOLEAN /\ cancelled \in BOOLEAN
    /\ health \in {"nil", "reachable", "unreachable"}
    /\ gauge \in {0, 1}

\* The gauge follows the pointer once the callback has run.
GaugeInv ==
    /\ pollPc = "mark" => health = IF verdict THEN "reachable" ELSE "unreachable"
    /\ pollPc # "mark" => gauge = IF health = "reachable" THEN 1 ELSE 0
    /\ pollPc = "select" => health # "nil"

\* The report of the pointer agrees with bitcoind as it is now.
Current == health = IF Reachable(upstream) THEN "reachable" ELSE "unreachable"

\* How long a report may have been wrong, by the place of the goroutine.
StaleInv ==
    ~cancelled =>
        /\ pollPc = "store" /\ verdict # Reachable(upstream) => steadyFor = 0
        /\ pollPc = "mark" /\ ~Current => steadyFor = 0
        /\ pollPc = "select" /\ ~Current => steadyFor <= (IF tick THEN Interval ELSE phase)
        /\ pollPc = "poll" /\ ~Current => steadyFor <= Interval
        /\ pollPc \in {"asking", "store"} /\ ~Current => steadyFor <= Interval + asked
        /\ pollPc # "stopped"

ClockInv == phase < Interval /\ asked <= Timeout

PollerInv == PollerTypeInv /\ GaugeInv /\ StaleInv /\ ClockInv

-----------------------------------------------------------------------------
\* Reachability is a truth value, for the step that stores it.
LEMMA ReachableType == \A u : Reachable(u) \in BOOLEAN
BY Zenon DEF Reachable

\* Every step keeps each variable in its type.
LEMMA PollerTypeStep == PollerTypeInv /\ [PollerNext]_pollerVars => PollerTypeInv'
<1> SUFFICES ASSUME PollerTypeInv, [PollerNext]_pollerVars PROVE PollerTypeInv'
  OBVIOUS
<1> USE TimeAssumption DEF PollerTypeInv
<1>1. CASE Ask BY <1>1 DEF Ask
<1>2. CASE Answer
  <2>1. verdict' \in BOOLEAN
    BY <1>2, ReachableType, Zenon DEF Answer
  <2> QED
    BY <1>2, <2>1 DEF Answer
<1>3. CASE Store BY <1>3 DEF Store
<1>4. CASE Mark BY <1>4 DEF Mark
<1>5. CASE SelectTick BY <1>5 DEF SelectTick
<1>6. CASE SelectDone BY <1>6 DEF SelectDone
<1>7. CASE Advance
  <2>1. tick' \in BOOLEAN
    BY <1>7, Zenon DEF Advance
  <2>2. asked' \in Nat /\ phase' \in Nat /\ steadyFor' \in Nat
    BY <1>7 DEF Advance
  <2> QED
    BY <1>7, <2>1, <2>2 DEF Advance
<1>8. CASE UpstreamChanges
  BY <1>8 DEF UpstreamChanges
<1>9. CASE Cancel BY <1>9 DEF Cancel
<1>10. CASE UNCHANGED pollerVars BY <1>10 DEF pollerVars
<1> QED
  BY <1>1, <1>2, <1>3, <1>4, <1>5, <1>6, <1>7, <1>8, <1>9, <1>10 DEF PollerNext, Poller

\* Pointer and gauge move together except inside store().
LEMMA GaugeStep == PollerInv /\ PollerTypeInv' /\ [PollerNext]_pollerVars => GaugeInv'
<1> SUFFICES ASSUME PollerInv, PollerTypeInv', [PollerNext]_pollerVars PROVE GaugeInv'
  OBVIOUS
<1> USE DEF PollerInv, PollerTypeInv, GaugeInv
<1>1. CASE Ask BY <1>1 DEF Ask
<1>2. CASE Answer
  <2>1. health' = health /\ gauge' = gauge /\ pollPc = "asking" /\ pollPc' = "store"
    BY <1>2, Zenon DEF Answer
  <2> QED
    BY <2>1
<1>3. CASE Store BY <1>3 DEF Store
<1>4. CASE Mark BY <1>4 DEF Mark
<1>5. CASE SelectTick BY <1>5 DEF SelectTick
<1>6. CASE SelectDone BY <1>6 DEF SelectDone
<1>7. CASE Advance BY <1>7 DEF Advance
<1>8. CASE UpstreamChanges BY <1>8 DEF UpstreamChanges
<1>9. CASE Cancel BY <1>9 DEF Cancel
<1>10. CASE UNCHANGED pollerVars BY <1>10 DEF pollerVars
<1> QED
  BY <1>1, <1>2, <1>3, <1>4, <1>5, <1>6, <1>7, <1>8, <1>9, <1>10 DEF PollerNext, Poller

\* The ticker and the client's timeout stay within their periods.
LEMMA ClockStep == PollerInv /\ PollerTypeInv' /\ [PollerNext]_pollerVars => ClockInv'
<1> SUFFICES ASSUME PollerInv, PollerTypeInv', [PollerNext]_pollerVars PROVE ClockInv'
  OBVIOUS
<1> USE TimeAssumption DEF PollerInv, PollerTypeInv, ClockInv
<1>1. CASE Ask BY <1>1 DEF Ask
<1>2. CASE Answer
  <2>1. phase' = phase /\ asked' = asked
    BY <1>2, Zenon DEF Answer
  <2> QED
    BY <2>1
<1>3. CASE Store BY <1>3 DEF Store
<1>4. CASE Mark BY <1>4 DEF Mark
<1>5. CASE SelectTick BY <1>5 DEF SelectTick
<1>6. CASE SelectDone BY <1>6 DEF SelectDone
<1>7. CASE Advance BY <1>7 DEF Advance, Waiting
<1>8. CASE UpstreamChanges BY <1>8 DEF UpstreamChanges
<1>9. CASE Cancel BY <1>9 DEF Cancel
<1>10. CASE UNCHANGED pollerVars BY <1>10 DEF pollerVars
<1> QED
  BY <1>1, <1>2, <1>3, <1>4, <1>5, <1>6, <1>7, <1>8, <1>9, <1>10 DEF PollerNext, Poller

\* A wrong report ages only while the goroutine waits, and a poll ends that.
LEMMA StaleStep == PollerInv /\ PollerTypeInv' /\ [PollerNext]_pollerVars => StaleInv'
<1> SUFFICES ASSUME PollerInv, PollerTypeInv', [PollerNext]_pollerVars, ~cancelled' PROVE StaleInv'
  BY DEF StaleInv
<1>0. ~cancelled \/ Cancel
  BY Zenon DEF PollerNext, Poller, Ask, Answer, Store, Mark, SelectTick, SelectDone, Advance, UpstreamChanges, pollerVars
<1> USE TimeAssumption DEF PollerInv, PollerTypeInv, GaugeInv, ClockInv, StaleInv, Current
<1>1. CASE Ask BY <1>0, <1>1 DEF Ask, Cancel
<1>2. CASE Answer
  <2>1. /\ upstream' = upstream /\ steadyFor' = steadyFor /\ pollPc = "asking" /\ pollPc' = "store"
        /\ health' = health /\ asked' = asked /\ ~cancelled
    BY <1>2, Zenon DEF Answer
  <2>2. verdict' = Reachable(upstream)
    BY <1>2, <2>1, Zenon DEF Answer, Reachable
  <2> QED
    BY <2>1, <2>2 DEF Reachable
<1>3. CASE Store BY <1>0, <1>3 DEF Store, Cancel
<1>4. CASE Mark BY <1>0, <1>4 DEF Mark, Cancel
<1>5. CASE SelectTick BY <1>0, <1>5 DEF SelectTick, Cancel
<1>6. CASE SelectDone BY <1>6 DEF SelectDone
<1>7. CASE Advance
  BY <1>7 DEF Advance, Waiting
<1>8. CASE UpstreamChanges
  BY <1>8 DEF UpstreamChanges
<1>9. CASE Cancel BY <1>9 DEF Cancel
<1>10. CASE UNCHANGED pollerVars BY <1>10 DEF pollerVars
<1> QED
  BY <1>1, <1>2, <1>3, <1>4, <1>5, <1>6, <1>7, <1>8, <1>9, <1>10 DEF PollerNext, Poller

-----------------------------------------------------------------------------
\* The inductive invariant holds in every reachable state.
THEOREM PollerInvariance == PollerSpec => []PollerInv
<1>1. PollerInit => PollerInv
  <2> SUFFICES ASSUME PollerInit PROVE PollerInv
    OBVIOUS
  <2>1. tick \in BOOLEAN /\ verdict \in BOOLEAN /\ cancelled \in BOOLEAN
    BY Zenon DEF PollerInit
  <2> QED
    BY <2>1, TimeAssumption DEF PollerInit, PollerInv, PollerTypeInv, GaugeInv, StaleInv, ClockInv, Current
<1>2. PollerInv /\ [PollerNext]_pollerVars => PollerInv'
  BY PollerTypeStep, GaugeStep, ClockStep, StaleStep DEF PollerInv
<1> QED
  BY <1>1, <1>2, PTL DEF PollerSpec

\* Poller.store and the OnPoll callback: /health and the gauge can be seen
\* apart only between the two stores.
THEOREM ReadersAgreeHolds == PollerSpec => []ReadersAgree
<1>1. PollerInv => ReadersAgree
  BY DEF PollerInv, PollerTypeInv, GaugeInv, ReadersAgree, Report
<1> QED
  BY <1>1, PollerInvariance, PTL

\* Poller.Run: with any interval and any timeout, the longer one on either
\* side, a lasting change of bitcoind's health is reported within their sum.
THEOREM FreshHolds == PollerSpec => []Fresh
<1>1. PollerInv => Fresh
  <2> SUFFICES ASSUME PollerInv, steadyFor > Bound, ~cancelled
               PROVE Report = IF Reachable(upstream) THEN "ok" ELSE "degraded"
    BY DEF Fresh
  <2>1. Current
    BY TimeAssumption DEF PollerInv, PollerTypeInv, StaleInv, ClockInv, Bound, Current
  <2> QED
    BY <2>1 DEF Current, Report, PollerInv, PollerTypeInv
<1> QED
  BY <1>1, PollerInvariance, PTL

\* ProxyLifecycle takes the poller for a goroutine that ends only once its
\* context is cancelled, and for good; this is what Poller.Run does.
THEOREM PollerEndsOnce ==
  PollerSpec => /\ [](pollPc = "stopped" => cancelled)
                /\ [][pollPc = "stopped" => pollPc' = "stopped"]_pollerVars
<1>1. PollerInv => (pollPc = "stopped" => cancelled)
  BY DEF PollerInv, StaleInv
<1>2. [PollerNext]_pollerVars => [pollPc = "stopped" => pollPc' = "stopped"]_pollerVars
  BY DEF PollerNext, Poller, Ask, Answer, Store, Mark, SelectTick, SelectDone, Advance, UpstreamChanges, Cancel,
     pollerVars
<1> QED
  BY <1>1, <1>2, PollerInvariance, PTL DEF PollerSpec

-----------------------------------------------------------------------------
(* App.Run.                                                                *)

Shutdown == {"closeMain", "drainMain", "closeAdmin", "drainAdmin"}
Labels == {"select", "collect", "endPoller", "wait", "returned"} \cup Shutdown

TypeInv ==
    /\ start \in [Servers -> {"new", "bound", "serving", "returned"}]
    /\ closing \in [Servers -> BOOLEAN]
    /\ conns \in [Servers -> Nat]
    /\ failed \in SUBSET Servers
    /\ errCh \in Seq({"error", "nil"})
    /\ pc \in Labels
    /\ consumed \in Nat
    /\ signalled \in BOOLEAN /\ startErr \in BOOLEAN /\ shutdownErr \in BOOLEAN /\ expired \in BOOLEAN
    /\ poller \in {"running", "cancelled", "stopped"}

HasError(results) == \E i \in 1..Len(results) : results[i] = "error"

Sent(s) == IF start[s] = "returned" THEN 1 ELSE 0

\* Each Start sends one result, and no error among them is lost.
ResultInv ==
    /\ consumed + Len(errCh) = Sent("main") + Sent("admin")
    /\ failed # {} <=> startErr \/ HasError(errCh)
    /\ pc = "select" => consumed = 0 /\ ~startErr
    /\ pc \in {"endPoller", "wait", "returned"} => consumed = serverCount

\* A server that was drained takes no more requests, and is empty unless
\* Shutdown said otherwise.
DrainInv ==
    /\ pc \in Labels \ {"select", "closeMain"} => closing["main"]
    /\ pc \in Labels \ {"select", "closeMain", "drainMain", "closeAdmin"} => closing["admin"]
    /\ pc \in Labels \ {"select", "closeMain", "drainMain"} /\ ~shutdownErr => conns["main"] = 0
    /\ pc \in Labels \ ({"select"} \cup Shutdown) /\ ~shutdownErr => conns["admin"] = 0

EndedInv == pc = "returned" => poller = "stopped"

IInv == TypeInv /\ ResultInv /\ DrainInv /\ EndedInv

-----------------------------------------------------------------------------
\* Every step keeps each variable in its type.
LEMMA TypeStep == TypeInv /\ [Next]_vars => TypeInv'
<1> SUFFICES ASSUME TypeInv, [Next]_vars PROVE TypeInv'
  OBVIOUS
<1> USE DEF TypeInv, Servers, Labels, Shutdown, servers, run
<1>1. ASSUME NEW s \in Servers, Listen(s) PROVE TypeInv'
  <2>1. CASE StartReturns(s, "error")
    BY <2>1 DEF StartReturns
  <2>2. CASE ~StartReturns(s, "error")
    BY <1>1, <2>2 DEF Listen
  <2> QED
    BY <2>1, <2>2
<1>2. ASSUME NEW s \in Servers, ServeClosed(s) PROVE TypeInv'
  BY <1>2 DEF ServeClosed, StartReturns
<1>3. ASSUME NEW s \in Servers, Serve(s) PROVE TypeInv'
  BY <1>3 DEF Serve
<1>4. ASSUME NEW s \in Servers, ServeFails(s) PROVE TypeInv'
  BY <1>4 DEF ServeFails, StartReturns
<1>5. ASSUME NEW s \in Servers, RequestArrives(s) PROVE TypeInv'
  BY <1>5 DEF RequestArrives
<1>6. ASSUME NEW s \in Servers, RequestEnds(s) PROVE TypeInv'
  BY <1>6 DEF RequestEnds
<1>7. CASE Signal BY <1>7 DEF Signal
<1>8. CASE PollerStops BY <1>8 DEF PollerStops
<1>9. CASE SelectError BY <1>9 DEF SelectError
<1>10. CASE SelectSignal BY <1>10 DEF SelectSignal
<1>11. CASE CloseMain BY <1>11 DEF CloseMain, Close
<1>12. CASE DrainMain BY <1>12 DEF DrainMain, Drain
<1>13. CASE CloseAdmin BY <1>13 DEF CloseAdmin, Close
<1>14. CASE DrainAdmin BY <1>14 DEF DrainAdmin, Drain
<1>15. CASE DeadlinePasses BY <1>15 DEF DeadlinePasses
<1>16. CASE Collect
  <2>1. startErr' \in BOOLEAN
    BY <1>16, Zenon DEF Collect
  <2>2. \/ errCh # <<>> /\ errCh' = Tail(errCh) /\ consumed' = consumed + 1 /\ pc' = pc
        \/ pc' = "endPoller" /\ errCh' = errCh /\ consumed' = consumed
    BY <1>16, Zenon DEF Collect
  <2>3. errCh # <<>> => Tail(errCh) \in Seq({"error", "nil"})
    OBVIOUS
  <2>4. errCh' \in Seq({"error", "nil"})
    BY <2>2, <2>3, Zenon
  <2>5. consumed' \in Nat /\ pc' \in Labels
    BY <2>2
  <2> QED
    BY <1>16, <2>1, <2>4, <2>5 DEF Collect
<1>17. CASE EndPoller BY <1>17 DEF EndPoller
<1>18. CASE WaitPoller BY <1>18 DEF WaitPoller
<1>19. CASE Done \/ UNCHANGED vars BY <1>19 DEF Done, vars
<1> QED
  BY <1>1, <1>2, <1>3, <1>4, <1>5, <1>6, <1>7, <1>8, <1>9, <1>10, <1>11, <1>12, <1>13, <1>14, <1>15,
     <1>16, <1>17, <1>18, <1>19 DEF Next, RunStep, StartStep

\* What the channel holds after a send and after a receive.
LEMMA SendError ==
  ASSUME NEW results \in Seq({"error", "nil"}), NEW outcome \in {"error", "nil"}
  PROVE  /\ Append(results, outcome) \in Seq({"error", "nil"})
         /\ Len(Append(results, outcome)) = Len(results) + 1
         /\ HasError(Append(results, outcome)) <=> HasError(results) \/ outcome = "error"
BY DEF HasError

\* Receiving a result takes the first of the channel.
LEMMA ReceiveError ==
  ASSUME NEW results \in Seq({"error", "nil"}), results # <<>>
  PROVE  /\ Len(Tail(results)) = Len(results) - 1
         /\ HasError(results) <=> Head(results) = "error" \/ HasError(Tail(results))
<1>1. Len(Tail(results)) = Len(results) - 1
  OBVIOUS
<1>2. \A i \in 1..Len(Tail(results)) : Tail(results)[i] = results[i + 1]
  OBVIOUS
<1>3. ASSUME HasError(results) PROVE Head(results) = "error" \/ HasError(Tail(results))
  <2>1. PICK i \in 1..Len(results) : results[i] = "error"
    BY <1>3 DEF HasError
  <2>2. CASE i = 1
    BY <2>1, <2>2
  <2>3. CASE i # 1
    <3>1. i - 1 \in 1..Len(Tail(results)) /\ Tail(results)[i - 1] = "error"
      BY <1>1, <1>2, <2>1, <2>3
    <3> QED
      BY <3>1 DEF HasError
  <2> QED
    BY <2>2, <2>3
<1>4. ASSUME HasError(Tail(results)) PROVE HasError(results)
  <2>1. PICK i \in 1..Len(Tail(results)) : Tail(results)[i] = "error"
    BY <1>4 DEF HasError
  <2>2. i + 1 \in 1..Len(results) /\ results[i + 1] = "error"
    BY <1>1, <1>2, <2>1
  <2> QED
    BY <2>2 DEF HasError
<1>5. Head(results) = "error" => HasError(results)
  BY DEF HasError
<1> QED
  BY <1>1, <1>3, <1>4, <1>5

\* StartReturns accounts for the result that it sends.
LEMMA StartReturnsResult ==
  ASSUME IInv, NEW s \in Servers, NEW outcome \in {"error", "nil"}, start[s] # "returned",
         StartReturns(s, outcome)
  PROVE  ResultInv'
<1>1. /\ start' = [start EXCEPT ![s] = "returned"]
      /\ errCh' = Append(errCh, outcome)
      /\ failed' = IF outcome = "error" THEN failed \cup {s} ELSE failed
      /\ pc' = pc /\ consumed' = consumed /\ startErr' = startErr
  BY DEF StartReturns, run
<1>2. Sent("main")' + Sent("admin")' = Sent("main") + Sent("admin") + 1
  BY <1>1 DEF Sent, IInv, TypeInv, Servers
<1>3. /\ Len(errCh') = Len(errCh) + 1
      /\ HasError(errCh') <=> HasError(errCh) \/ outcome = "error"
  BY <1>1, SendError DEF IInv, TypeInv
<1>4. consumed' + Len(errCh') = Sent("main")' + Sent("admin")'
  BY <1>1, <1>2, <1>3 DEF IInv, TypeInv, ResultInv, Sent
<1>5. failed' # {} <=> startErr' \/ HasError(errCh')
  BY <1>1, <1>3, Zenon DEF IInv, ResultInv
<1> QED
  BY <1>1, <1>4, <1>5 DEF IInv, ResultInv

\* No result is lost, and none is read twice.
LEMMA ResultStep == IInv /\ [Next]_vars => ResultInv'
<1> SUFFICES ASSUME IInv, [Next]_vars PROVE ResultInv'
  OBVIOUS
<1>1. ASSUME NEW s \in Servers, Listen(s) PROVE ResultInv'
  <2>1. CASE StartReturns(s, "error")
    BY <1>1, <2>1, StartReturnsResult DEF Listen
  <2>2. CASE ~StartReturns(s, "error")
    BY <1>1, <2>2 DEF Listen, IInv, TypeInv, ResultInv, Sent, Servers, run
  <2> QED
    BY <2>1, <2>2
<1>2. ASSUME NEW s \in Servers, ServeClosed(s) PROVE ResultInv'
  BY <1>2, StartReturnsResult DEF ServeClosed
<1>3. ASSUME NEW s \in Servers, ServeFails(s) PROVE ResultInv'
  BY <1>3, StartReturnsResult DEF ServeFails
<1>4. ASSUME NEW s \in Servers, Serve(s) PROVE ResultInv'
  BY <1>4 DEF Serve, IInv, TypeInv, ResultInv, Sent, Servers, run
<1>5. CASE SelectError
  <2>1. /\ Len(errCh') = Len(errCh) - 1
        /\ HasError(errCh) <=> startErr' \/ HasError(errCh')
    BY <1>5, ReceiveError DEF SelectError, IInv, TypeInv
  <2>2. consumed = 0 /\ consumed' = 1 /\ ~startErr /\ pc' = "closeMain" /\ start' = start /\ failed' = failed
    BY <1>5 DEF SelectError, IInv, ResultInv, servers
  <2>3. consumed' + Len(errCh') = Sent("main")' + Sent("admin")'
    BY <2>1, <2>2 DEF IInv, TypeInv, ResultInv, Sent
  <2>4. failed' # {} <=> startErr' \/ HasError(errCh')
    BY <2>1, <2>2, Zenon DEF IInv, ResultInv
  <2> QED
    BY <2>2, <2>3, <2>4 DEF ResultInv
<1>6. CASE Collect
  <2>1. CASE consumed < serverCount
    <3>1. /\ Len(errCh') = Len(errCh) - 1
          /\ HasError(errCh) <=> Head(errCh) = "error" \/ HasError(errCh')
      BY <1>6, <2>1, ReceiveError DEF Collect, IInv, TypeInv
    <3>2. /\ consumed' = consumed + 1 /\ pc = "collect" /\ pc' = pc
          /\ startErr' = (startErr \/ Head(errCh) = "error")
          /\ start' = start /\ failed' = failed
      BY <1>6, <2>1 DEF Collect, servers
    <3>3. consumed' + Len(errCh') = Sent("main")' + Sent("admin")'
      BY <3>1, <3>2 DEF IInv, TypeInv, ResultInv, Sent
    <3>4. failed' # {} <=> startErr' \/ HasError(errCh')
      BY <3>1, <3>2, Zenon DEF IInv, ResultInv
    <3> QED
      BY <3>2, <3>3, <3>4 DEF ResultInv
  <2>2. CASE ~(consumed < serverCount)
    <3>1. consumed <= 2
      BY DEF IInv, TypeInv, ResultInv, Sent
    <3> QED
      BY <1>6, <2>2, <3>1 DEF Collect, IInv, TypeInv, ResultInv, Sent, serverCount, servers
  <2> QED
    BY <2>1, <2>2
<1>7. CASE UNCHANGED <<start, failed, errCh, consumed, startErr>> /\ (pc' = pc \/ pc' \in Shutdown \cup {"collect"})
  BY <1>7 DEF IInv, ResultInv, Sent, Shutdown
<1>8. CASE EndPoller \/ WaitPoller
  BY <1>8 DEF EndPoller, WaitPoller, IInv, ResultInv, Sent, servers
<1>9. ASSUME NEW s \in Servers, RequestArrives(s) \/ RequestEnds(s) PROVE ResultInv'
  BY <1>7, <1>9 DEF RequestArrives, RequestEnds, run
<1>10. CASE Signal \/ PollerStops \/ SelectSignal \/ DeadlinePasses \/ Done \/ UNCHANGED vars
  BY <1>7, <1>10 DEF Signal, PollerStops, SelectSignal, DeadlinePasses, Done, vars, servers, run, Shutdown
<1>11. CASE CloseMain \/ DrainMain \/ CloseAdmin \/ DrainAdmin
  BY <1>7, <1>11 DEF CloseMain, DrainMain, CloseAdmin, DrainAdmin, Close, Drain, servers, Shutdown
<1> QED
  BY <1>1, <1>2, <1>3, <1>4, <1>5, <1>6, <1>8, <1>9, <1>10, <1>11 DEF Next, RunStep, StartStep

\* Once a server was asked to shut down it only gets emptier.
LEMMA DrainStep == IInv /\ TypeInv' /\ [Next]_vars => DrainInv'
<1> SUFFICES ASSUME IInv, TypeInv', [Next]_vars PROVE DrainInv'
  OBVIOUS
<1> USE DEF IInv, TypeInv, DrainInv, Servers, Labels, Shutdown, servers, run
<1>1. ASSUME NEW s \in Servers, Listen(s) \/ ServeClosed(s) \/ Serve(s) \/ ServeFails(s) PROVE DrainInv'
  <2>1. UNCHANGED <<closing, conns, pc, shutdownErr>>
    BY <1>1 DEF Listen, ServeClosed, Serve, ServeFails, StartReturns
  <2> QED
    BY <2>1
<1>2. ASSUME NEW s \in Servers, RequestArrives(s) PROVE DrainInv'
  BY <1>2 DEF RequestArrives
<1>3. ASSUME NEW s \in Servers, RequestEnds(s) PROVE DrainInv'
  BY <1>3 DEF RequestEnds
<1>4. CASE Signal \/ PollerStops \/ DeadlinePasses \/ Done \/ UNCHANGED vars
  <2>1. UNCHANGED <<closing, conns, pc, shutdownErr>>
    BY <1>4 DEF Signal, PollerStops, DeadlinePasses, Done, vars
  <2> QED
    BY <2>1
<1>5. CASE SelectError BY <1>5 DEF SelectError
<1>6. CASE SelectSignal BY <1>6 DEF SelectSignal
<1>7. CASE CloseMain BY <1>7 DEF CloseMain, Close
<1>8. CASE DrainMain BY <1>8 DEF DrainMain, Drain
<1>9. CASE CloseAdmin BY <1>9 DEF CloseAdmin, Close
<1>10. CASE DrainAdmin BY <1>10 DEF DrainAdmin, Drain
<1>11. CASE Collect BY <1>11 DEF Collect
<1>12. CASE EndPoller BY <1>12 DEF EndPoller
<1>13. CASE WaitPoller BY <1>13 DEF WaitPoller
<1> QED
  BY <1>1, <1>2, <1>3, <1>4, <1>5, <1>6, <1>7, <1>8, <1>9, <1>10, <1>11, <1>12, <1>13
     DEF Next, RunStep, StartStep

\* Run returns only after the poller has stopped, and it does not start again.
LEMMA EndedStep == IInv /\ [Next]_vars => EndedInv'
<1> SUFFICES ASSUME IInv, [Next]_vars PROVE EndedInv'
  OBVIOUS
<1> USE DEF IInv, EndedInv, run
<1>1. CASE UNCHANGED <<pc, poller>>
  BY <1>1
<1>2. CASE RunStep
  BY <1>2 DEF RunStep, SelectError, SelectSignal, CloseMain, DrainMain, CloseAdmin, DrainAdmin,
     Close, Drain, Collect, EndPoller, WaitPoller
<1>3. CASE PollerStops
  BY <1>3 DEF PollerStops
<1>4. CASE Signal \/ DeadlinePasses \/ Done \/ UNCHANGED vars
  BY <1>1, <1>4 DEF Signal, DeadlinePasses, Done, vars
<1>5. ASSUME NEW s \in Servers, StartStep(s) \/ ServeFails(s) \/ RequestArrives(s) \/ RequestEnds(s)
      PROVE EndedInv'
  BY <1>1, <1>5 DEF StartStep, Listen, Serve, ServeClosed, ServeFails, StartReturns, RequestArrives, RequestEnds
<1> QED
  BY <1>2, <1>3, <1>4, <1>5 DEF Next

-----------------------------------------------------------------------------
\* The inductive invariant holds in every reachable state.
THEOREM Invariance == Spec => []IInv
<1>1. Init => IInv
  <2> SUFFICES ASSUME Init PROVE IInv
    OBVIOUS
  <2>1. signalled \in BOOLEAN /\ startErr \in BOOLEAN /\ shutdownErr \in BOOLEAN /\ expired \in BOOLEAN
    BY Zenon DEF Init
  <2>2. TypeInv
    BY <2>1 DEF Init, TypeInv, Servers, Labels
  <2>3. ResultInv
    BY DEF Init, ResultInv, Sent, HasError, Servers
  <2> QED
    BY <2>2, <2>3 DEF Init, IInv, DrainInv, EndedInv, Labels, Shutdown
<1>2. IInv /\ [Next]_vars => IInv'
  BY TypeStep, ResultStep, DrainStep, EndedStep DEF IInv
<1> QED
  BY <1>1, <1>2, PTL DEF Spec

\* App.Run, from the errCh receive loop to the joined error: whatever fails
\* first, and however late the other server stops, Run reports an error exactly
\* if there was one.
THEOREM ErrorsReportedHolds == Spec => []ErrorsReported
<1>1. IInv => ErrorsReported
  <2> SUFFICES ASSUME IInv, pc = "returned" PROVE ErrorsReported
    BY DEF ErrorsReported
  <2>1. Len(errCh) = 0
    BY DEF IInv, TypeInv, ResultInv, Sent, serverCount
  <2>2. startErr <=> failed # {}
    BY <2>1 DEF IInv, ResultInv, HasError
  <2>3. ~shutdownErr => \A s \in Servers : conns[s] = 0
    BY DEF IInv, DrainInv, Servers, Labels, Shutdown
  <2> QED
    BY <2>2, <2>3 DEF ErrorsReported
<1> QED
  BY <1>1, Invariance, PTL

\* App.Run leaves no goroutine and no unread result behind: both Start calls
\* have returned and the poller has ended.
THEOREM NothingLeftRunningHolds == Spec => []NothingLeftRunning
<1>1. IInv => NothingLeftRunning
  <2> SUFFICES ASSUME IInv, pc = "returned" PROVE NothingLeftRunning
    BY DEF NothingLeftRunning
  <2>1. Len(errCh) = 0 /\ start["main"] = "returned" /\ start["admin"] = "returned"
    BY DEF IInv, TypeInv, ResultInv, Sent, serverCount
  <2>2. errCh = <<>>
    BY <2>1 DEF IInv, TypeInv
  <2> QED
    BY <2>1, <2>2 DEF NothingLeftRunning, IInv, EndedInv, Servers
<1> QED
  BY <1>1, Invariance, PTL
==============================================================================
