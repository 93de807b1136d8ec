----------------------- MODULE CharmLifecycle_proofs -----------------------
(***************************************************************************)
(* Proofs about the charm's event handlers.  A handler is a list of        *)
(* commands that ends with the status check, and what it has left to do is *)
(* a suffix of that list (TodoInv); so the command at its head says how    *)
(* far it is.  On top of that, StopInv says which services are stopped for *)
(* good, SeenInv and CheckInv what the status check knows by then.         *)
(* StoppedInv then says that what was stopped is down as long as nobody    *)
(* asks for a start: no command that a handler has left could start it.    *)
(***************************************************************************)
EXTENDS CharmLifecycle, SequenceTheorems, TLAPS

AllEvents == Hooks \cup Actions \cup {"update-status"}
Stopping == {"stop", "stop-node"}
HostCommands ==
    {"install node", "install proxy", "apply", "start node", "start monitor", "start proxy",
     "restart proxy", "stop node", "stop monitor", "stop proxy", "maintenance"}
CheckNames == {"binaries", "see node", "see monitor", "see proxy", "readiness", "metadata"}
Names == HostCommands \cup CheckNames

TypeInv ==
    /\ handler \in AllEvents \cup {"none"}
    /\ todo \in Seq(Names)
    /\ seen \subseteq Services
    /\ svc \in [Services -> {"up", "down", "waiting"}]
    /\ rpc \in BOOLEAN /\ collector \in BOOLEAN
    /\ steady \in BOOLEAN /\ raced \in BOOLEAN

\* The sequence t is the end of the list h.
EndOf(t, h) ==
    /\ Len(t) <= Len(h)
    /\ \A i \in 1..Len(t) : t[i] = h[(Len(h) - Len(t)) + i]

\* What is left to do is the end of the handler's list.
TodoInv ==
    /\ handler = "none" => todo = <<>>
    /\ todo # <<>> => EndOf(todo, Handler(handler))

-----------------------------------------------------------------------------
(* The handlers' lists.                                                    *)

\* The indices of the status check, one by one.
LEMMA UpToSix == \A i \in 1..6 : i = 1 \/ i = 2 \/ i = 3 \/ i = 4 \/ i = 5 \/ i = 6
OBVIOUS

\* The steps of _update_status by their place.
LEMMA UpdateStatusIs ==
  /\ UpdateStatus \in Seq(Names) /\ Len(UpdateStatus) = 6
  /\ UpdateStatus[1] = "binaries" /\ UpdateStatus[2] = "see node" /\ UpdateStatus[3] = "see monitor"
  /\ UpdateStatus[4] = "see proxy" /\ UpdateStatus[5] = "readiness" /\ UpdateStatus[6] = "metadata"
<1>1. Len(UpdateStatus) = 6 /\ UpdateStatus = [i \in 1..6 |-> UpdateStatus[i]]
  BY DEF UpdateStatus
<1>2. /\ UpdateStatus[1] = "binaries" /\ UpdateStatus[2] = "see node" /\ UpdateStatus[3] = "see monitor"
      /\ UpdateStatus[4] = "see proxy" /\ UpdateStatus[5] = "readiness" /\ UpdateStatus[6] = "metadata"
  BY DEF UpdateStatus
<1>3. \A i \in 1..6 : UpdateStatus[i] \in Names
  BY <1>2, UpToSix DEF Names, CheckNames
<1>4. UpdateStatus \in Seq(Names)
  BY <1>1, <1>3
<1> QED
  BY <1>1, <1>2, <1>4

\* The steps of _update_status as a set.
LEMMA ChecksAre == Checks = CheckNames
<1>1. DOMAIN UpdateStatus = 1..6
  BY DEF UpdateStatus
<1>2. Checks = {UpdateStatus[i] : i \in 1..6}
  BY <1>1 DEF Checks
<1>3. \A i \in 1..6 : UpdateStatus[i] \in CheckNames
  BY UpdateStatusIs, UpToSix DEF CheckNames
<1>4. ASSUME NEW c \in CheckNames PROVE \E i \in 1..6 : c = UpdateStatus[i]
  <2>1. 1 \in 1..6 /\ 2 \in 1..6 /\ 3 \in 1..6 /\ 4 \in 1..6 /\ 5 \in 1..6 /\ 6 \in 1..6
    OBVIOUS
  <2> QED
    BY <2>1, UpdateStatusIs DEF CheckNames
<1> QED
  BY <1>2, <1>3, <1>4

\* A list of commands followed by the status check.
LEMMA Prefixed ==
  ASSUME NEW p \in Seq(Names), NEW h, h = p \o UpdateStatus
  PROVE  /\ h \in Seq(Names) /\ Len(h) = Len(p) + 6
         /\ \A i \in 1..Len(p) : h[i] = p[i]
         /\ \A i \in 1..6 : h[Len(p) + i] = UpdateStatus[i]
<1>1. Len(p) \in Nat
  OBVIOUS
<1>2. /\ h \in Seq(Names) /\ Len(h) = Len(p) + Len(UpdateStatus)
      /\ \A i \in 1..(Len(p) + Len(UpdateStatus)) : h[i] = IF i <= Len(p) THEN p[i] ELSE UpdateStatus[i - Len(p)]
  BY ConcatProperties, UpdateStatusIs, Zenon
<1>3. \A i \in 1..Len(p) : h[i] = p[i]
  <2> TAKE i \in 1..Len(p)
  <2>1. i \in 1..(Len(p) + 6) /\ i <= Len(p)
    BY <1>1
  <2> QED
    BY <1>2, <2>1, UpdateStatusIs
<1>4. \A i \in 1..6 : h[Len(p) + i] = UpdateStatus[i]
  <2> TAKE i \in 1..6
  <2>1. Len(p) + i \in 1..(Len(p) + 6) /\ ~(Len(p) + i <= Len(p)) /\ (Len(p) + i) - Len(p) = i
    BY <1>1
  <2> QED
    BY <1>2, <2>1, UpdateStatusIs
<1> QED
  BY <1>2, <1>3, <1>4, UpdateStatusIs

\* h consists of host commands and, after them, the status check.
ChecksLast(h) ==
    /\ h \in Seq(Names) /\ Len(h) >= 6
    /\ \A i \in 1..(Len(h) - 6) : h[i] \in HostCommands
    /\ \A i \in 1..6 : h[(Len(h) - 6) + i] = UpdateStatus[i]

\* A list of host commands followed by the status check has that shape.
LEMMA PrefixedEnds ==
  ASSUME NEW p \in Seq(HostCommands), NEW h, h = p \o UpdateStatus
  PROVE  ChecksLast(h) /\ Len(h) = Len(p) + 6 /\ \A i \in 1..Len(p) : h[i] = p[i]
<1>1. p \in Seq(Names) /\ Len(p) \in Nat /\ \A i \in 1..Len(p) : p[i] \in HostCommands
  BY DEF Names
<1>2. /\ h \in Seq(Names) /\ Len(h) = Len(p) + 6
      /\ \A i \in 1..Len(p) : h[i] = p[i]
      /\ \A i \in 1..6 : h[Len(p) + i] = UpdateStatus[i]
  BY <1>1, Prefixed
<1>3. Len(h) >= 6 /\ Len(h) - 6 = Len(p)
  BY <1>1, <1>2
<1> QED
  BY <1>1, <1>2, <1>3 DEF ChecksLast

\* Every handler but install and the reporting actions ends with the status check.
LEMMA HandlerShape ==
  ASSUME NEW e \in AllEvents
  PROVE  \/ e = "install" /\ Handler(e) = <<"install node", "install proxy">>
         \/ e = "report" /\ Handler(e) = <<>>
         \/ e \notin {"install", "report"} /\ ChecksLast(Handler(e))
<1>1. CASE e = "install"
  BY <1>1 DEF Handler
<1>2. CASE e = "report"
  BY <1>2 DEF Handler
<1>3. CASE e = "config-changed"
  <2>1. Handler(e) = <<"apply">> \o UpdateStatus
    BY <1>3 DEF Handler
  <2>2. <<"apply">> \in Seq(HostCommands)
    BY DEF HostCommands
  <2> QED
    BY <1>3, <2>1, <2>2, PrefixedEnds
<1>4. CASE e = "start"
  <2>1. Handler(e) = <<"start node", "start monitor", "start proxy">> \o UpdateStatus
    BY <1>4 DEF Handler
  <2>2. <<"start node", "start monitor", "start proxy">> \in Seq(HostCommands)
    BY DEF HostCommands
  <2> QED
    BY <1>4, <2>1, <2>2, PrefixedEnds
<1>5. CASE e = "stop"
  <2>1. Handler(e) = <<"stop node", "stop monitor", "stop proxy">> \o UpdateStatus
    BY <1>5 DEF Handler
  <2>2. <<"stop node", "stop monitor", "stop proxy">> \in Seq(HostCommands)
    BY DEF HostCommands
  <2> QED
    BY <1>5, <2>1, <2>2, PrefixedEnds
<1>6. CASE e \in {"upgrade-charm", "update-status"}
  <2>1. Handler(e) = UpdateStatus
    BY <1>6 DEF Handler
  <2>2. UpdateStatus \in Seq(Names) /\ Len(UpdateStatus) = 6
    BY UpdateStatusIs
  <2>3. /\ \A i \in 1..(Len(UpdateStatus) - 6) : UpdateStatus[i] \in HostCommands
        /\ \A i \in 1..6 : (Len(UpdateStatus) - 6) + i = i
    BY <2>2
  <2>4. ChecksLast(UpdateStatus)
    BY <2>2, <2>3 DEF ChecksLast
  <2> QED
    BY <1>6, <2>1, <2>4
<1>7. CASE e = "restart-node"
  <2>1. Handler(e) = <<"maintenance", "stop node", "start node", "restart proxy">> \o UpdateStatus
    BY <1>7 DEF Handler
  <2>2. <<"maintenance", "stop node", "start node", "restart proxy">> \in Seq(HostCommands)
    BY DEF HostCommands
  <2> QED
    BY <1>7, <2>1, <2>2, PrefixedEnds
<1>8. CASE e = "start-node"
  <2>1. Handler(e) = <<"maintenance", "start node", "start monitor", "start proxy">> \o UpdateStatus
    BY <1>8 DEF Handler
  <2>2. <<"maintenance", "start node", "start monitor", "start proxy">> \in Seq(HostCommands)
    BY DEF HostCommands
  <2> QED
    BY <1>8, <2>1, <2>2, PrefixedEnds
<1>9. CASE e = "stop-node"
  <2>1. Handler(e) = <<"maintenance", "stop monitor", "stop node", "stop proxy">> \o UpdateStatus
    BY <1>9 DEF Handler
  <2>2. <<"maintenance", "stop monitor", "stop node", "stop proxy">> \in Seq(HostCommands)
    BY DEF HostCommands
  <2> QED
    BY <1>9, <2>1, <2>2, PrefixedEnds
<1> QED
  BY <1>1, <1>2, <1>3, <1>4, <1>5, <1>6, <1>7, <1>8, <1>9 DEF AllEvents, Hooks, Actions

\* The lists of the two handlers that stop everything.
LEMMA StopLists ==
  /\ LET h == Handler("stop") IN
       ChecksLast(h) /\ Len(h) = 9 /\ h[1] = "stop node" /\ h[2] = "stop monitor" /\ h[3] = "stop proxy"
  /\ LET h == Handler("stop-node") IN
       /\ ChecksLast(h) /\ Len(h) = 10
       /\ h[1] = "maintenance" /\ h[2] = "stop monitor" /\ h[3] = "stop node" /\ h[4] = "stop proxy"
<1>1. ASSUME NEW h, h = Handler("stop")
      PROVE  ChecksLast(h) /\ Len(h) = 9 /\ h[1] = "stop node" /\ h[2] = "stop monitor" /\ h[3] = "stop proxy"
  <2> DEFINE p == <<"stop node", "stop monitor", "stop proxy">>
  <2>1. h = p \o UpdateStatus
    BY <1>1 DEF Handler
  <2>2. p \in Seq(HostCommands)
    BY DEF HostCommands
  <2>3. Len(p) = 3 /\ p[1] = "stop node" /\ p[2] = "stop monitor" /\ p[3] = "stop proxy"
    OBVIOUS
  <2> HIDE DEF p
  <2>4. ChecksLast(h) /\ Len(h) = Len(p) + 6 /\ \A i \in 1..Len(p) : h[i] = p[i]
    BY <2>1, <2>2, PrefixedEnds
  <2>5. 1 \in 1..3 /\ 2 \in 1..3 /\ 3 \in 1..3 /\ 3 + 6 = 9
    OBVIOUS
  <2> QED
    BY <2>3, <2>4, <2>5
<1>2. ASSUME NEW h, h = Handler("stop-node")
      PROVE  /\ ChecksLast(h) /\ Len(h) = 10
             /\ h[1] = "maintenance" /\ h[2] = "stop monitor" /\ h[3] = "stop node" /\ h[4] = "stop proxy"
  <2> DEFINE p == <<"maintenance", "stop monitor", "stop node", "stop proxy">>
  <2>1. h = p \o UpdateStatus
    BY <1>2 DEF Handler
  <2>2. p \in Seq(HostCommands)
    BY DEF HostCommands
  <2>3. Len(p) = 4 /\ p[1] = "maintenance" /\ p[2] = "stop monitor" /\ p[3] = "stop node" /\ p[4] = "stop proxy"
    OBVIOUS
  <2> HIDE DEF p
  <2>4. ChecksLast(h) /\ Len(h) = Len(p) + 6 /\ \A i \in 1..Len(p) : h[i] = p[i]
    BY <2>1, <2>2, PrefixedEnds
  <2>5. 1 \in 1..4 /\ 2 \in 1..4 /\ 3 \in 1..4 /\ 4 \in 1..4 /\ 4 + 6 = 10
    OBVIOUS
  <2> QED
    BY <2>3, <2>4, <2>5
<1> QED
  BY <1>1, <1>2

\* Proceeding along a list.
LEMMA TailEnd ==
  ASSUME NEW h \in Seq(Names), NEW t \in Seq(Names), t # <<>>, EndOf(t, h)
  PROVE  /\ Len(t) \in Nat /\ Len(h) \in Nat /\ 1 <= Len(t) /\ Len(t) <= Len(h)
         /\ Tail(t) \in Seq(Names) /\ Len(Tail(t)) = Len(t) - 1
         /\ Head(t) = h[(Len(h) - Len(t)) + 1]
         /\ EndOf(Tail(t), h)
         /\ Tail(t) # <<>> <=> Len(t) > 1
         /\ Tail(t) # <<>> => Head(Tail(t)) = h[(Len(h) - Len(t)) + 2]
<1>1. Len(t) \in Nat /\ Len(h) \in Nat /\ 1 <= Len(t) /\ Len(t) <= Len(h)
  BY DEF EndOf
<1>2. /\ Tail(t) \in Seq(Names) /\ Len(Tail(t)) = Len(t) - 1
      /\ \A i \in 1..(Len(t) - 1) : Tail(t)[i] = t[i + 1]
  BY HeadTailProperties
<1>3. Head(t) = t[1]
  OBVIOUS
<1>4. Head(t) = h[(Len(h) - Len(t)) + 1]
  BY <1>1, <1>3 DEF EndOf
<1>5. \A i \in 1..(Len(t) - 1) : Tail(t)[i] = h[(Len(h) - (Len(t) - 1)) + i]
  <2> TAKE i \in 1..(Len(t) - 1)
  <2>1. i + 1 \in 1..Len(t) /\ (Len(h) - Len(t)) + (i + 1) = (Len(h) - (Len(t) - 1)) + i
    BY <1>1
  <2>2. Tail(t)[i] = t[i + 1]
    BY <1>2
  <2>3. t[i + 1] = h[(Len(h) - Len(t)) + (i + 1)]
    BY <2>1 DEF EndOf
  <2> QED
    BY <2>1, <2>2, <2>3
<1>6. EndOf(Tail(t), h)
  BY <1>1, <1>2, <1>5 DEF EndOf
<1>7. Tail(t) # <<>> <=> Len(t) > 1
  <2>1. Tail(t) # <<>> => Len(Tail(t)) \in Nat \ {0}
    BY <1>2, EmptySeq
  <2>2. Tail(t) = <<>> => Len(Tail(t)) = 0
    BY EmptySeq
  <2> QED
    BY <1>1, <1>2, <2>1, <2>2
<1>8. ASSUME Len(t) > 1 PROVE Head(Tail(t)) = h[(Len(h) - Len(t)) + 2]
  <2>1. 1 \in 1..(Len(t) - 1) /\ (Len(h) - (Len(t) - 1)) + 1 = (Len(h) - Len(t)) + 2
    BY <1>1, <1>8
  <2>2. Head(Tail(t)) = Tail(t)[1]
    BY <1>2, <1>7, <1>8
  <2> QED
    BY <1>5, <2>1, <2>2
<1> QED
  BY <1>1, <1>2, <1>4, <1>6, <1>7, <1>8

\* The commands of the status check by their distance from the end.
LEMMA ByDistance ==
  ASSUME NEW n \in 1..6, NEW x, x = UpdateStatus[7 - n], NEW y, n > 1 => y = UpdateStatus[8 - n]
  PROVE  /\ x \in CheckNames
         /\ x = "binaries" => n > 1 /\ y = "see node"
         /\ x = "see node" => n > 1 /\ y = "see monitor"
         /\ x = "see monitor" => n > 1 /\ y = "see proxy"
         /\ x = "see proxy" => n > 1 /\ y = "readiness"
         /\ x = "readiness" => n > 1 /\ y = "metadata"
<1>1. CASE n = 1
  <2>1. x = UpdateStatus[6]
    BY <1>1
  <2> QED
    BY <1>1, <2>1, UpdateStatusIs DEF CheckNames
<1>2. CASE n = 2
  <2>1. x = UpdateStatus[5] /\ y = UpdateStatus[6] /\ n > 1
    BY <1>2
  <2> QED
    BY <2>1, UpdateStatusIs DEF CheckNames
<1>3. CASE n = 3
  <2>1. x = UpdateStatus[4] /\ y = UpdateStatus[5] /\ n > 1
    BY <1>3
  <2> QED
    BY <2>1, UpdateStatusIs DEF CheckNames
<1>4. CASE n = 4
  <2>1. x = UpdateStatus[3] /\ y = UpdateStatus[4] /\ n > 1
    BY <1>4
  <2> QED
    BY <2>1, UpdateStatusIs DEF CheckNames
<1>5. CASE n = 5
  <2>1. x = UpdateStatus[2] /\ y = UpdateStatus[3] /\ n > 1
    BY <1>5
  <2> QED
    BY <2>1, UpdateStatusIs DEF CheckNames
<1>6. CASE n = 6
  <2>1. x = UpdateStatus[1] /\ y = UpdateStatus[2] /\ n > 1
    BY <1>6
  <2> QED
    BY <2>1, UpdateStatusIs DEF CheckNames
<1> QED
  BY <1>1, <1>2, <1>3, <1>4, <1>5, <1>6, UpToSix

\* Commands are followed by commands and then by the status check, in order.
LEMMA Succession ==
  ASSUME NEW h, ChecksLast(h), NEW t \in Seq(Names), t # <<>>, EndOf(t, h)
  PROVE  /\ Head(t) \in HostCommands => Tail(t) # <<>> /\ Head(Tail(t)) \in HostCommands \cup {"binaries"}
         /\ Head(t) = "binaries" => Tail(t) # <<>> /\ Head(Tail(t)) = "see node"
         /\ Head(t) = "see node" => Tail(t) # <<>> /\ Head(Tail(t)) = "see monitor"
         /\ Head(t) = "see monitor" => Tail(t) # <<>> /\ Head(Tail(t)) = "see proxy"
         /\ Head(t) = "see proxy" => Tail(t) # <<>> /\ Head(Tail(t)) = "readiness"
         /\ Head(t) = "readiness" => Tail(t) # <<>> /\ Head(Tail(t)) = "metadata"
         /\ Head(t) \in HostCommands <=> Len(t) > 6
<1> DEFINE n == Len(t)
           m == Len(h)
<1>1. h \in Seq(Names)
  BY DEF ChecksLast
<1>2. /\ n \in Nat /\ m \in Nat /\ 1 <= n /\ n <= m
      /\ Head(t) = h[(m - n) + 1]
      /\ Tail(t) # <<>> <=> n > 1
      /\ Tail(t) # <<>> => Head(Tail(t)) = h[(m - n) + 2]
  BY <1>1, TailEnd
<1>3. /\ m >= 6
      /\ \A i \in 1..(m - 6) : h[i] \in HostCommands
      /\ \A i \in 1..6 : h[(m - 6) + i] = UpdateStatus[i]
  BY DEF ChecksLast
<1> HIDE DEF n, m
<1>4. CASE n > 6
  <2>1. (m - n) + 1 \in 1..(m - 6) /\ n > 1
    BY <1>2, <1>3, <1>4
  <2>2. Head(t) \in HostCommands /\ Tail(t) # <<>>
    BY <1>2, <1>3, <2>1
  <2>3. Head(Tail(t)) \in HostCommands \cup {"binaries"}
    <3>1. CASE n > 7
      <4>1. (m - n) + 2 \in 1..(m - 6)
        BY <1>2, <1>3, <3>1
      <4> QED
        BY <1>2, <1>3, <2>2, <4>1
    <3>2. CASE n = 7
      <4>1. (m - n) + 2 = (m - 6) + 1 /\ 1 \in 1..6
        BY <1>2, <1>3, <3>2
      <4> QED
        BY <1>2, <1>3, <2>2, <4>1, UpdateStatusIs
    <3> QED
      BY <1>2, <1>4, <3>1, <3>2
  <2> QED
    BY <1>4, <2>2, <2>3 DEF HostCommands, n
<1>5. CASE n <= 6
  <2>1. (m - n) + 1 = (m - 6) + (7 - n) /\ 7 - n \in 1..6
    BY <1>2, <1>3, <1>5
  <2>2. Head(t) = UpdateStatus[7 - n]
    BY <1>2, <1>3, <2>1
  <2>3. n > 1 => (m - n) + 2 = (m - 6) + (8 - n) /\ 8 - n \in 1..6
    BY <1>2, <1>3, <1>5
  <2>4. n > 1 => Tail(t) # <<>> /\ Head(Tail(t)) = UpdateStatus[8 - n]
    BY <1>2, <1>3, <2>3
  <2>5. n \in 1..6 /\ ~(n > 6)
    BY <1>2, <1>5
  <2>6. /\ Head(t) \in CheckNames
        /\ Head(t) = "binaries" => n > 1 /\ Head(Tail(t)) = "see node"
        /\ Head(t) = "see node" => n > 1 /\ Head(Tail(t)) = "see monitor"
        /\ Head(t) = "see monitor" => n > 1 /\ Head(Tail(t)) = "see proxy"
        /\ Head(t) = "see proxy" => n > 1 /\ Head(Tail(t)) = "readiness"
        /\ Head(t) = "readiness" => n > 1 /\ Head(Tail(t)) = "metadata"
    BY <2>2, <2>4, <2>5, ByDistance
  <2>7. Head(t) \notin HostCommands
    BY <2>6 DEF HostCommands, CheckNames
  <2> QED
    BY <1>2, <2>5, <2>6, <2>7, Zenon DEF n
<1> QED
  <2>1. n > 6 \/ n <= 6
    BY <1>2
  <2> QED
    BY <1>4, <1>5, <2>1

\* Where a stopping handler is.
LEMMA StopSuccession ==
  ASSUME NEW e \in Stopping, NEW t \in Seq(Names), t # <<>>, EndOf(t, Handler(e)), Head(t) \in HostCommands
  PROVE  /\ Tail(t) # <<>>
         /\ e = "stop" =>
              \/ Head(t) = "stop node" /\ Head(Tail(t)) = "stop monitor"
              \/ Head(t) = "stop monitor" /\ Head(Tail(t)) = "stop proxy"
              \/ Head(t) = "stop proxy" /\ Head(Tail(t)) = "binaries"
         /\ e = "stop-node" =>
              \/ Head(t) = "maintenance" /\ Head(Tail(t)) = "stop monitor"
              \/ Head(t) = "stop monitor" /\ Head(Tail(t)) = "stop node"
              \/ Head(t) = "stop node" /\ Head(Tail(t)) = "stop proxy"
              \/ Head(t) = "stop proxy" /\ Head(Tail(t)) = "binaries"
<1>1. CASE e = "stop"
  <2>1. PICK h : h = Handler("stop")
    OBVIOUS
  <2>2. ChecksLast(h) /\ Len(h) = 9 /\ h[1] = "stop node" /\ h[2] = "stop monitor" /\ h[3] = "stop proxy"
    BY <2>1, StopLists
  <2>3. Tail(t) # <<>> /\ Len(t) > 6 /\ EndOf(t, h)
    BY <1>1, <2>1, <2>2, Succession
  <2>4. PICK n : n = Len(t)
    OBVIOUS
  <2>5. PICK x, y : x = Head(t) /\ y = Head(Tail(t))
    OBVIOUS
  <2>6. n \in Nat /\ n > 6 /\ n <= 9 /\ x = h[(9 - n) + 1] /\ y = h[(9 - n) + 2]
    <3>1. h \in Seq(Names)
      BY <2>2 DEF ChecksLast
    <3>2. /\ Len(t) \in Nat /\ Len(t) <= Len(h) /\ Head(t) = h[(Len(h) - Len(t)) + 1]
          /\ Head(Tail(t)) = h[(Len(h) - Len(t)) + 2]
      BY <2>3, <3>1, TailEnd
    <3> QED
      BY <2>2, <2>3, <2>4, <2>5, <3>2
  <2>7. h[4] = "binaries"
    <3>1. 1 \in 1..6
      OBVIOUS
    <3>2. h[(Len(h) - 6) + 1] = UpdateStatus[1]
      BY <2>2, <3>1, Zenon DEF ChecksLast
    <3>3. (9 - 6) + 1 = 4
      OBVIOUS
    <3>4. Len(h) = 9
      BY <2>2, Zenon
    <3> QED
      BY <3>2, <3>3, <3>4, UpdateStatusIs
  <2>8. CASE n = 7
    <3>1. x = h[3] /\ y = h[4]
      BY <2>6, <2>8
    <3> QED
      BY <1>1, <2>2, <2>3, <2>5, <2>7, <3>1
  <2>9. CASE n = 8
    <3>1. x = h[2] /\ y = h[3]
      BY <2>6, <2>9
    <3> QED
      BY <1>1, <2>2, <2>3, <2>5, <2>7, <3>1
  <2>10. CASE n = 9
    <3>1. x = h[1] /\ y = h[2]
      BY <2>6, <2>10
    <3> QED
      BY <1>1, <2>2, <2>3, <2>5, <2>7, <3>1
  <2>11. n = 7 \/ n = 8 \/ n = 9
    BY <2>6
  <2> QED
    BY <2>8, <2>9, <2>10, <2>11
<1>2. CASE e = "stop-node"
  <2>1. PICK h : h = Handler("stop-node")
    OBVIOUS
  <2>2. /\ ChecksLast(h) /\ Len(h) = 10
        /\ h[1] = "maintenance" /\ h[2] = "stop monitor" /\ h[3] = "stop node" /\ h[4] = "stop proxy"
    BY <2>1, StopLists
  <2>3. Tail(t) # <<>> /\ Len(t) > 6 /\ EndOf(t, h)
    BY <1>2, <2>1, <2>2, Succession
  <2>4. PICK n : n = Len(t)
    OBVIOUS
  <2>5. PICK x, y : x = Head(t) /\ y = Head(Tail(t))
    OBVIOUS
  <2>6. n \in Nat /\ n > 6 /\ n <= 10 /\ x = h[(10 - n) + 1] /\ y = h[(10 - n) + 2]
    <3>1. h \in Seq(Names)
      BY <2>2 DEF ChecksLast
    <3>2. /\ Len(t) \in Nat /\ Len(t) <= Len(h) /\ Head(t) = h[(Len(h) - Len(t)) + 1]
          /\ Head(Tail(t)) = h[(Len(h) - Len(t)) + 2]
      BY <2>3, <3>1, TailEnd
    <3> QED
      BY <2>2, <2>3, <2>4, <2>5, <3>2
  <2>7. h[5] = "binaries"
    <3>1. 1 \in 1..6
      OBVIOUS
    <3>2. h[(Len(h) - 6) + 1] = UpdateStatus[1]
      BY <2>2, <3>1, Zenon DEF ChecksLast
    <3>3. (10 - 6) + 1 = 5
      OBVIOUS
    <3>4. Len(h) = 10
      BY <2>2, Zenon
    <3> QED
      BY <3>2, <3>3, <3>4, UpdateStatusIs
  <2>8. CASE n = 7
    <3>1. x = h[4] /\ y = h[5]
      BY <2>6, <2>8
    <3> QED
      BY <1>2, <2>2, <2>3, <2>5, <2>7, <3>1
  <2>9. CASE n = 8
    <3>1. x = h[3] /\ y = h[4]
      BY <2>6, <2>9
    <3> QED
      BY <1>2, <2>2, <2>3, <2>5, <2>7, <3>1
  <2>10. CASE n = 9
    <3>1. x = h[2] /\ y = h[3]
      BY <2>6, <2>10
    <3> QED
      BY <1>2, <2>2, <2>3, <2>5, <2>7, <3>1
  <2>11. CASE n = 10
    <3>1. x = h[1] /\ y = h[2]
      BY <2>6, <2>11
    <3> QED
      BY <1>2, <2>2, <2>3, <2>5, <2>7, <3>1
  <2>12. n = 7 \/ n = 8 \/ n = 9 \/ n = 10
    BY <2>6
  <2> QED
    BY <2>8, <2>9, <2>10, <2>11, <2>12
<1> QED
  BY <1>1, <1>2 DEF Stopping

-----------------------------------------------------------------------------
(* The invariant.                                                          *)

\* Until its first look at a service, a status check has seen none.
SeenInv ==
    todo # <<>> /\ Head(todo) \notin {"see monitor", "see proxy", "readiness", "metadata"} => seen = {}

\* What a status check knows, if nothing happened to the host since it began.
CheckInv ==
    todo # <<>> /\ steady =>
        /\ Head(todo) \in CheckNames \ {"binaries"} => {"node", "proxy"} \subseteq bin
        /\ Head(todo) = "see monitor" => seen = Running \cap {"node"}
        /\ Head(todo) = "see proxy" => seen = Running \cap {"node", "monitor"}
        /\ Head(todo) = "readiness" => Running = Services
        /\ Head(todo) = "metadata" => Running = Services /\ rpc

\* What a stopping handler has stopped stays stopped, unless systemd restarts
\* the proxy.
StopInv ==
    handler \in Stopping /\ ~raced =>
        /\ todo = <<>> => \A s \in Services : svc[s] = "down"
        /\ todo # <<>> =>
             /\ Head(todo) \in CheckNames => \A s \in Services : svc[s] = "down"
             /\ Head(todo) = "stop proxy" => svc["node"] = "down" /\ svc["monitor"] = "down"
             /\ Head(todo) = "stop monitor" /\ handler = "stop" => svc["node"] = "down"
             /\ Head(todo) = "stop node" /\ handler = "stop-node" => svc["monitor"] = "down"

IInv == TypeInv /\ TodoInv /\ SeenInv /\ CheckInv /\ StopInv

\* The install hook has two commands and no status check.
LEMMA InstallList ==
  LET h == <<"install node", "install proxy">> IN
    h \in Seq(Names) /\ Len(h) = 2 /\ h[1] = "install node" /\ h[2] = "install proxy"
BY DEF Names, HostCommands

\* What comes after the command at the head of a handler.
LEMMA Follows ==
  ASSUME TypeInv, TodoInv, todo # <<>>
  PROVE  /\ handler \in AllEvents
         /\ Tail(todo) \in Seq(Names)
         /\ Tail(todo) # <<>> => EndOf(Tail(todo), Handler(handler))
         /\ Head(todo) \in HostCommands /\ Tail(todo) # <<>> => Head(Tail(todo)) \in HostCommands \cup {"binaries"}
         /\ Head(todo) = "binaries" => Tail(todo) # <<>> /\ Head(Tail(todo)) = "see node"
         /\ Head(todo) = "see node" => Tail(todo) # <<>> /\ Head(Tail(todo)) = "see monitor"
         /\ Head(todo) = "see monitor" => Tail(todo) # <<>> /\ Head(Tail(todo)) = "see proxy"
         /\ Head(todo) = "see proxy" => Tail(todo) # <<>> /\ Head(Tail(todo)) = "readiness"
         /\ Head(todo) = "readiness" => Tail(todo) # <<>> /\ Head(Tail(todo)) = "metadata"
<1>1. handler \in AllEvents /\ todo \in Seq(Names) /\ EndOf(todo, Handler(handler))
  BY DEF TypeInv, TodoInv
<1>2. CASE handler = "install" /\ Handler(handler) = <<"install node", "install proxy">>
  <2>1. PICK h : h = Handler(handler)
    OBVIOUS
  <2>2. h \in Seq(Names) /\ Len(h) = 2 /\ h[1] = "install node" /\ h[2] = "install proxy"
    BY <1>2, <2>1, InstallList, Zenon
  <2>3. Len(h) = 2
    BY <2>2, Zenon
  <2>4. PICK n : n = Len(todo)
    OBVIOUS
  <2>5. /\ n \in Nat /\ 1 <= n /\ n <= Len(h)
        /\ Tail(todo) \in Seq(Names) /\ EndOf(Tail(todo), h)
        /\ Head(todo) = h[(Len(h) - n) + 1]
        /\ Tail(todo) # <<>> <=> n > 1
        /\ Tail(todo) # <<>> => Head(Tail(todo)) = h[(Len(h) - n) + 2]
    BY <1>1, <2>1, <2>2, <2>4, TailEnd
  <2>6. n = 1 \/ n = 2
    BY <2>3, <2>5
  <2>7. (2 - 1) + 1 = 2 /\ (2 - 2) + 1 = 1 /\ (2 - 2) + 2 = 2 /\ ~(1 > 1)
    OBVIOUS
  <2>8. CASE n = 1
    BY <1>1, <2>1, <2>2, <2>3, <2>5, <2>7, <2>8, Zenon DEF HostCommands
  <2>9. CASE n = 2
    BY <1>1, <2>1, <2>2, <2>3, <2>5, <2>7, <2>9, Zenon DEF HostCommands
  <2> QED
    BY <2>6, <2>8, <2>9
<1>3. CASE Handler(handler) = <<>>
  <2>1. PICK h : h = Handler(handler)
    OBVIOUS
  <2>2. h \in Seq(Names) /\ Len(h) = 0
    BY <1>3, <2>1, EmptySeq, Zenon
  <2>3. Len(todo) \in Nat /\ 1 <= Len(todo) /\ Len(todo) <= Len(h)
    BY <1>1, <2>1, <2>2, TailEnd
  <2>4. PICK n : n = Len(todo)
    OBVIOUS
  <2>5. n \in Nat /\ 1 <= n /\ n <= 0
    BY <2>2, <2>3, <2>4, Zenon
  <2>6. FALSE
    BY <2>5
  <2> QED
    BY <2>6
<1>4. CASE ChecksLast(Handler(handler))
  <2>1. PICK h : h = Handler(handler)
    OBVIOUS
  <2>2. ChecksLast(h) /\ EndOf(todo, h) /\ h \in Seq(Names)
    BY <1>1, <1>4, <2>1 DEF ChecksLast
  <2>3. Tail(todo) \in Seq(Names) /\ EndOf(Tail(todo), h)
    BY <1>1, <2>2, TailEnd
  <2> QED
    BY <1>1, <2>1, <2>2, <2>3, Succession
<1> QED
  BY <1>1, <1>2, <1>3, <1>4, HandlerShape

\* The invariant holds when the unit is deployed.
LEMMA IInvInit == Init => IInv
<1> SUFFICES ASSUME Init PROVE IInv
  OBVIOUS
<1>1. handler = "none" /\ todo = <<>> /\ seen = {} /\ svc = [s \in Services |-> "down"]
  BY DEF Init
<1>2. rpc \in BOOLEAN /\ collector \in BOOLEAN /\ steady \in BOOLEAN /\ raced \in BOOLEAN
  BY Zenon DEF Init
<1>3. todo \in Seq(Names)
  BY <1>1, EmptySeq
<1>4. TypeInv
  BY <1>1, <1>2, <1>3 DEF TypeInv
<1>5. TodoInv /\ SeenInv /\ CheckInv
  BY <1>1 DEF TodoInv, SeenInv, CheckInv
<1>6. StopInv
  BY <1>1 DEF StopInv, Stopping
<1> QED
  BY <1>4, <1>5, <1>6 DEF IInv

\* Starting services from what is on disk.
LEMMA BringUpType ==
  ASSUME TypeInv, NEW S, BringUp(S)
  PROVE  svc' \in [Services -> {"up", "down", "waiting"}] /\ rpc' \in BOOLEAN
<1>1. svc' \in [Services -> {"up", "down", "waiting"}]
  BY DEF BringUp, TypeInv
<1>2. rpc' \in BOOLEAN
  BY Zenon DEF BringUp
<1> QED
  BY <1>1, <1>2

\* A command on the host leaves the services well typed.
LEMMA CommandType ==
  ASSUME TypeInv, NEW c, Command(c) \/ UNCHANGED host
  PROVE  svc' \in [Services -> {"up", "down", "waiting"}] /\ rpc' \in BOOLEAN
<1>1. CASE svc' = svc /\ rpc' = rpc
  BY <1>1 DEF TypeInv
<1>2. ASSUME NEW S, BringUp(S) PROVE svc' \in [Services -> {"up", "down", "waiting"}] /\ rpc' \in BOOLEAN
  BY <1>2, BringUpType
<1>3. ASSUME NEW s, StopService(s) PROVE svc' \in [Services -> {"up", "down", "waiting"}] /\ rpc' \in BOOLEAN
  <2>1. svc' \in [Services -> {"up", "down", "waiting"}]
    BY <1>3 DEF StopService, TypeInv
  <2>2. rpc' \in BOOLEAN
    BY <1>3, Zenon DEF StopService
  <2> QED
    BY <2>1, <2>2
<1>4. CASE Applied
  <2>1. svc' \in [Services -> {"up", "down", "waiting"}]
    BY <1>4 DEF Applied, TypeInv
  <2>2. rpc' = rpc
    BY <1>4 DEF Applied
  <2> QED
    BY <2>1, <2>2 DEF TypeInv
<1> QED
  BY <1>1, <1>2, <1>3, <1>4, Zenon DEF Command, Install, StartService, RestartService, host

\* Services that are down stay down while the world goes on, unless systemd
\* restarts the proxy during the handler.
LEMMA DownStaysDown ==
  ASSUME TypeInv, handler # "none", NEW r \in Services, ServiceDies(r) \/ AutoRestart(r), ~raced',
         NEW s \in Services, svc[s] = "down"
  PROVE  ~raced /\ svc'[s] = "down"
<1>1. CASE ServiceDies(r)
  <2>1. svc[r] = "up" /\ svc' = [svc EXCEPT ![r] = "waiting"] /\ raced' = raced
    BY <1>1 DEF ServiceDies
  <2>2. s # r
    BY <2>1
  <2> QED
    BY <2>1, <2>2 DEF TypeInv
<1>2. CASE AutoRestart(r)
  <2>1. svc[r] = "waiting" /\ BringUp(NotUp({r} \cup Wants[r])) /\ ~raced /\ r # "proxy"
    BY <1>2 DEF AutoRestart, StartService
  <2>2. Wants[r] = {}
    BY <2>1 DEF Wants, Services
  <2>3. s \notin NotUp({r} \cup Wants[r])
    BY <2>1, <2>2 DEF NotUp
  <2> QED
    BY <2>1, <2>3 DEF BringUp
<1> QED
  BY <1>1, <1>2

\* Steps that leave the handler where it is.
LEMMA WorldStep ==
  ASSUME IInv,
         \/ UNCHANGED vars \/ Operate \/ RpcAnswers \/ CollectorChanges
         \/ \E s \in Services : ServiceDies(s) \/ AutoRestart(s)
  PROVE  IInv'
<1>1. handler' = handler /\ todo' = todo /\ seen' = seen
  BY DEF vars, Operate, RpcAnswers, CollectorChanges, ServiceDies, AutoRestart
<1>2. TypeInv'
  <2>1. svc' \in [Services -> {"up", "down", "waiting"}]
    <3>1. ASSUME NEW s \in Services, ServiceDies(s) PROVE svc' \in [Services -> {"up", "down", "waiting"}]
      BY <3>1 DEF ServiceDies, IInv, TypeInv
    <3>2. ASSUME NEW s \in Services, AutoRestart(s) PROVE svc' \in [Services -> {"up", "down", "waiting"}]
      BY <3>2, BringUpType DEF AutoRestart, StartService, IInv
    <3>3. CASE UNCHANGED vars \/ Operate \/ RpcAnswers \/ CollectorChanges
      <4>1. svc' = svc
        BY <3>3 DEF vars, host, Operate, RpcAnswers, CollectorChanges
      <4> QED
        BY <4>1 DEF IInv, TypeInv
    <3> QED
      BY <3>1, <3>2, <3>3
  <2>2. rpc' \in BOOLEAN /\ collector' \in BOOLEAN /\ steady' \in BOOLEAN /\ raced' \in BOOLEAN
    BY Zenon DEF IInv, TypeInv, vars, host, history, Operate, RpcAnswers, CollectorChanges, ServiceDies, AutoRestart,
       StartService, BringUp, Disturb
  <2> QED
    BY <1>1, <2>1, <2>2 DEF IInv, TypeInv
<1>3. TodoInv' /\ SeenInv'
  BY <1>1 DEF IInv, TodoInv, SeenInv
<1>4. CheckInv'
  <2>1. CASE steady' = FALSE
    BY <2>1 DEF CheckInv
  <2>2. CASE steady' # FALSE
    <3>1. UNCHANGED vars \/ Operate
      BY <2>2, Zenon DEF RpcAnswers, CollectorChanges, ServiceDies, AutoRestart, Disturb
    <3>2. bin' = bin /\ svc' = svc /\ rpc' = rpc /\ steady' = steady
      BY <3>1 DEF vars, Operate, host, history
    <3> QED
      BY <1>1, <3>2 DEF IInv, CheckInv, Running
  <2> QED
    BY <2>1, <2>2
<1>5. StopInv'
  <2> SUFFICES ASSUME handler \in Stopping, ~raced' PROVE StopInv'
    BY <1>1 DEF StopInv
  <2>1. CASE \E s \in Services : ServiceDies(s) \/ AutoRestart(s)
    <3>1. handler # "none"
      BY DEF Stopping
    <3>2. ~raced
      BY <2>1 DEF ServiceDies, AutoRestart
    <3>3. \A s \in Services : svc[s] = "down" => svc'[s] = "down"
      BY <2>1, <3>1, DownStaysDown DEF IInv
    <3>4. "node" \in Services /\ "monitor" \in Services
      BY DEF Services
    <3> QED
      BY <1>1, <3>2, <3>3, <3>4 DEF IInv, StopInv
  <2>2. CASE UNCHANGED vars \/ Operate \/ RpcAnswers \/ CollectorChanges
    <3>1. svc' = svc /\ raced' = raced
      BY <2>2 DEF vars, host, history, Operate, RpcAnswers, CollectorChanges
    <3> QED
      BY <1>1, <3>1 DEF IInv, StopInv
  <2> QED
    BY <2>1, <2>2
<1> QED
  BY <1>2, <1>3, <1>4, <1>5 DEF IInv

\* Juju runs a handler.
LEMMA DispatchStep ==
  ASSUME IInv, NEW e \in AllEvents, Dispatch(e)
  PROVE  IInv'
<1>1. /\ handler' = e /\ todo' = Handler(e) /\ seen' = {} /\ svc' = svc /\ rpc' = rpc /\ collector' = collector
      /\ steady' = steady /\ raced' = FALSE
  BY DEF Dispatch, host
<1>2. PICK h : h = Handler(e)
  OBVIOUS
<1>3. h \in Seq(Names) /\ (h # <<>> => Head(h) \in HostCommands \cup {"binaries"} /\ Head(h) = h[1] /\ EndOf(h, h))
  <2>1. h \in Seq(Names)
    BY <1>2, HandlerShape, InstallList, EmptySeq, Zenon DEF ChecksLast
  <2>2. ASSUME h # <<>> PROVE Head(h) = h[1] /\ EndOf(h, h) /\ Len(h) \in Nat /\ Len(h) >= 1
    <3>1. Head(h) = h[1] /\ Len(h) \in Nat /\ Len(h) >= 1
      BY <2>1, <2>2
    <3>2. \A i \in 1..Len(h) : (Len(h) - Len(h)) + i = i
      BY <3>1
    <3> QED
      BY <3>1, <3>2 DEF EndOf
  <2>3. ASSUME h # <<>> PROVE h[1] \in HostCommands \cup {"binaries"}
    <3>1. CASE h = <<"install node", "install proxy">>
      BY <3>1, InstallList, Zenon DEF HostCommands
    <3>2. CASE ChecksLast(h)
      <4>1. PICK m : m = Len(h)
        OBVIOUS
      <4>2. /\ m \in Nat /\ m >= 6
            /\ \A i \in 1..(m - 6) : h[i] \in HostCommands
            /\ \A i \in 1..6 : h[(m - 6) + i] = UpdateStatus[i]
        BY <2>2, <2>3, <3>2, <4>1 DEF ChecksLast
      <4>3. CASE m = 6
        <5>1. 1 \in 1..6 /\ (6 - 6) + 1 = 1
          OBVIOUS
        <5> QED
          BY <4>2, <4>3, <5>1, UpdateStatusIs
      <4>4. CASE m # 6
        <5>1. 1 \in 1..(m - 6)
          BY <4>2, <4>4
        <5> QED
          BY <4>2, <5>1
      <4> QED
        BY <4>3, <4>4
    <3> QED
      BY <1>2, <2>3, <3>1, <3>2, HandlerShape, Zenon
  <2> QED
    BY <2>1, <2>2, <2>3
<1>4. TypeInv'
  BY <1>1, <1>2, <1>3 DEF IInv, TypeInv
<1>5. e # "none"
  BY DEF AllEvents, Hooks, Actions
<1>6. TodoInv'
  BY <1>1, <1>2, <1>3, <1>5 DEF TodoInv
<1>7. SeenInv'
  BY <1>1 DEF SeenInv
<1>8. CheckInv'
  BY <1>1, <1>2, <1>3 DEF CheckInv, CheckNames, HostCommands
<1>9. StopInv'
  <2> SUFFICES ASSUME e \in Stopping PROVE StopInv'
    BY <1>1 DEF StopInv
  <2>1. ChecksLast(h) /\ (Len(h) = 9 \/ Len(h) = 10)
    BY <1>2, StopLists, Zenon DEF Stopping
  <2>2. h # <<>>
    <3>1. Len(<<>>) = 0 /\ 0 # 9 /\ 0 # 10
      OBVIOUS
    <3> QED
      BY <2>1, <3>1, Zenon
  <2>3. (e = "stop" => Head(h) = "stop node") /\ (e = "stop-node" => Head(h) = "maintenance")
    BY <1>2, <1>3, <2>2, StopLists, Zenon
  <2> QED
    BY <1>1, <1>2, <2>2, <2>3 DEF StopInv, Stopping, CheckNames
<1> QED
  BY <1>4, <1>6, <1>7, <1>8, <1>9 DEF IInv

\* A handler ends.
LEMMA EndStep ==
  ASSUME IInv, Finish \/ CommandFails
  PROVE  IInv'
<1>1. handler' = "none" /\ todo' = <<>> /\ seen' = seen
  BY DEF Finish, CommandFails, Raise
<1>2. svc' \in [Services -> {"up", "down", "waiting"}] /\ rpc' \in BOOLEAN
  <2>1. CASE RolledBack
    <3>1. svc' \in [Services -> {"up", "down", "waiting"}]
      BY <2>1 DEF RolledBack, IInv, TypeInv
    <3>2. rpc' \in BOOLEAN
      BY <2>1, Zenon DEF RolledBack, IInv, TypeInv
    <3> QED
      BY <3>1, <3>2
  <2>2. CASE ~RolledBack
    BY <2>2, CommandType, Zenon DEF Finish, CommandFails, IInv
  <2> QED
    BY <2>1, <2>2
<1>3. collector' \in BOOLEAN /\ steady' \in BOOLEAN /\ raced' \in BOOLEAN
  BY Zenon DEF Finish, CommandFails, Disturb, history, IInv, TypeInv
<1>4. TypeInv'
  BY <1>1, <1>2, <1>3, EmptySeq DEF IInv, TypeInv
<1>5. TodoInv' /\ SeenInv' /\ CheckInv' /\ StopInv'
  BY <1>1 DEF TodoInv, SeenInv, CheckInv, StopInv, Stopping
<1> QED
  BY <1>4, <1>5 DEF IInv

\* Commands on the host, and the maintenance status before them.
LEMMA ExecuteStep ==
  ASSUME IInv, Execute \/ Maintenance
  PROVE  IInv'
<1>1. /\ todo # <<>> /\ todo' = Tail(todo) /\ handler' = handler /\ seen' = seen /\ collector' = collector
      /\ steady' = steady /\ raced' = raced
  BY Zenon DEF Execute, Maintenance, Proceed, history
<1>2. Command(Head(todo)) \/ (Head(todo) = "maintenance" /\ UNCHANGED host)
  BY Zenon DEF Execute, Maintenance
<1>3. Head(todo) \in HostCommands
  BY <1>2, Zenon DEF Command, HostCommands
<1>4. TypeInv /\ TodoInv /\ SeenInv /\ StopInv
  BY DEF IInv
<1>5. /\ handler \in AllEvents /\ Tail(todo) \in Seq(Names)
      /\ Tail(todo) # <<>> => EndOf(Tail(todo), Handler(handler))
      /\ Tail(todo) # <<>> => Head(Tail(todo)) \in HostCommands \cup {"binaries"}
  BY <1>1, <1>3, <1>4, Follows
<1>6. svc' \in [Services -> {"up", "down", "waiting"}] /\ rpc' \in BOOLEAN
  BY <1>2, <1>4, CommandType
<1>7. TypeInv'
  BY <1>1, <1>4, <1>5, <1>6 DEF TypeInv
<1>8. TodoInv'
  <2>1. handler # "none"
    BY <1>5 DEF AllEvents, Hooks, Actions
  <2> QED
    BY <1>1, <1>5, <2>1, Zenon DEF TodoInv
<1>9. SeenInv'
  <2>1. seen = {}
    BY <1>1, <1>3, <1>4 DEF SeenInv, HostCommands
  <2> QED
    BY <1>1, <2>1, Zenon DEF SeenInv
<1>10. CheckInv'
  <2>1. todo' # <<>> => Head(todo') \in HostCommands \cup {"binaries"}
    BY <1>1, <1>5, Zenon
  <2>2. PICK c : c = Head(todo')
    OBVIOUS
  <2>3. c \in HostCommands \cup {"binaries"} =>
          c \notin CheckNames \ {"binaries"} /\ c \notin {"see monitor", "see proxy", "readiness", "metadata"}
    BY DEF HostCommands, CheckNames
  <2> QED
    BY <2>1, <2>2, <2>3, Zenon DEF CheckInv
<1>11. StopInv'
  <2> SUFFICES ASSUME handler \in Stopping, ~raced PROVE StopInv'
    BY <1>1, Zenon DEF StopInv
  <2>1. PICK c, d : c = Head(todo) /\ d = Head(Tail(todo))
    OBVIOUS
  <2>2. todo \in Seq(Names) /\ EndOf(todo, Handler(handler))
    BY <1>1, <1>4 DEF TypeInv, TodoInv
  <2>3. /\ Tail(todo) # <<>>
        /\ handler = "stop" =>
             (c = "stop node" /\ d = "stop monitor") \/ (c = "stop monitor" /\ d = "stop proxy")
               \/ (c = "stop proxy" /\ d = "binaries")
        /\ handler = "stop-node" =>
             (c = "maintenance" /\ d = "stop monitor") \/ (c = "stop monitor" /\ d = "stop node")
               \/ (c = "stop node" /\ d = "stop proxy") \/ (c = "stop proxy" /\ d = "binaries")
    BY <1>1, <1>3, <2>1, <2>2, StopSuccession
  <2>4. /\ c = "stop proxy" => svc["node"] = "down" /\ svc["monitor"] = "down"
        /\ c = "stop monitor" /\ handler = "stop" => svc["node"] = "down"
        /\ c = "stop node" /\ handler = "stop-node" => svc["monitor"] = "down"
    BY <1>1, <1>4, <2>1, Zenon DEF StopInv
  <2>5. Command(c) \/ c = "maintenance"
    BY <1>2, <2>1
  <2>6. /\ c = "stop node" => svc' = [svc EXCEPT !["node"] = "down"]
        /\ c = "stop monitor" => svc' = [svc EXCEPT !["monitor"] = "down"]
        /\ c = "stop proxy" => svc' = [svc EXCEPT !["proxy"] = "down"]
    BY <2>5 DEF Command, StopService
  <2>7. svc \in [Services -> {"up", "down", "waiting"}]
    BY <1>4 DEF TypeInv
  <2>8. /\ d = "binaries" => \A s \in Services : svc'[s] = "down"
        /\ d = "stop proxy" => svc'["node"] = "down" /\ svc'["monitor"] = "down"
        /\ d = "stop monitor" /\ handler = "stop" => svc'["node"] = "down"
        /\ d = "stop node" /\ handler = "stop-node" => svc'["monitor"] = "down"
        /\ d \in {"binaries", "stop proxy", "stop monitor", "stop node"}
    BY <2>3, <2>4, <2>6, <2>7 DEF Services, Stopping
  <2>9. todo' # <<>> /\ Head(todo') = d
    BY <1>1, <2>1, <2>3, Zenon
  <2>10. d \in CheckNames => d = "binaries"
    BY <2>8 DEF CheckNames
  <2> QED
    BY <1>1, <2>8, <2>9, <2>10, Zenon DEF StopInv
<1> QED
  BY <1>7, <1>8, <1>9, <1>10, <1>11 DEF IInv

\* The steps of the status check.
CheckStep == CheckBinaries \/ SeeServices \/ CheckReadiness \/ CheckMetadata

\* A status check goes on or sets the status and ends; the host is untouched.
LEMMA CheckFrame ==
  ASSUME CheckStep
  PROVE  /\ todo # <<>> /\ Head(todo) \in CheckNames
         /\ todo' = Tail(todo) \/ todo' = <<>>
         /\ handler' = handler /\ bin' = bin /\ svc' = svc /\ rpc' = rpc /\ collector' = collector /\ raced' = raced
         /\ steady' = TRUE \/ steady' = steady
         /\ Head(todo) # "binaries" => steady' = steady
<1>1. todo # <<>> /\ (todo' = Tail(todo) \/ todo' = <<>>)
  BY Zenon DEF CheckStep, CheckBinaries, SeeServices, See, CheckReadiness, CheckMetadata, SetStatus, Proceed
<1>2. handler' = handler /\ bin' = bin /\ svc' = svc /\ rpc' = rpc /\ collector' = collector /\ raced' = raced
  BY Zenon DEF CheckStep, CheckBinaries, SeeServices, See, CheckReadiness, CheckMetadata, host, history
<1>3. /\ Head(todo) \in CheckNames
      /\ steady' = TRUE \/ steady' = steady
      /\ Head(todo) # "binaries" => steady' = steady
  BY Zenon DEF CheckStep, CheckBinaries, SeeServices, See, CheckReadiness, CheckMetadata, history, CheckNames
<1> QED
  BY <1>1, <1>2, <1>3, Zenon

\* Which step follows from the command.
LEMMA CheckCases ==
  ASSUME CheckStep
  PROVE  /\ Head(todo) = "binaries" => CheckBinaries
         /\ Head(todo) = "see node" => See("node", "see node")
         /\ Head(todo) = "see monitor" => See("monitor", "see monitor")
         /\ Head(todo) = "see proxy" => See("proxy", "see proxy")
         /\ Head(todo) = "readiness" => CheckReadiness
         /\ Head(todo) = "metadata" => CheckMetadata
BY Zenon DEF CheckStep, CheckBinaries, SeeServices, See, CheckReadiness, CheckMetadata

\* The status check preserves the invariant.
LEMMA CheckPreserves ==
  ASSUME IInv, CheckStep
  PROVE  IInv'
<1>1. /\ todo # <<>> /\ Head(todo) \in CheckNames
      /\ todo' = Tail(todo) \/ todo' = <<>>
      /\ handler' = handler /\ bin' = bin /\ svc' = svc /\ rpc' = rpc /\ collector' = collector /\ raced' = raced
      /\ steady' = TRUE \/ steady' = steady
      /\ Head(todo) # "binaries" => steady' = steady
  BY CheckFrame
<1>2. TypeInv /\ TodoInv /\ SeenInv /\ CheckInv /\ StopInv
  BY DEF IInv
<1>3. /\ handler \in AllEvents /\ Tail(todo) \in Seq(Names)
      /\ Tail(todo) # <<>> => EndOf(Tail(todo), Handler(handler))
      /\ Head(todo) = "binaries" => Tail(todo) # <<>> /\ Head(Tail(todo)) = "see node"
      /\ Head(todo) = "see node" => Tail(todo) # <<>> /\ Head(Tail(todo)) = "see monitor"
      /\ Head(todo) = "see monitor" => Tail(todo) # <<>> /\ Head(Tail(todo)) = "see proxy"
      /\ Head(todo) = "see proxy" => Tail(todo) # <<>> /\ Head(Tail(todo)) = "readiness"
      /\ Head(todo) = "readiness" => Tail(todo) # <<>> /\ Head(Tail(todo)) = "metadata"
  BY <1>1, <1>2, Follows
<1>4. seen' \subseteq Services
  <2>1. seen' = seen \/ \E s \in Services : seen' = seen \cup {s}
    <3>1. "node" \in Services /\ "monitor" \in Services /\ "proxy" \in Services
      BY DEF Services
    <3> QED
      BY <3>1, Zenon DEF CheckStep, CheckBinaries, SeeServices, See, CheckReadiness, CheckMetadata
  <2>2. seen \subseteq Services
    BY <1>2 DEF TypeInv
  <2> QED
    BY <2>1, <2>2
<1>5. TypeInv'
  <2>1. todo' \in Seq(Names)
    BY <1>1, <1>3, EmptySeq, Zenon
  <2>2. steady' \in BOOLEAN
    BY <1>1, <1>2, Zenon DEF TypeInv
  <2> QED
    BY <1>1, <1>2, <1>4, <2>1, <2>2, Zenon DEF TypeInv
<1>6. TodoInv'
  <2>1. handler # "none"
    BY <1>3 DEF AllEvents, Hooks, Actions
  <2>2. todo' # <<>> => EndOf(todo', Handler(handler'))
    BY <1>1, <1>3, Zenon
  <2> QED
    BY <1>1, <2>1, <2>2, Zenon DEF TodoInv
<1>7. StopInv'
  <2> SUFFICES ASSUME handler \in Stopping, ~raced PROVE StopInv'
    BY <1>1, Zenon DEF StopInv
  <2>1. \A s \in Services : svc[s] = "down"
    BY <1>1, <1>2, Zenon DEF StopInv
  <2>2. "node" \in Services /\ "monitor" \in Services
    BY DEF Services
  <2> QED
    BY <1>1, <2>1, <2>2, Zenon DEF StopInv
<1>8. CASE todo' = <<>>
  <2>1. SeenInv' /\ CheckInv'
    BY <1>8, Zenon DEF SeenInv, CheckInv
  <2> QED
    BY <1>5, <1>6, <1>7, <2>1 DEF IInv
<1>9. CASE todo' = Tail(todo) /\ todo' # <<>>
  <2>1. PICK d : d = Head(todo')
    OBVIOUS
  <2>2. SUFFICES SeenInv' /\ CheckInv'
    BY <1>5, <1>6, <1>7 DEF IInv
  <2>3. CASE Head(todo) = "binaries"
    <3>1. d = "see node"
      BY <1>3, <1>9, <2>1, <2>3, Zenon
    <3>2. CheckBinaries
      BY <2>3, CheckCases
    <3>3. seen' = seen /\ seen = {}
      BY <1>1, <1>2, <2>3, <3>2, Zenon DEF SeenInv, CheckBinaries
    <3>4. "node" \in bin /\ "proxy" \in bin
      BY <1>9, <3>2, Zenon DEF CheckBinaries, SetStatus
    <3>5. {"node", "proxy"} \subseteq bin'
      BY <1>1, <3>4
    <3>6. SeenInv'
      BY <3>3, Zenon DEF SeenInv
    <3>7. d # "see monitor" /\ d # "see proxy" /\ d # "readiness" /\ d # "metadata"
      BY <3>1, Zenon
    <3>8. CheckInv'
      BY <2>1, <3>5, <3>7, Zenon DEF CheckInv
    <3> QED
      BY <3>6, <3>8
  <2>4. CASE Head(todo) # "binaries"
    <3>1. steady' = steady /\ (steady => {"node", "proxy"} \subseteq bin')
      <4>1. Head(todo) \in CheckNames \ {"binaries"}
        BY <1>1, <2>4
      <4> QED
        BY <1>1, <1>2, <2>4, <4>1, Zenon DEF CheckInv
    <3>2. CASE Head(todo) = "see node"
      <4>1. d = "see monitor" /\ See("node", "see node")
        BY <1>3, <1>9, <2>1, <3>2, CheckCases, Zenon
      <4>2. seen = {}
        BY <1>1, <1>2, <3>2, Zenon DEF SeenInv
      <4>3. seen' = IF svc["node"] = "up" THEN seen \cup {"node"} ELSE seen
        BY <4>1, Zenon DEF See
      <4>4. seen' = Running' \cap {"node"}
        BY <1>1, <4>2, <4>3 DEF Running, Services
      <4>5. SeenInv'
        BY <2>1, <4>1, Zenon DEF SeenInv
      <4>6. d # "see proxy" /\ d # "readiness" /\ d # "metadata"
        BY <4>1, Zenon
      <4>7. CheckInv'
        BY <2>1, <3>1, <4>4, <4>6, Zenon DEF CheckInv
      <4> QED
        BY <4>5, <4>7
    <3>3. CASE Head(todo) = "see monitor"
      <4>1. d = "see proxy" /\ See("monitor", "see monitor")
        BY <1>3, <1>9, <2>1, <3>3, CheckCases, Zenon
      <4>2. steady => seen = Running \cap {"node"}
        BY <1>1, <1>2, <3>3, Zenon DEF CheckInv
      <4>3. seen' = IF svc["monitor"] = "up" THEN seen \cup {"monitor"} ELSE seen
        BY <4>1, Zenon DEF See
      <4>4. steady => seen' = Running' \cap {"node", "monitor"}
        BY <1>1, <4>2, <4>3 DEF Running, Services
      <4>5. SeenInv'
        BY <2>1, <4>1, Zenon DEF SeenInv
      <4>6. d # "see monitor" /\ d # "readiness" /\ d # "metadata"
        BY <4>1, Zenon
      <4>7. CheckInv'
        BY <2>1, <3>1, <4>4, <4>6, Zenon DEF CheckInv
      <4> QED
        BY <4>5, <4>7
    <3>4. CASE Head(todo) = "see proxy"
      <4>1. d = "readiness" /\ See("proxy", "see proxy")
        BY <1>3, <1>9, <2>1, <3>4, CheckCases, Zenon
      <4>2. steady => seen = Running \cap {"node", "monitor"}
        BY <1>1, <1>2, <3>4, Zenon DEF CheckInv
      <4>3. /\ seen' = (IF svc["proxy"] = "up" THEN seen \cup {"proxy"} ELSE seen)
            /\ seen' = Services
        BY <1>9, <4>1, Zenon DEF See, SetStatus
      <4>4. steady => Running' = Services
        BY <1>1, <4>2, <4>3 DEF Running, Services
      <4>5. SeenInv'
        BY <2>1, <4>1, Zenon DEF SeenInv
      <4>6. d # "see monitor" /\ d # "see proxy" /\ d # "metadata"
        BY <4>1, Zenon
      <4>7. CheckInv'
        BY <2>1, <3>1, <4>4, <4>6, Zenon DEF CheckInv
      <4> QED
        BY <4>5, <4>7
    <3>5. CASE Head(todo) = "readiness"
      <4>1. d = "metadata" /\ CheckReadiness
        BY <1>3, <1>9, <2>1, <3>5, CheckCases, Zenon
      <4>2. steady => Running = Services
        BY <1>1, <1>2, <3>5, Zenon DEF CheckInv
      <4>3. rpc
        BY <1>9, <4>1, Zenon DEF CheckReadiness, SetStatus
      <4>4. steady => Running' = Services /\ rpc'
        BY <1>1, <4>2, <4>3, Zenon DEF Running
      <4>5. SeenInv'
        BY <2>1, <4>1, Zenon DEF SeenInv
      <4>6. d # "see monitor" /\ d # "see proxy" /\ d # "readiness"
        BY <4>1, Zenon
      <4>7. CheckInv'
        BY <2>1, <3>1, <4>4, <4>6, Zenon DEF CheckInv
      <4> QED
        BY <4>5, <4>7
    <3>6. CASE Head(todo) = "metadata"
      <4>1. CheckMetadata
        BY <3>6, CheckCases
      <4> QED
        BY <1>9, <4>1, Zenon DEF CheckMetadata, SetStatus
    <3> QED
      BY <1>1, <2>4, <3>2, <3>3, <3>4, <3>5, <3>6, Zenon DEF CheckNames
  <2> QED
    BY <2>3, <2>4
<1> QED
  BY <1>1, <1>8, <1>9, Zenon

-----------------------------------------------------------------------------
(* The theorems.                                                           *)

\* Every step preserves the invariant.
LEMMA IInvStep == IInv /\ [Next]_vars => IInv'
<1> SUFFICES ASSUME IInv, [Next]_vars PROVE IInv'
  OBVIOUS
<1>1. \/ UNCHANGED vars \/ Operate \/ RpcAnswers \/ CollectorChanges
      \/ \E s \in Services : ServiceDies(s) \/ AutoRestart(s)
      \/ Finish \/ CommandFails \/ Execute \/ Maintenance \/ CheckStep
      \/ \E e \in AllEvents : Dispatch(e)
  BY Zenon DEF Next, HandlerStep, CheckStep, AllEvents
<1> QED
  BY <1>1, WorldStep, EndStep, ExecuteStep, CheckPreserves, DispatchStep, Zenon

\* A handler is always at a definite place of its list of commands (charm.py,
\* the handlers), knows by then what its status check has looked at, and has
\* stopped for good what a stop hook or stop-node action stopped.
THEOREM Invariance == Spec => []IInv
<1> QED
  BY IInvInit, IInvStep, PTL DEF Spec

\* _on_stop and _on_stop_node_action: a stop that succeeds leaves no service
\* running, whatever crashed meanwhile, unless systemd restarted the proxy.
THEOREM StopStopsHolds == Spec => []StopStops
<1>1. IInv => StopStops
  <2> SUFFICES ASSUME IInv, handler \in {"stop-node", "stop"}, todo = <<>>, ~raced PROVE Running = {}
    BY Zenon DEF StopStops
  <2>1. handler \in Stopping
    BY Zenon DEF Stopping
  <2>2. \A s \in Services : svc[s] = "down"
    BY <2>1, Zenon DEF IInv, StopInv
  <2> QED
    BY <2>2 DEF Running
<1> QED
  BY <1>1, Invariance, PTL

\* _update_status: a status check during which nothing happened to the host
\* reports exactly the first thing that is missing, or active.
THEOREM StatusTruthfulHolds == Spec => StatusTruthful
<1>1. ASSUME IInv, [Next]_vars
      PROVE  [todo # <<>> /\ Head(todo) \in Checks /\ todo' = <<>> /\ steady' => status' = Truth]_vars
  <2> SUFFICES ASSUME Next, todo # <<>>, Head(todo) \in CheckNames, todo' = <<>>, steady' PROVE status' = Truth
    BY <1>1, ChecksAre, Zenon
  <2>1. CheckStep
    <3>1. ~Execute /\ ~Maintenance
      BY Zenon DEF Execute, Command, Maintenance, CheckNames
    <3>2. ~Finish /\ ~CommandFails
      BY Zenon DEF Finish, CommandFails, Disturb
    <3>3. \A e \in AllEvents : ~Dispatch(e)
      <4>1. handler # "none"
        BY <1>1, Zenon DEF IInv, TodoInv
      <4> QED
        BY <4>1, Zenon DEF Dispatch
    <3>4. ~Operate /\ ~RpcAnswers /\ ~CollectorChanges /\ \A s \in Services : ~ServiceDies(s) /\ ~AutoRestart(s)
      BY Zenon DEF Operate, RpcAnswers, CollectorChanges, ServiceDies, AutoRestart
    <3> QED
      BY <3>1, <3>2, <3>3, <3>4, Zenon DEF Next, HandlerStep, CheckStep, AllEvents
  <2>2. /\ Head(todo) # "binaries" => steady
        /\ Head(todo) # "metadata" => Tail(todo) # <<>>
    <3>1. Head(todo) # "binaries" => steady' = steady
      BY <2>1, CheckFrame, Zenon
    <3>2. TypeInv /\ TodoInv
      BY <1>1 DEF IInv
    <3> QED
      BY <3>1, <3>2, Follows, Zenon DEF CheckNames
  <2>3. Head(todo) # "binaries" => "node" \in bin /\ "proxy" \in bin
    <3> SUFFICES ASSUME Head(todo) # "binaries" PROVE "node" \in bin /\ "proxy" \in bin
      OBVIOUS
    <3>1. Head(todo) \in CheckNames \ {"binaries"}
      OBVIOUS
    <3>2. {"node", "proxy"} \subseteq bin
      BY <1>1, <2>2, <3>1, Zenon DEF IInv, CheckInv
    <3> QED
      BY <3>2
  <2>4. CASE Head(todo) = "binaries"
    <3>1. CheckBinaries
      BY <2>1, <2>4, CheckCases
    <3>2. \/ "node" \notin bin /\ status' = <<"no bitcoind", {}>>
          \/ "node" \in bin /\ "proxy" \notin bin /\ status' = <<"no proxy", {}>>
      BY <2>2, <2>4, <3>1, Zenon DEF CheckBinaries, SetStatus, Proceed
    <3> QED
      BY <3>2, Zenon DEF Truth
  <2>5. CASE Head(todo) = "see node"
    <3>1. See("node", "see node")
      BY <2>1, <2>5, CheckCases
    <3> QED
      BY <2>2, <2>5, <3>1, Zenon DEF See, Proceed
  <2>6. CASE Head(todo) = "see monitor"
    <3>1. See("monitor", "see monitor")
      BY <2>1, <2>6, CheckCases
    <3> QED
      BY <2>2, <2>6, <3>1, Zenon DEF See, Proceed
  <2>7. CASE Head(todo) = "see proxy"
    <3>1. See("proxy", "see proxy")
      BY <2>1, <2>7, CheckCases
    <3>2. seen = Running \cap {"node", "monitor"}
      BY <1>1, <2>2, <2>7, Zenon DEF IInv, CheckInv
    <3>3. /\ seen' = (IF svc["proxy"] = "up" THEN seen \cup {"proxy"} ELSE seen)
          /\ seen' # Services /\ status' = <<"waiting", seen'>>
      BY <2>2, <2>7, <3>1, Zenon DEF See, SetStatus, Proceed
    <3>4. seen' = Running
      BY <3>2, <3>3 DEF Running, Services
    <3> QED
      BY <2>3, <2>7, <3>3, <3>4, Zenon DEF Truth
  <2>8. CASE Head(todo) = "readiness"
    <3>1. CheckReadiness
      BY <2>1, <2>8, CheckCases
    <3>2. Running = Services
      BY <1>1, <2>2, <2>8, Zenon DEF IInv, CheckInv
    <3>3. ~rpc /\ status' = <<"rpc not ready", {}>>
      BY <2>2, <2>8, <3>1, Zenon DEF CheckReadiness, SetStatus, Proceed
    <3> QED
      BY <2>3, <2>8, <3>2, <3>3, Zenon DEF Truth
  <2>9. CASE Head(todo) = "metadata"
    <3>1. CheckMetadata
      BY <2>1, <2>9, CheckCases
    <3>2. Running = Services /\ rpc
      BY <1>1, <2>2, <2>9, Zenon DEF IInv, CheckInv
    <3>3. status' = <<IF collector THEN "active" ELSE "metadata failed", {}>>
      BY <3>1, <3>2, Zenon DEF CheckMetadata, SetStatus
    <3> QED
      BY <2>3, <2>9, <3>2, <3>3, Zenon DEF Truth
  <2> QED
    BY <2>4, <2>5, <2>6, <2>7, <2>8, <2>9, Zenon DEF CheckNames
<1> QED
  BY <1>1, Invariance, PTL DEF Spec, StatusTruthful

-----------------------------------------------------------------------------
(* Stopped services.                                                       *)

StartCommands == {"start node", "start monitor", "start proxy", "restart proxy"}
Harmless == Names \ StartCommands

\* What the operator stopped is down, and no handler that starts services runs.
StoppedInv ==
    /\ stopped \in BOOLEAN
    /\ stopped => handler \notin Starting /\ \A s \in Services : svc[s] = "down"

\* The status check starts nothing.
LEMMA HarmlessCheck == UpdateStatus \in Seq(Harmless)
<1>1. Len(UpdateStatus) = 6 /\ UpdateStatus = [i \in 1..6 |-> UpdateStatus[i]]
  BY DEF UpdateStatus
<1>2. \A i \in 1..6 : UpdateStatus[i] \in Harmless
  BY UpdateStatusIs, UpToSix DEF Harmless, Names, CheckNames, StartCommands
<1> QED
  BY <1>1, <1>2

\* Nor does a harmless list that the status check follows.
LEMMA HarmlessPrefixed ==
  ASSUME NEW p \in Seq(Harmless), NEW h, h = p \o UpdateStatus
  PROVE  h \in Seq(Harmless)
<1>1. p \o UpdateStatus \in Seq(Harmless)
  BY HarmlessCheck, ConcatProperties, Zenon
<1> QED
  BY <1>1, Zenon

\* The handlers of the events that ask for no start hold no starting command.
LEMMA HarmlessHandlers ==
  ASSUME NEW e \in AllEvents, e \notin Starting
  PROVE  Handler(e) \in Seq(Harmless)
<1>1. CASE e = "install"
  <2>1. Handler(e) = <<"install node", "install proxy">>
    BY <1>1 DEF Handler
  <2>2. <<"install node", "install proxy">> \in Seq(Harmless)
    BY DEF Harmless, Names, HostCommands, StartCommands
  <2> QED
    BY <2>1, <2>2, Zenon
<1>2. CASE e = "report"
  <2>1. Handler(e) = <<>>
    BY <1>2 DEF Handler
  <2> QED
    BY <2>1, EmptySeq, Zenon
<1>3. CASE e = "config-changed"
  <2>1. Handler(e) = <<"apply">> \o UpdateStatus
    BY <1>3 DEF Handler
  <2>2. <<"apply">> \in Seq(Harmless)
    BY DEF Harmless, Names, HostCommands, StartCommands
  <2> QED
    BY <2>1, <2>2, HarmlessPrefixed
<1>4. CASE e = "stop"
  <2>1. Handler(e) = <<"stop node", "stop monitor", "stop proxy">> \o UpdateStatus
    BY <1>4 DEF Handler
  <2>2. <<"stop node", "stop monitor", "stop proxy">> \in Seq(Harmless)
    BY DEF Harmless, Names, HostCommands, StartCommands
  <2> QED
    BY <2>1, <2>2, HarmlessPrefixed
<1>5. CASE e \in {"upgrade-charm", "update-status"}
  <2>1. Handler(e) = UpdateStatus
    BY <1>5 DEF Handler
  <2>2. <<>> \in Seq(Harmless) /\ UpdateStatus = <<>> \o UpdateStatus
    BY UpdateStatusIs, EmptySeq, ConcatEmptySeq
  <2> QED
    BY <2>1, <2>2, HarmlessPrefixed
<1>6. CASE e = "stop-node"
  <2>1. Handler(e) = <<"maintenance", "stop monitor", "stop node", "stop proxy">> \o UpdateStatus
    BY <1>6 DEF Handler
  <2>2. <<"maintenance", "stop monitor", "stop node", "stop proxy">> \in Seq(Harmless)
    BY DEF Harmless, Names, HostCommands, StartCommands
  <2> QED
    BY <2>1, <2>2, HarmlessPrefixed
<1> QED
  BY <1>1, <1>2, <1>3, <1>4, <1>5, <1>6 DEF AllEvents, Hooks, Actions, Starting

\* A handler that starts nothing has no starting command at its head.
LEMMA HarmlessHead ==
  ASSUME TypeInv, TodoInv, todo # <<>>, handler \notin Starting
  PROVE  Head(todo) \notin StartCommands
<1>1. handler \in AllEvents /\ todo \in Seq(Names) /\ EndOf(todo, Handler(handler))
  BY DEF TypeInv, TodoInv
<1>2. PICK h : h = Handler(handler)
  OBVIOUS
<1>3. h \in Seq(Harmless)
  BY <1>1, <1>2, HarmlessHandlers
<1>4. h \in Seq(Names)
  BY <1>3 DEF Harmless
<1>5. Len(todo) \in Nat /\ Len(h) \in Nat /\ 1 <= Len(todo) /\ Len(todo) <= Len(h) /\ Head(todo) = h[(Len(h) - Len(todo)) + 1]
  BY <1>1, <1>2, <1>4, TailEnd
<1>6. (Len(h) - Len(todo)) + 1 \in 1..Len(h)
  BY <1>5
<1>7. Head(todo) \in Harmless
  BY <1>3, <1>5, <1>6
<1> QED
  BY <1>7 DEF Harmless

\* No other command, and no failing one, brings a service up when all are down.
LEMMA DownCommand ==
  ASSUME TypeInv, \A s \in Services : svc[s] = "down",
         NEW c, c \notin StartCommands, Command(c) \/ UNCHANGED host \/ RolledBack
  PROVE  \A s \in Services : svc'[s] = "down"
<1>1. "proxy" \in Services
  BY DEF Services
<1>2. CASE svc' = svc
  BY <1>2
<1>3. ASSUME NEW r, StopService(r) PROVE \A s \in Services : svc'[s] = "down"
  BY <1>3 DEF StopService, TypeInv
<1>4. CASE Applied
  <2>1. svc["proxy"] # "up"
    BY <1>1
  <2>2. svc' = svc
    BY <1>4, <2>1, Zenon DEF Applied
  <2> QED
    BY <2>2
<1>5. CASE RolledBack
  BY <1>1, <1>5 DEF RolledBack
<1> QED
  BY <1>2, <1>3, <1>4, <1>5, Zenon DEF Command, Install, StartCommands, host

\* Every step leaves down what the operator stopped.
LEMMA StoppedStep == IInv /\ StoppedInv /\ [Next]_vars => StoppedInv'
<1> SUFFICES ASSUME IInv, StoppedInv, [Next]_vars PROVE StoppedInv'
  OBVIOUS
<1>1. TypeInv /\ TodoInv /\ StopInv
  BY DEF IInv
<1>2. CASE UNCHANGED vars \/ Operate \/ RpcAnswers \/ CollectorChanges \/ Maintenance \/ CheckStep
  <2>1. svc' = svc /\ handler' = handler /\ stopped' = stopped
    BY <1>2, Zenon DEF vars, host, history, Operate, RpcAnswers, CollectorChanges, Maintenance, CheckStep, CheckBinaries,
       SeeServices, See, CheckReadiness, CheckMetadata
  <2> QED
    BY <2>1, Zenon DEF StoppedInv
<1>3. ASSUME NEW s \in Services, ServiceDies(s) \/ AutoRestart(s) PROVE StoppedInv'
  <2>1. stopped' = stopped /\ svc[s] # "down"
    BY <1>3, Zenon DEF ServiceDies, AutoRestart
  <2> QED
    BY <2>1, Zenon DEF StoppedInv
<1>4. ASSUME NEW e \in AllEvents, Dispatch(e) PROVE StoppedInv'
  <2>1. svc' = svc /\ handler' = e /\ stopped' = (stopped /\ e \notin Starting)
    BY <1>4, Zenon DEF Dispatch, host
  <2> QED
    BY <2>1, Zenon DEF StoppedInv
<1>5. CASE Finish
  <2>1. /\ todo = <<>> /\ svc' = svc /\ handler' = "none"
        /\ stopped' = (stopped \/ (handler \in {"stop", "stop-node"} /\ ~raced))
    BY <1>5, Zenon DEF Finish, host
  <2>2. handler \in {"stop", "stop-node"} /\ ~raced => \A s \in Services : svc[s] = "down"
    BY <1>1, <2>1, Zenon DEF StopInv, Stopping
  <2>3. "none" \notin Starting
    BY DEF Starting
  <2> QED
    BY <2>1, <2>2, <2>3, Zenon DEF StoppedInv
<1>6. CASE Execute \/ CommandFails
  <2>1. /\ todo # <<>> /\ stopped' = stopped /\ handler' \in {handler, "none"}
        /\ Command(Head(todo)) \/ UNCHANGED host \/ RolledBack
    BY <1>6, Zenon DEF Execute, CommandFails, Raise, history
  <2>2. handler \notin Starting => handler' \notin Starting
    BY <2>1 DEF Starting
  <2>3. ASSUME stopped PROVE \A s \in Services : svc'[s] = "down"
    <3>1. handler \notin Starting /\ \A s \in Services : svc[s] = "down"
      BY <2>3, Zenon DEF StoppedInv
    <3>2. Head(todo) \notin StartCommands
      BY <1>1, <2>1, <3>1, HarmlessHead, Zenon
    <3> QED
      BY <1>1, <2>1, <3>1, <3>2, DownCommand, Zenon
  <2> QED
    BY <2>1, <2>2, <2>3, Zenon DEF StoppedInv
<1> QED
  BY <1>2, <1>3, <1>4, <1>5, <1>6, Zenon DEF Next, HandlerStep, CheckStep, AllEvents

\* README.md on the lifecycle: services that a stop-node action or stop hook
\* stopped stay stopped through config changes, upgrades, failures, retries and
\* systemd's restarts, until a start hook or a start or restart action.
THEOREM StaysStoppedHolds == Spec => []StaysStopped
<1>1. Init => StoppedInv
  BY Zenon DEF Init, StoppedInv
<1>2. StoppedInv => StaysStopped
  <2> SUFFICES ASSUME StoppedInv, stopped PROVE Running = {}
    BY Zenon DEF StaysStopped
  <2>1. \A s \in Services : svc[s] = "down"
    BY Zenon DEF StoppedInv
  <2> QED
    BY <2>1 DEF Running
<1> QED
  BY <1>1, <1>2, StoppedStep, Invariance, PTL DEF Spec
=============================================================================
