------------------------ MODULE ProxyRequest_proofs ------------------------
(***************************************************************************)
(* Proofs about ProxyRequest, for any number of concurrent requests, any   *)
(* bodies and any allowlist, with the filter on or off.                    *)
(*                                                                         *)
(* What reaches bitcoind was decided several steps earlier by a goroutine  *)
(* that may since have given up: the invariant therefore speaks of what is *)
(* on the wire as well, and ties it to the body the decision was made of.  *)
(* The counters are compared with the set of requests that have passed the *)
(* step that counts them, which is ahead of the set of answered ones, and  *)
(* with the set of refused calls that the loops of all the goroutines have *)
(* gone through.                                                           *)
(***************************************************************************)
EXTENDS ProxyRequest, FiniteSetTheorems, TLAPS

Early == {"new", "read", "forward", "sent", "reading"}
Settled == {"record", "count", "write", "done"}
AllStatuses == OwnStatuses \cup Statuses
Functional(f) == f = [r \in Requests |-> f[r]]

TypeInv ==
    /\ pc \in [Requests -> Early \cup Settled]
    /\ Functional(body) /\ Functional(outcome)
    /\ \A r \in Requests : pc[r] # "new" => body[r] \in Bodies
    /\ requests \in [Decisions \X AllStatuses -> Nat]

\* Policy lets the body of r through.
Passed(r) == body[r].kind \in {"single", "batch"} /\ ~anyDenied(body[r])

\* What was sent was let through, and bitcoind reads in it, exact calls at
\* least, the methods that the decision was made of.
WireInv ==
    /\ \A r \in Requests : pc[r] \in {"forward", "sent", "reading"} => Passed(r)
    /\ \A q \in wire \cup received :
         /\ q.request \in Requests /\ q.methods \in Readings(body[q.request])
         /\ Passed(q.request) /\ pc[q.request] \notin {"new", "read", "forward"}

\* The decision that is counted is the one policy makes of the body.
DecisionInv ==
    \A r \in Requests :
        /\ pc[r] \in Early => outcome[r].decision = "none"
        /\ pc[r] \in Settled => outcome[r].decision = Decision(r) /\ outcome[r].status \in AllStatuses

\* Reply o fits body b.
Fits(o, b) == o.shape # "verbatim" =>
    /\ (o.shape = "array") <=> (b.kind = "batch")
    /\ b.kind \in {"single", "batch"} =>
         /\ Len(o.parts) = Len(b.calls)
         /\ \A i \in DOMAIN o.parts :
              /\ o.parts[i].version = b.calls[i].version
              /\ o.parts[i].id = b.calls[i].id
              /\ (o.parts[i].code = "MethodNotFound") <=>
                 (o.status = 403 /\ b.calls[i].method \notin Baseline \cup Extend)

FitInv == \A r \in Requests : pc[r] \in Settled => Fits(outcome[r], body[r])

\* The requests that RecordRequest has counted under d and s.
Counted(d, s) == {r \in Requests : /\ pc[r] \in {"count", "write", "done"}
                                   /\ outcome[r].decision = d /\ outcome[r].status = s}

CountInv == \A d \in Decisions, s \in AllStatuses : requests[<<d, s>>] = Cardinality(Counted(d, s))

\* The calls of r that count as denied methods, from the denial on.
Due(r) == IF Filter /\ pc[r] \in Settled THEN NotAllowed(body[r]) ELSE {}

\* The loop of deny runs between RecordRequest and the reply.
LoopInv ==
    /\ labels \in [Requests -> SUBSET Nat] /\ denied \in [Labels -> Nat]
    /\ \A r \in Requests :
         /\ labels[r] \subseteq Due(r)
         /\ pc[r] = "record" => labels[r] = Due(r)
         /\ pc[r] \in {"write", "done"} => labels[r] = {}

\* The calls of method m that some goroutine's loop has gone through.
CountedCalls(m) ==
    {c \in Requests \X Nat : c[2] \in Due(c[1]) \ labels[c[1]] /\ body[c[1]].calls[c[2]].method = m}

RefusedInv ==
    \A m \in Labels : IsFiniteSet(CountedCalls(m)) /\ denied[m] = Cardinality(CountedCalls(m))

IInv == TypeInv /\ WireInv /\ DecisionInv /\ FitInv /\ CountInv /\ LoopInv /\ RefusedInv

-----------------------------------------------------------------------------
(* Policy.                                                                 *)

\* A call without a method is not on any list.
LEMMA AllowedIsListed == \A call : allowed(call) <=> call.method \in Baseline \cup Extend
BY NoMethodAssumption DEF allowed, Allowlist

\* The reply to a refused envelope blames exactly the calls that are not
\* allowed, and every element carries its call's framing and id.
LEMMA DenyFits ==
  ASSUME NEW b \in Bodies, b.kind \in {"single", "batch"}
  PROVE  Fits(Outcome("denied", 403, Shape(b), denyBody(b)), b)
<1> DEFINE parts == denyBody(b)
<1>1. b.calls \in Seq({b.calls[i] : i \in DOMAIN b.calls})
  BY BodiesAssumption, Zenon
<1>2. Len(parts) = Len(b.calls) /\ DOMAIN parts = DOMAIN b.calls
  BY <1>1 DEF denyBody
<1>3. ASSUME NEW i \in DOMAIN parts
      PROVE  /\ parts[i].version = b.calls[i].version /\ parts[i].id = b.calls[i].id
             /\ (parts[i].code = "MethodNotFound") <=> (b.calls[i].method \notin Baseline \cup Extend)
  <2>1. parts[i] = DenyReply(b.calls[i])
    BY <1>2, <1>3 DEF denyBody
  <2> QED
    BY <2>1, AllowedIsListed DEF DenyReply, ErrorReply
<1> HIDE DEF parts
<1> QED
  BY <1>2, <1>3 DEF Fits, Outcome, Shape, parts

\* The reply to an upstream failure fits its request.
LEMMA ErrorFits ==
  ASSUME NEW b \in Bodies, b.kind \in {"single", "batch"}, NEW status \in {502, 504}
  PROVE  Fits(Outcome("allowed", status, Shape(b), envelopeErrorBody(b)), b)
<1> DEFINE parts == envelopeErrorBody(b)
<1>1. b.calls \in Seq({b.calls[i] : i \in DOMAIN b.calls})
  BY BodiesAssumption, Zenon
<1>2. Len(parts) = Len(b.calls) /\ DOMAIN parts = DOMAIN b.calls
  BY <1>1 DEF envelopeErrorBody
<1>3. ASSUME NEW i \in DOMAIN parts
      PROVE  /\ parts[i].version = b.calls[i].version /\ parts[i].id = b.calls[i].id
             /\ parts[i].code # "MethodNotFound"
  <2>1. parts[i] = ErrorReply(b.calls[i], "InternalError")
    BY <1>2, <1>3 DEF envelopeErrorBody
  <2> QED
    BY <2>1 DEF ErrorReply
<1> HIDE DEF parts
<1> QED
  BY <1>2, <1>3 DEF Fits, Outcome, Shape, parts

\* The reply to a body that is no envelope fits it.
LEMMA RejectFits ==
  ASSUME NEW b, b.kind \in {"tooLarge", "unreadable", "malformed"}, NEW status, NEW code
  PROVE  Fits(Outcome("denied", status, "object", simpleError(code)), b)
BY DEF Fits, Outcome

\* Nothing is asked of a reply that bitcoind made.
LEMMA VerbatimFits ==
  ASSUME NEW b, NEW status
  PROVE  Fits(Outcome("allowed", status, "verbatim", <<>>), b)
BY DEF Fits, Outcome

-----------------------------------------------------------------------------
(* Steps.                                                                  *)

\* A goroutine settles its outcome: it rejects, denies, relays or reports that
\* bitcoind failed.
Settles(r) == \E o :
    /\ Settle(r, o) /\ Fits(o, body[r]) /\ o.decision = Decision(r) /\ o.status \in AllStatuses
    /\ pc[r] \in {"read", "sent", "reading"}

\* The steps that end in Settle.
LEMMA SettleStep ==
  ASSUME TypeInv, WireInv, NEW r \in Requests,
         ServeHTTP(r) \/ Timeout(r) \/ Relay(r) \/ Unavailable(r) \/ ClientGone(r)
  PROVE  \/ Settles(r)
         \/ Passed(r) /\ pc[r] = "read" /\ Goto(r, "forward") /\ UNCHANGED outcome
<1> DEFINE b == body[r]
<1>1. pc[r] # "new" => b \in Bodies
  BY DEF TypeInv
<1>2. CASE ServeHTTP(r)
  <2>1. pc[r] = "read" /\ b \in Bodies
    BY <1>1, <1>2 DEF ServeHTTP
  <2>2. ASSUME b.kind \in {"tooLarge", "unreadable", "malformed"}, NEW status \in {400, 413}, NEW code,
               reject(r, status, code)
        PROVE  Settles(r)
    <3> DEFINE o == Outcome("denied", status, "object", simpleError(code))
    <3>1. Settle(r, o) /\ Fits(o, b)
      BY <2>2, RejectFits DEF reject
    <3>2. o.decision = Decision(r) /\ o.status \in AllStatuses
      BY <2>2 DEF Outcome, Decision, AllStatuses, OwnStatuses
    <3> QED
      BY <2>1, <3>1, <3>2 DEF Settles
  <2>3. ASSUME b.kind \in {"single", "batch"}, anyDenied(b), deny(r) PROVE Settles(r)
    <3> DEFINE o == Outcome("denied", 403, Shape(b), denyBody(b))
    <3>1. Settle(r, o) /\ Fits(o, b)
      BY <2>1, <2>3, DenyFits DEF deny
    <3>2. o.decision = Decision(r) /\ o.status \in AllStatuses
      BY <2>3 DEF Outcome, Decision, AllStatuses, OwnStatuses
    <3> QED
      BY <2>1, <3>1, <3>2 DEF Settles
  <2>4. ASSUME b.kind \in {"single", "batch"}, ~anyDenied(b), Goto(r, "forward"), UNCHANGED outcome
        PROVE  Passed(r) /\ pc[r] = "read" /\ Goto(r, "forward") /\ UNCHANGED outcome
    BY <2>1, <2>4 DEF Passed
  <2>5. \/ b.kind = "tooLarge" /\ reject(r, 413, "InvalidRequest")
        \/ b.kind \in {"unreadable", "malformed"} /\ reject(r, 400, "ParseError")
        \/ b.kind \in {"single", "batch"} /\ anyDenied(b) /\ deny(r)
        \/ b.kind \in {"single", "batch"} /\ ~anyDenied(b) /\ Goto(r, "forward") /\ UNCHANGED outcome
    BY <1>2, Zenon DEF ServeHTTP
  <2> HIDE DEF b
  <2> QED
    BY <2>2, <2>3, <2>4, <2>5
<1>3. ASSUME pc[r] \in {"sent", "reading"}, NEW status \in {502, 504}, handleUpstreamError(r, status)
      PROVE  Settles(r)
  <2> DEFINE o == Outcome("allowed", status, Shape(b), envelopeErrorBody(b))
  <2>1. Passed(r) /\ b \in Bodies
    BY <1>1, <1>3 DEF WireInv
  <2>2. Settle(r, o) /\ Fits(o, b)
    BY <1>3, <2>1, ErrorFits DEF handleUpstreamError, Passed
  <2>3. o.decision = Decision(r) /\ o.status \in AllStatuses
    BY <1>3, <2>1 DEF Outcome, Decision, AllStatuses, OwnStatuses, Passed
  <2> QED
    BY <1>3, <2>2, <2>3 DEF Settles
<1>4. CASE Relay(r)
  <2>1. PICK s \in Statuses : Settle(r, Outcome("allowed", s, "verbatim", <<>>))
    BY <1>4 DEF Relay
  <2> DEFINE o == Outcome("allowed", s, "verbatim", <<>>)
  <2>2. Passed(r) /\ pc[r] = "reading"
    BY <1>4 DEF WireInv, Relay
  <2>3. Settle(r, o) /\ Fits(o, b)
    BY <2>1, VerbatimFits
  <2>4. o.decision = Decision(r) /\ o.status \in AllStatuses
    BY <2>2 DEF Outcome, Decision, AllStatuses, Passed
  <2> QED
    BY <2>2, <2>3, <2>4 DEF Settles
<1> HIDE DEF b
<1> QED
  BY <1>2, <1>3, <1>4 DEF Timeout, Unavailable, ClientGone

\* What a step of one goroutine does to the variables that are its own.
Moves(r) ==
    \/ UNCHANGED <<pc, body, outcome>>
    \/ Arrive(r)
    \/ UNCHANGED body /\ Settles(r)
    \/ Passed(r) /\ pc[r] = "read" /\ Goto(r, "forward") /\ UNCHANGED <<body, outcome>>
    \/ pc[r] = "forward" /\ Goto(r, "sent") /\ UNCHANGED <<body, outcome>>
    \/ pc[r] = "sent" /\ Goto(r, "reading") /\ UNCHANGED <<body, outcome>>
    \/ pc[r] = "record" /\ Goto(r, "count") /\ UNCHANGED <<body, outcome>>
    \/ pc[r] = "count" /\ Goto(r, "write") /\ UNCHANGED <<body, outcome>>
    \/ pc[r] = "write" /\ Goto(r, "done") /\ UNCHANGED <<body, outcome>>

Goroutine(r) ==
    Arrive(r) \/ Step(r) \/ Respond(r) \/ Relay(r) \/ Unavailable(r) \/ ClientGone(r)

\* A step of a request moves that request only.
LEMMA GoroutineMoves ==
  ASSUME TypeInv, WireInv, NEW r \in Requests, Goroutine(r)
  PROVE  Moves(r)
<1>1. CASE ServeHTTP(r) \/ Timeout(r) \/ Relay(r) \/ Unavailable(r) \/ ClientGone(r)
  <2>1. UNCHANGED body
    BY <1>1, Zenon DEF ServeHTTP, Timeout, Relay, Unavailable, ClientGone, handleUpstreamError
  <2> QED
    BY <1>1, <2>1, SettleStep DEF Moves
<1>2. CASE Arrive(r)
  BY <1>2 DEF Moves
<1>3. CASE Forward(r) \/ Respond(r) \/ RecordRequest(r) \/ Write(r)
  BY <1>3, Zenon DEF Forward, Respond, RecordRequest, Write, local, Moves
<1>4. CASE RecordDeniedMethod(r)
  BY <1>4, Zenon DEF RecordDeniedMethod, Moves
<1> QED
  BY <1>1, <1>2, <1>3, <1>4, Zenon DEF Goroutine, Step

\* Every step preserves the types.
LEMMA TypeStep ==
  ASSUME TypeInv, WireInv, DecisionInv, [Next]_vars
  PROVE  TypeInv'
<1>1. CASE UNCHANGED <<pc, body, outcome, requests>>
  BY <1>1 DEF TypeInv, Functional
<1>2. ASSUME NEW r \in Requests, Goroutine(r) PROVE TypeInv'
  <2>1. Moves(r)
    BY <1>2, GoroutineMoves
  <2>2. /\ pc' \in [Requests -> Early \cup Settled] /\ Functional(body)' /\ Functional(outcome)'
        /\ \A q \in Requests : pc'[q] # "new" => body'[q] \in Bodies
    BY <2>1 DEF Moves, TypeInv, Functional, Arrive, Goto, Settles, Settle, Early, Settled
  <2>3. requests' \in [Decisions \X AllStatuses -> Nat]
    <3>1. CASE RecordRequest(r)
      <4>1. pc[r] = "record" /\ requests' = [requests EXCEPT ![<<outcome[r].decision, outcome[r].status>>] = @ + 1]
        BY <3>1 DEF RecordRequest
      <4>2. <<outcome[r].decision, outcome[r].status>> \in Decisions \X AllStatuses
        BY <4>1 DEF DecisionInv, Settled, Decision, Decisions
      <4> QED
        BY <4>1, <4>2 DEF TypeInv
    <3>2. CASE ~RecordRequest(r)
      <4>1. requests' = requests
        BY <1>2, <3>2, Zenon DEF Goroutine, Step, Arrive, ServeHTTP, Forward, Timeout, RecordDeniedMethod, Write,
           Respond, Relay, Unavailable, ClientGone, handleUpstreamError, counters
      <4> QED
        BY <4>1 DEF TypeInv
    <3> QED
      BY <3>1, <3>2
  <2> QED
    BY <2>2, <2>3 DEF TypeInv
<1>3. CASE Deliver
  BY <1>1, <1>3 DEF Deliver, local, counters
<1>4. CASE UNCHANGED vars
  BY <1>1, <1>4 DEF vars, local, counters
<1> QED
  BY <1>2, <1>3, <1>4, Zenon DEF Next, Goroutine

\* A step of one goroutine leaves the others' variables alone, and a body
\* changes only when it arrives.
LEMMA MovesOnly ==
  ASSUME TypeInv, NEW r \in Requests, Moves(r)
  PROVE  /\ \A q \in Requests : q # r => pc'[q] = pc[q] /\ body'[q] = body[q] /\ outcome'[q] = outcome[q]
         /\ pc[r] # "new" => body'[r] = body[r]
BY DEF Moves, TypeInv, Functional, Arrive, Goto, Settles, Settle

\* How the goroutine's own step moves its program counter.
LEMMA MovesTo ==
  ASSUME TypeInv, NEW r \in Requests, Moves(r)
  PROVE  /\ pc'[r] \in {"forward", "sent", "reading"} =>
              pc[r] = pc'[r] \/ Passed(r) \/ pc[r] \in {"forward", "sent", "reading"}
         /\ pc'[r] \in {"new", "read", "forward"} => pc[r] \in {"new", "read", "forward"}
         /\ pc[r] = "new" /\ pc'[r] # "new" => pc'[r] = "read"
BY DEF Moves, TypeInv, Arrive, Goto, Settles, Settle

\* What is on the wire or received was forwarded for a request.
LEMMA WireStep ==
  ASSUME TypeInv, TypeInv', WireInv, [Next]_vars
  PROVE  WireInv'
<1>1. CASE UNCHANGED <<pc, body>> /\ wire' \cup received' \subseteq wire \cup received
  BY <1>1 DEF WireInv, Passed
<1>2. ASSUME NEW r \in Requests, Goroutine(r) PROVE WireInv'
  <2>1. Moves(r)
    BY <1>2, GoroutineMoves
  <2>2. /\ \A q \in Requests : q # r => pc'[q] = pc[q] /\ body'[q] = body[q]
        /\ pc[r] # "new" => body'[r] = body[r]
    BY <2>1, MovesOnly
  <2>3. /\ pc'[r] \in {"forward", "sent", "reading"} =>
             pc[r] = pc'[r] \/ Passed(r) \/ pc[r] \in {"forward", "sent", "reading"}
        /\ pc'[r] \in {"new", "read", "forward"} => pc[r] \in {"new", "read", "forward"}
        /\ pc[r] = "new" /\ pc'[r] # "new" => pc'[r] = "read"
    BY <2>1, MovesTo
  <2>4. \A q \in Requests : pc'[q] \in {"forward", "sent", "reading"} => Passed(q)'
    BY <2>2, <2>3 DEF WireInv, Passed
  <2>5. ASSUME NEW q, q \in wire \cup received
        PROVE  /\ q.request \in Requests /\ q.methods \in Readings(body'[q.request])
               /\ Passed(q.request)' /\ pc'[q.request] \notin {"new", "read", "forward"}
    <3>1. /\ q.request \in Requests /\ q.methods \in Readings(body[q.request])
          /\ Passed(q.request) /\ pc[q.request] \notin {"new", "read", "forward"}
      BY <2>5 DEF WireInv
    <3> QED
      BY <2>2, <2>3, <3>1 DEF Passed
  <2>6. ASSUME NEW q \in wire' \cup received', q \notin wire \cup received
        PROVE  /\ \E ms \in Readings(body[r]) : q = UpstreamRequest(r, ms)
               /\ pc[r] = "forward" /\ pc'[r] = "sent"
    <3>1. wire' \cup received' \subseteq wire \cup received \/ Forward(r)
      BY <1>2 DEF Goroutine, Step, Arrive, ServeHTTP, Timeout, RecordRequest, RecordDeniedMethod, Write,
         Respond, Relay, Unavailable, ClientGone, handleUpstreamError, net
    <3> QED
      BY <2>6, <3>1 DEF Forward, Goto, TypeInv
  <2>7. ASSUME NEW q \in wire' \cup received', q \notin wire \cup received
        PROVE  /\ q.request \in Requests /\ q.methods \in Readings(body'[q.request])
               /\ Passed(q.request)' /\ pc'[q.request] \notin {"new", "read", "forward"}
    <3>1. pc[r] = "forward" /\ pc'[r] = "sent" /\ \E ms \in Readings(body[r]) : q = UpstreamRequest(r, ms)
      BY <2>6, <2>7
    <3>2. q.request = r /\ q.methods \in Readings(body[r]) /\ body'[r] = body[r]
      BY <2>2, <3>1 DEF UpstreamRequest
    <3> QED
      BY <2>4, <3>1, <3>2
  <2> QED
    BY <2>4, <2>5, <2>7 DEF WireInv
<1>3. CASE Deliver
  <2>1. wire' \cup received' \subseteq wire \cup received
    BY <1>3 DEF Deliver
  <2> QED
    BY <1>1, <1>3, <2>1 DEF Deliver, local
<1>4. CASE UNCHANGED vars
  BY <1>1, <1>4 DEF vars, local, net
<1> QED
  BY <1>2, <1>3, <1>4, Zenon DEF Next, Goroutine

\* One request's share of DecisionInv and FitInv.
LEMMA OutcomeStep ==
  ASSUME TypeInv, TypeInv', WireInv, DecisionInv, FitInv, [Next]_vars
  PROVE  DecisionInv' /\ FitInv'
<1>1. CASE UNCHANGED <<pc, body, outcome>>
  BY <1>1 DEF DecisionInv, FitInv, Decision, Fits
<1>2. ASSUME NEW r \in Requests, Goroutine(r) PROVE DecisionInv' /\ FitInv'
  <2>1. Moves(r)
    BY <1>2, GoroutineMoves
  <2>2. /\ \A q \in Requests : q # r => pc'[q] = pc[q] /\ body'[q] = body[q] /\ outcome'[q] = outcome[q]
        /\ pc[r] # "new" => body'[r] = body[r]
    BY <2>1, MovesOnly
  <2>3. ASSUME NEW q \in Requests, q # r
        PROVE  /\ pc'[q] \in Early => outcome'[q].decision = "none"
               /\ pc'[q] \in Settled => /\ outcome'[q].decision = Decision(q)' /\ outcome'[q].status \in AllStatuses
                                        /\ Fits(outcome'[q], body'[q])
    BY <2>2, <2>3 DEF DecisionInv, FitInv, Decision
  <2>4. /\ pc'[r] \in Early => outcome'[r].decision = "none"
        /\ pc'[r] \in Settled => /\ outcome'[r].decision = Decision(r)' /\ outcome'[r].status \in AllStatuses
                                 /\ Fits(outcome'[r], body'[r])
    <3>1. CASE Settles(r) /\ UNCHANGED body
      <4>1. PICK o : /\ Settle(r, o) /\ Fits(o, body[r]) /\ o.decision = Decision(r) /\ o.status \in AllStatuses
                     /\ pc[r] \in {"read", "sent", "reading"}
        BY <3>1 DEF Settles
      <4>2. outcome'[r] = o /\ pc'[r] = "record" /\ body'[r] = body[r]
        BY <3>1, <4>1 DEF Settle, Goto, TypeInv, Functional
      <4> QED
        BY <4>1, <4>2 DEF Decision, Early
    <3>2. CASE Arrive(r)
      <4>1. pc[r] = "new" /\ pc'[r] = "read" /\ outcome'[r] = outcome[r]
        BY <3>2 DEF Arrive, Goto, TypeInv
      <4> QED
        BY <4>1 DEF DecisionInv, Early, Settled
    <3>3. CASE \/ pc[r] \in {"read", "forward", "sent"} /\ pc'[r] \in {"forward", "sent", "reading"}
               \/ pc[r] \in {"record", "count", "write"} /\ pc'[r] \in {"count", "write", "done"}
               \/ UNCHANGED <<pc, body, outcome>>
      <4>1. CASE outcome'[r] = outcome[r] /\ body'[r] = body[r]
        BY <3>3, <4>1 DEF DecisionInv, FitInv, Decision, Early, Settled
      <4> QED
        BY <2>1, <3>1, <3>2, <3>3, <4>1 DEF Moves
    <3> QED
      BY <2>1, <3>1, <3>2, <3>3 DEF Moves, Goto, TypeInv
  <2> QED
    BY <2>3, <2>4 DEF DecisionInv, FitInv
<1>3. CASE Deliver
  BY <1>1, <1>3 DEF Deliver, local
<1>4. CASE UNCHANGED vars
  BY <1>1, <1>4 DEF vars, local
<1> QED
  BY <1>2, <1>3, <1>4, Zenon DEF Next, Goroutine

\* Every step keeps the counters in line with the requests.
LEMMA CountStep ==
  ASSUME TypeInv, TypeInv', WireInv, DecisionInv, CountInv, [Next]_vars
  PROVE  CountInv'
<1>1. ASSUME requests' = requests, \A d, s : Counted(d, s)' = Counted(d, s) PROVE CountInv'
  BY <1>1 DEF CountInv
<1>2. CASE UNCHANGED <<pc, outcome, requests>>
  BY <1>1, <1>2 DEF Counted
<1>3. ASSUME NEW r \in Requests, RecordRequest(r) PROVE CountInv'
  <2> DEFINE d0 == outcome[r].decision
             s0 == outcome[r].status
  <2>1. /\ pc[r] = "record" /\ pc' = [pc EXCEPT ![r] = "count"] /\ outcome' = outcome
        /\ requests' = [requests EXCEPT ![<<d0, s0>>] = @ + 1]
    BY <1>3 DEF RecordRequest, Goto, local
  <2>2. d0 \in Decisions /\ s0 \in AllStatuses
    BY <2>1 DEF DecisionInv, Settled, Decision, Decisions
  <2>3. ASSUME NEW d \in Decisions, NEW s \in AllStatuses PROVE requests'[<<d, s>>] = Cardinality(Counted(d, s)')
    <3>1. IsFiniteSet(Counted(d, s)) /\ Cardinality(Counted(d, s)) = requests[<<d, s>>] /\ r \notin Counted(d, s)
      <4>1. Counted(d, s) \in SUBSET Requests /\ r \notin Counted(d, s)
        BY <2>1 DEF Counted
      <4> QED
        BY <4>1, RequestsAssumption, FS_Subset DEF CountInv
    <3>2. CASE d = d0 /\ s = s0
      <4>1. Counted(d, s)' = Counted(d, s) \cup {r}
        BY <2>1, <3>2 DEF Counted, TypeInv
      <4>2. Cardinality(Counted(d, s) \cup {r}) = Cardinality(Counted(d, s)) + 1
        BY <3>1, FS_AddElement
      <4>3. requests'[<<d, s>>] = requests[<<d, s>>] + 1
        BY <2>1, <2>2, <3>2 DEF TypeInv
      <4> QED
        BY <3>1, <4>1, <4>2, <4>3
    <3>3. CASE ~(d = d0 /\ s = s0)
      <4>1. Counted(d, s)' = Counted(d, s)
        BY <2>1, <3>3 DEF Counted, TypeInv
      <4>2. requests'[<<d, s>>] = requests[<<d, s>>]
        BY <2>1, <2>2, <3>3 DEF TypeInv
      <4> QED
        BY <3>1, <4>1, <4>2
    <3> QED
      BY <3>2, <3>3
  <2> QED
    BY <2>3 DEF CountInv
<1>4. ASSUME NEW r \in Requests, Goroutine(r), ~RecordRequest(r) PROVE CountInv'
  <2>1. requests' = requests
    BY <1>4, Zenon DEF Goroutine, Step, Arrive, ServeHTTP, Forward, Timeout, RecordDeniedMethod, Write,
       Respond, Relay, Unavailable, ClientGone, handleUpstreamError, counters
  <2>2. Moves(r) /\ (pc[r] = "record" => UNCHANGED <<pc, outcome>>)
    <3>1. Moves(r)
      BY <1>4, GoroutineMoves
    <3>2. pc[r] # "record"
      BY <1>4, Zenon DEF Goroutine, Step, Arrive, ServeHTTP, Forward, Timeout, RecordDeniedMethod, Write,
         Respond, Relay, Unavailable, ClientGone
    <3> QED
      BY <3>1, <3>2
  <2>3. \A q \in Requests :
          /\ pc'[q] \in {"count", "write", "done"} <=> pc[q] \in {"count", "write", "done"}
          /\ pc[q] \in {"count", "write", "done"} => outcome'[q] = outcome[q]
    BY <2>2 DEF Moves, Arrive, Goto, Settles, Settle, TypeInv, Functional
  <2>4. \A d, s : Counted(d, s)' = Counted(d, s)
    BY <2>3 DEF Counted
  <2> QED
    BY <1>1, <2>1, <2>4
<1>5. CASE Deliver
  BY <1>2, <1>5 DEF Deliver, local, counters
<1>6. CASE UNCHANGED vars
  BY <1>2, <1>6 DEF vars, local, counters
<1> QED
  BY <1>3, <1>4, <1>5, <1>6, Zenon DEF Next, Goroutine

-----------------------------------------------------------------------------
(* The denied methods.                                                     *)

\* An envelope that policy lets through, and a body that is none, have no
\* refused call.
LEMMA NothingRefused ==
  ASSUME NEW b \in Bodies, ~anyDenied(b) \/ b.kind \notin {"single", "batch"}
  PROVE  Filter => NotAllowed(b) = {}
<1>1. CASE ~anyDenied(b)
  BY <1>1 DEF anyDenied, NotAllowed
<1>2. CASE b.kind \notin {"single", "batch"}
  <2>1. b.calls = <<>>
    BY <1>2, BodiesAssumption, Zenon
  <2>2. DOMAIN b.calls = {}
    BY <2>1
  <2> QED
    BY <2>2 DEF NotAllowed
<1> QED
  BY <1>1, <1>2

\* The refused calls are positions of the envelope, with a label each.
LEMMA RefusedType ==
  ASSUME NEW b \in Bodies
  PROVE  NotAllowed(b) \subseteq Nat /\ \A i \in NotAllowed(b) : b.calls[i].method \in Labels
<1>1. b.calls \in Seq({b.calls[i] : i \in DOMAIN b.calls})
  BY BodiesAssumption, Zenon
<1>2. DOMAIN b.calls \subseteq Nat
  BY <1>1
<1> QED
  BY <1>2 DEF NotAllowed, Labels

\* One round of the loop counts one call that was left.
Counts(r, i) ==
    /\ pc[r] = "count" /\ i \in labels[r]
    /\ denied' = [denied EXCEPT ![body[r].calls[i].method] = @ + 1]
    /\ labels' = [labels EXCEPT ![r] = @ \ {i}]
    /\ UNCHANGED <<pc, body>>

\* A denial leaves its refused calls to be counted.
Denies(r) ==
    /\ pc[r] = "read" /\ Goto(r, "record") /\ Filter
    /\ labels' = [labels EXCEPT ![r] = NotAllowed(body[r])]
    /\ UNCHANGED <<body, denied>>

\* Any other step settles only what has no refused call, and leaves the loop
\* only when nothing is left.
Passes(r) ==
    /\ UNCHANGED <<labels, denied>>
    /\ pc[r] \in Early /\ pc'[r] \in Settled /\ Filter => NotAllowed(body'[r]) = {}
    /\ pc[r] \in Settled => body'[r] = body[r] /\ pc'[r] \in Settled \ {"record"}
    /\ pc'[r] \in {"write", "done"} => pc[r] \in {"write", "done"} \/ labels[r] = {}

\* What a step of one goroutine does to the loop.
LEMMA LoopMoves ==
  ASSUME TypeInv, WireInv, NEW r \in Requests, Goroutine(r)
  PROVE  (\E i \in labels[r] : Counts(r, i)) \/ Denies(r) \/ Passes(r)
<1>1. pc[r] # "new" => body[r] \in Bodies
  BY DEF TypeInv
<1>2. ASSUME Settles(r), UNCHANGED <<body, labels, denied>>,
             ~anyDenied(body[r]) \/ body[r].kind \notin {"single", "batch"}
      PROVE  Passes(r)
  <2>1. pc[r] \in {"read", "sent", "reading"} /\ pc' = [pc EXCEPT ![r] = "record"]
    BY <1>2 DEF Settles, Settle, Goto
  <2>2. Filter => NotAllowed(body'[r]) = {}
    BY <1>1, <1>2, <2>1, NothingRefused
  <2> QED
    BY <1>2, <2>1, <2>2 DEF Passes, TypeInv, Early, Settled
<1>3. CASE ServeHTTP(r)
  <2>1. pc[r] = "read" /\ UNCHANGED <<body, denied>>
    BY <1>3, Zenon DEF ServeHTTP, counters
  <2>2. \/ body[r].kind \in {"tooLarge", "unreadable", "malformed"} /\ UNCHANGED labels
        \/ body[r].kind \in {"single", "batch"} /\ anyDenied(body[r]) /\ deny(r)
        \/ ~anyDenied(body[r]) /\ UNCHANGED labels
    BY <1>3 DEF ServeHTTP, reject
  <2>3. CASE deny(r) /\ anyDenied(body[r])
    BY <2>1, <2>3, Zenon DEF deny, Denies, Settle, anyDenied
  <2>4. CASE UNCHANGED labels /\ (~anyDenied(body[r]) \/ body[r].kind \notin {"single", "batch"})
    <3>1. Settles(r) \/ Goto(r, "forward")
      BY <1>3, SettleStep
    <3>2. CASE Goto(r, "forward")
      BY <2>1, <2>4, <3>2 DEF Passes, Goto, TypeInv, Early, Settled
    <3> QED
      BY <1>2, <2>1, <2>4, <3>1, <3>2
  <2> QED
    BY <2>2, <2>3, <2>4
<1>4. CASE Timeout(r) \/ Relay(r) \/ Unavailable(r) \/ ClientGone(r)
  <2>1. pc[r] \in {"sent", "reading"} /\ UNCHANGED <<body, labels, denied>>
    BY <1>4, Zenon DEF Timeout, Relay, Unavailable, ClientGone, handleUpstreamError, counters
  <2>2. Passed(r) /\ Settles(r)
    BY <1>4, <2>1, SettleStep DEF WireInv
  <2> QED
    BY <1>2, <2>1, <2>2 DEF Passed
<1>5. CASE Arrive(r)
  BY <1>5 DEF Arrive, Goto, Passes, TypeInv, counters, Early, Settled
<1>6. CASE Forward(r) \/ Respond(r) \/ RecordRequest(r) \/ Write(r)
  BY <1>6 DEF Forward, Respond, RecordRequest, Write, local, counters, Goto, Passes, TypeInv, Early, Settled
<1>7. CASE RecordDeniedMethod(r)
  <2>1. CASE labels[r] = {} /\ Goto(r, "write") /\ UNCHANGED <<labels, denied>>
    BY <1>7, <2>1 DEF RecordDeniedMethod, Goto, Passes, TypeInv, Early, Settled
  <2>2. CASE \E i \in labels[r] : CountCall(r, i) /\ labels' = [labels EXCEPT ![r] = @ \ {i}] /\ UNCHANGED pc
    BY <1>7, <2>2, Zenon DEF RecordDeniedMethod, CountCall, Counts
  <2> QED
    BY <1>7, <2>1, <2>2, Zenon DEF RecordDeniedMethod
<1> QED
  BY <1>3, <1>4, <1>5, <1>6, <1>7, Zenon DEF Goroutine, Step

\* Every step keeps what is left to count within what is due.
LEMMA LoopStep ==
  ASSUME TypeInv, TypeInv', WireInv, LoopInv, [Next]_vars
  PROVE  LoopInv'
<1>1. CASE UNCHANGED <<pc, body, labels, denied>>
  BY <1>1 DEF LoopInv, Due
<1>2. ASSUME NEW r \in Requests, Goroutine(r) PROVE LoopInv'
  <2>1. /\ \A q \in Requests : q # r => pc'[q] = pc[q] /\ body'[q] = body[q]
        /\ pc[r] # "new" => body'[r] = body[r]
    BY <1>2, GoroutineMoves, MovesOnly
  <2>2. ASSUME labels' \in [Requests -> SUBSET Nat], denied' \in [Labels -> Nat],
               \A q \in Requests : q # r => labels'[q] = labels[q],
               labels'[r] \subseteq Due(r)',
               pc'[r] = "record" => labels'[r] = Due(r)',
               pc'[r] \in {"write", "done"} => labels'[r] = {}
        PROVE  LoopInv'
    <3>1. \A q \in Requests : q # r => Due(q)' = Due(q)
      BY <2>1 DEF Due
    <3> QED
      BY <2>1, <2>2, <3>1 DEF LoopInv
  <2>3. ASSUME NEW i \in labels[r], Counts(r, i) PROVE LoopInv'
    <3>1. body[r] \in Bodies /\ i \in NotAllowed(body[r])
      BY <2>3 DEF Counts, TypeInv, LoopInv, Due
    <3>2. body[r].calls[i].method \in Labels
      BY <3>1, RefusedType
    <3>3. denied' \in [Labels -> Nat]
      BY <2>3, <3>2 DEF Counts, LoopInv
    <3>4. Due(r)' = Due(r) /\ pc'[r] = "count"
      BY <2>3 DEF Counts, Due
    <3>5. labels' = [labels EXCEPT ![r] = @ \ {i}]
      BY <2>3 DEF Counts
    <3> QED
      BY <2>2, <3>3, <3>4, <3>5 DEF LoopInv
  <2>4. CASE Denies(r)
    <3>1. body[r] \in Bodies
      BY <2>4 DEF Denies, TypeInv
    <3>2. NotAllowed(body[r]) \in SUBSET Nat
      BY <3>1, RefusedType
    <3>3. pc'[r] = "record" /\ Due(r)' = NotAllowed(body[r])
      BY <2>4 DEF Denies, Goto, TypeInv, Due, Settled
    <3>4. labels' = [labels EXCEPT ![r] = NotAllowed(body[r])] /\ denied' = denied
      BY <2>4 DEF Denies
    <3> QED
      BY <2>2, <3>2, <3>3, <3>4 DEF LoopInv
  <2>5. CASE Passes(r)
    <3>1. labels' = labels /\ denied' = denied
      BY <2>5 DEF Passes
    <3>2. CASE pc[r] \in Settled
      <4>1. Due(r)' = Due(r) /\ pc'[r] # "record"
        BY <2>5, <3>2 DEF Passes, Due
      <4> QED
        BY <2>2, <2>5, <3>1, <4>1 DEF LoopInv, Passes
    <3>3. CASE pc[r] \in Early
      <4>1. Due(r) = {} /\ labels[r] = {}
        BY <3>3 DEF Due, Early, Settled, LoopInv
      <4>2. Due(r)' = {}
        BY <2>5, <3>3 DEF Passes, Due
      <4> QED
        BY <2>2, <3>1, <4>1, <4>2 DEF LoopInv
    <3> QED
      BY <3>2, <3>3 DEF TypeInv
  <2> QED
    BY <1>2, <2>3, <2>4, <2>5, LoopMoves
<1>3. CASE Deliver
  BY <1>1, <1>3 DEF Deliver, local, counters
<1>4. CASE UNCHANGED vars
  BY <1>1, <1>4 DEF vars, local, counters
<1> QED
  BY <1>2, <1>3, <1>4, Zenon DEF Next, Goroutine

\* Every step counts as many calls as it adds to the counter.
LEMMA RefusedStep ==
  ASSUME TypeInv, TypeInv', WireInv, LoopInv, LoopInv', RefusedInv, [Next]_vars
  PROVE  RefusedInv'
<1>1. ASSUME denied' = denied, \A m : CountedCalls(m)' = CountedCalls(m) PROVE RefusedInv'
  BY <1>1, Zenon DEF RefusedInv
<1>2. CASE UNCHANGED <<pc, body, labels, denied>>
  BY <1>1, <1>2 DEF CountedCalls, Due
<1>3. ASSUME NEW r \in Requests, Goroutine(r) PROVE RefusedInv'
  <2>1. /\ \A q \in Requests : q # r => pc'[q] = pc[q] /\ body'[q] = body[q]
        /\ pc[r] # "new" => body'[r] = body[r]
    BY <1>3, GoroutineMoves, MovesOnly
  <2>2. \A q \in Requests : q # r => Due(q)' = Due(q)
    BY <2>1 DEF Due
  <2>3. ASSUME denied' = denied, \A q \in Requests : q # r => labels'[q] = labels[q],
               Due(r)' \ labels'[r] = Due(r) \ labels[r],
               pc[r] \in Settled \/ Due(r) = {}
        PROVE  RefusedInv'
    <3>1. ASSUME NEW m PROVE CountedCalls(m)' = CountedCalls(m)
      <4>1. ASSUME NEW c \in Requests \X Nat
            PROVE  /\ c[2] \in (Due(c[1]) \ labels[c[1]])' <=> c[2] \in Due(c[1]) \ labels[c[1]]
                   /\ c[2] \in Due(c[1]) => body'[c[1]] = body[c[1]]
        <5>1. c[1] \in Requests
          OBVIOUS
        <5>2. CASE c[1] = r
          BY <2>1, <2>3, <5>2 DEF Settled
        <5>3. CASE c[1] # r
          BY <2>1, <2>2, <2>3, <5>1, <5>3
        <5> QED
          BY <5>2, <5>3
      <4> QED
        BY <4>1 DEF CountedCalls
    <3> QED
      BY <1>1, <2>3, <3>1
  <2>4. CASE Denies(r)
    <3>1. denied' = denied /\ labels' = [labels EXCEPT ![r] = NotAllowed(body[r])] /\ pc[r] = "read"
      BY <2>4 DEF Denies
    <3>2. Due(r) = {} /\ Due(r)' = labels'[r]
      BY <2>4, <3>1 DEF Denies, Due, Settled, LoopInv, Goto, TypeInv
    <3> QED
      BY <2>3, <3>1, <3>2 DEF LoopInv
  <2>5. CASE Passes(r)
    <3>1. labels' = labels /\ denied' = denied
      BY <2>5 DEF Passes
    <3>2. CASE pc[r] \in Settled
      <4>1. Due(r)' = Due(r)
        BY <2>5, <3>2 DEF Passes, Due
      <4> QED
        BY <2>3, <3>1, <3>2, <4>1
    <3>3. CASE pc[r] \in Early
      <4>1. Due(r) = {} /\ Due(r)' = {}
        BY <2>5, <3>3 DEF Passes, Due, Early, Settled
      <4> QED
        BY <2>3, <3>1, <4>1
    <3> QED
      BY <3>2, <3>3 DEF TypeInv
  <2>6. ASSUME NEW i \in labels[r], Counts(r, i) PROVE RefusedInv'
    <3> DEFINE m0 == body[r].calls[i].method
    <3>1. /\ pc[r] = "count" /\ labels' = [labels EXCEPT ![r] = @ \ {i}] /\ UNCHANGED <<pc, body>>
          /\ denied' = [denied EXCEPT ![m0] = @ + 1]
      BY <2>6 DEF Counts
    <3>2. i \in Due(r) /\ i \in Nat /\ m0 \in Labels
      <4>1. body[r] \in Bodies /\ i \in NotAllowed(body[r]) /\ i \in Due(r)
        BY <3>1 DEF TypeInv, LoopInv, Due
      <4> QED
        BY <4>1, RefusedType
    <3>3. \A q : Due(q)' = Due(q)
      BY <3>1 DEF Due
    <3>4. labels'[r] = labels[r] \ {i} /\ \A q \in Requests : q # r => labels'[q] = labels[q]
      BY <3>1 DEF LoopInv
    <3>5. ASSUME NEW m \in Labels PROVE IsFiniteSet(CountedCalls(m))' /\ denied'[m] = Cardinality(CountedCalls(m))'
      <4>1. IsFiniteSet(CountedCalls(m)) /\ denied[m] = Cardinality(CountedCalls(m))
        BY DEF RefusedInv
      <4>2. CASE m = m0
        <5>1. CountedCalls(m)' = CountedCalls(m) \cup {<<r, i>>} /\ <<r, i>> \notin CountedCalls(m)
          BY <3>1, <3>2, <3>3, <3>4, <4>2 DEF CountedCalls
        <5>2. IsFiniteSet(CountedCalls(m)') /\ Cardinality(CountedCalls(m)') = Cardinality(CountedCalls(m)) + 1
          <6> DEFINE S == CountedCalls(m)
          <6>1. IsFiniteSet(S) /\ <<r, i>> \notin S /\ CountedCalls(m)' = S \cup {<<r, i>>}
            BY <4>1, <5>1
          <6> HIDE DEF S
          <6>2. IsFiniteSet(S \cup {<<r, i>>}) /\ Cardinality(S \cup {<<r, i>>}) = Cardinality(S) + 1
            BY <6>1, FS_AddElement
          <6> QED
            BY <6>1, <6>2, Zenon DEF S
        <5>3. denied'[m] = denied[m] + 1
          BY <3>1, <3>2, <4>2 DEF LoopInv
        <5> QED
          BY <4>1, <5>2, <5>3
      <4>3. CASE m # m0
        <5>1. CountedCalls(m)' = CountedCalls(m)
          BY <3>1, <3>2, <3>3, <3>4, <4>3 DEF CountedCalls
        <5>2. denied'[m] = denied[m]
          BY <3>1, <3>2, <4>3 DEF LoopInv
        <5> QED
          BY <4>1, <5>1, <5>2, Zenon
      <4> QED
        BY <4>2, <4>3
    <3> QED
      BY <3>5 DEF RefusedInv
  <2> QED
    BY <1>3, <2>4, <2>5, <2>6, LoopMoves
<1>4. CASE Deliver
  BY <1>2, <1>4 DEF Deliver, local, counters
<1>5. CASE UNCHANGED vars
  BY <1>2, <1>5 DEF vars, local, counters
<1> QED
  BY <1>3, <1>4, <1>5, Zenon DEF Next, Goroutine

-----------------------------------------------------------------------------
(* The theorems.                                                           *)

\* The invariant holds initially.
LEMMA InitInv == Init => IInv
<1> SUFFICES ASSUME Init PROVE IInv
  OBVIOUS
<1>1. TypeInv
  BY DEF Init, TypeInv, Functional, Early, AllStatuses
<1>2. WireInv
  BY DEF Init, WireInv
<1>3. DecisionInv /\ FitInv
  BY DEF Init, DecisionInv, FitInv, Early, Settled, NoOutcome, Outcome
<1>4. CountInv
  <2>1. \A d, s : Counted(d, s) = {}
    BY DEF Init, Counted
  <2> QED
    BY <2>1, FS_EmptySet DEF Init, CountInv, AllStatuses
<1>5. LoopInv
  BY DEF Init, LoopInv, Due, Settled
<1>6. RefusedInv
  <2>1. \A m : CountedCalls(m) = {}
    BY DEF Init, CountedCalls, Due, Settled
  <2> QED
    BY <2>1, FS_EmptySet DEF Init, RefusedInv
<1> QED
  BY <1>1, <1>2, <1>3, <1>4, <1>5, <1>6 DEF IInv

\* The inductive invariant: the wire carries only what policy let through, and
\* settled outcomes agree with their bodies and with the counters.
THEOREM Invariance == Spec => []IInv
<1>1. IInv /\ [Next]_vars => IInv'
  <2> SUFFICES ASSUME IInv, [Next]_vars PROVE IInv'
    OBVIOUS
  <2> USE DEF IInv
  <2>1. TypeInv'
    BY TypeStep
  <2>2. WireInv'
    BY <2>1, WireStep
  <2>3. DecisionInv' /\ FitInv'
    BY <2>1, OutcomeStep
  <2>4. CountInv'
    BY <2>1, CountStep
  <2>5. LoopInv'
    BY <2>1, LoopStep
  <2>6. RefusedInv'
    BY <2>1, <2>5, RefusedStep
  <2> QED
    BY <2>1, <2>2, <2>3, <2>4, <2>5, <2>6
<1> QED
  BY InitInv, <1>1, PTL DEF Spec

\* "The deny path never reaches upstream" (policy.go, rpc.go), whatever the
\* size of the batch and however late bitcoind takes the request in: a denied
\* envelope never does, and of the others every call is allowed as the proxy
\* reads it, and as bitcoind reads it when its members are given once and under
\* their exact names, whatever bitcoind makes of the other calls.
THEOREM OnlyAllowedReachUpstreamHolds == Spec => []OnlyAllowedReachUpstream
<1>1. IInv => OnlyAllowedReachUpstream
  <2> SUFFICES ASSUME IInv, NEW q \in received
               PROVE  /\ outcome[q.request].decision # "denied"
                      /\ Filter => \A i \in DOMAIN body[q.request].calls :
                            /\ body[q.request].calls[i].method \in Baseline \cup Extend
                            /\ body[q.request].calls[i].exact => q.methods[i] \in Baseline \cup Extend
    BY DEF OnlyAllowedReachUpstream
  <2>1. /\ q.request \in Requests /\ q.methods \in Readings(body[q.request]) /\ Passed(q.request)
    BY DEF IInv, WireInv
  <2>2. Filter => \A i \in DOMAIN body[q.request].calls :
           /\ body[q.request].calls[i].method \in Baseline \cup Extend
           /\ body[q.request].calls[i].exact => q.methods[i] \in Baseline \cup Extend
    BY <2>1, AllowedIsListed DEF Passed, anyDenied, Readings
  <2>3. Decision(q.request) = "allowed"
    BY <2>1 DEF Decision, Passed
  <2>4. outcome[q.request].decision # "denied"
    BY <2>1, <2>3 DEF IInv, TypeInv, DecisionInv
  <2> QED
    BY <2>2, <2>4
<1> QED
  BY <1>1, Invariance, PTL

\* Every error reply of denyBody, envelopeErrorBody and reject has the shape,
\* the framing, the ids and the blame that its request calls for.
THEOREM ReplyFitsHolds == Spec => []ReplyFits
<1>1. IInv => ReplyFits
  BY DEF IInv, FitInv, Fits, ReplyFits, Done, Settled
<1> QED
  BY <1>1, Invariance, PTL

\* btc_rpc_proxy_requests_total has counted every answered request once, under
\* the decision of policy and the status of the reply, and at most the requests
\* in flight on top, for any number of concurrent requests.
THEOREM AnsweredAreCountedHolds == Spec => []AnsweredAreCounted
<1>1. IInv => AnsweredAreCounted
  <2> SUFFICES ASSUME IInv, NEW d \in Decisions, NEW s \in AllStatuses
               PROVE  LET answered == Cardinality({r \in Done : Decision(r) = d /\ outcome[r].status = s})
                      IN  requests[<<d, s>>] \in answered .. answered + Cardinality(InFlight)
    BY DEF AnsweredAreCounted, AllStatuses
  <2> DEFINE A == {r \in Done : Decision(r) = d /\ outcome[r].status = s}
             B == Counted(d, s) \ A
  <2>1. requests[<<d, s>>] = Cardinality(Counted(d, s))
    BY DEF IInv, CountInv
  <2>2. A \subseteq Counted(d, s) /\ B \subseteq InFlight
    BY DEF IInv, DecisionInv, Counted, Done, InFlight, Settled
  <2>3. IsFiniteSet(Counted(d, s)) /\ IsFiniteSet(InFlight) /\ IsFiniteSet(A) /\ IsFiniteSet(B)
    <3>1. Counted(d, s) \in SUBSET Requests /\ InFlight \in SUBSET Requests /\ A \in SUBSET Requests /\ B \in SUBSET Requests
      BY DEF Counted, InFlight, Done
    <3> QED
      BY <3>1, RequestsAssumption, FS_Subset
  <2>4. Cardinality(B) <= Cardinality(InFlight)
    BY <2>2, <2>3, FS_Subset
  <2>5. Cardinality(Counted(d, s)) = Cardinality(A) + Cardinality(B)
    <3>1. Counted(d, s) = A \cup B /\ A \cap B = {}
      BY <2>2
    <3> HIDE DEF A, B
    <3> QED
      <4>1. Cardinality(A \cup B) = Cardinality(A) + Cardinality(B) - Cardinality(A \cap B)
        BY <2>3, FS_Union
      <4>2. Cardinality(A \cap B) = 0 /\ Cardinality(A) \in Nat /\ Cardinality(B) \in Nat
        BY <2>3, <3>1, FS_EmptySet, FS_CardinalityType
      <4> QED
        BY <3>1, <4>1, <4>2
  <2>6. /\ Cardinality(A) \in Nat /\ Cardinality(B) \in Nat /\ Cardinality(InFlight) \in Nat
    BY <2>3, FS_CardinalityType
  <2> HIDE DEF A, B
  <2>7. requests[<<d, s>>] \in Cardinality(A) .. Cardinality(A) + Cardinality(InFlight)
    BY <2>1, <2>4, <2>5, <2>6
  <2> QED
    BY <2>7 DEF A
<1> QED
  BY <1>1, Invariance, PTL

\* btc_rpc_proxy_denied_method_total has, when no request is in flight, counted
\* every refused call of every denied envelope once under its method, and
\* nothing else: no round of one goroutine's loop is lost to another's.
THEOREM RefusalsCountedHolds == Spec => []RefusalsCounted
<1>1. IInv => RefusalsCounted
  <2> SUFFICES ASSUME IInv, InFlight = {}, NEW m \in Labels
               PROVE  denied[m] = IF Filter /\ m \notin Baseline \cup Extend
                                  THEN Cardinality(UNION {Occurrences(m, r) : r \in Done})
                                  ELSE 0
    BY DEF RefusalsCounted
  <2>1. denied[m] = Cardinality(CountedCalls(m))
    BY DEF IInv, RefusedInv
  <2>2. \A r \in Requests : labels[r] = {} /\ Due(r) = IF Filter /\ r \in Done THEN NotAllowed(body[r]) ELSE {}
    BY DEF IInv, LoopInv, InFlight, Done, Due, Settled
  <2>3. CASE Filter /\ m \notin Baseline \cup Extend
    <3>1. \A r \in Done : r \in Requests /\ body[r] \in Bodies
      BY DEF Done, IInv, TypeInv
    <3>2. \A r \in Done : \A i \in DOMAIN body[r].calls : i \in Nat
      <4> SUFFICES ASSUME NEW r \in Done PROVE \A i \in DOMAIN body[r].calls : i \in Nat
        OBVIOUS
      <4>1. body[r].calls \in Seq({body[r].calls[i] : i \in DOMAIN body[r].calls})
        BY <3>1, BodiesAssumption, Zenon
      <4> QED
        BY <4>1
    <3>3. \A r \in Done : \A i \in DOMAIN body[r].calls :
            body[r].calls[i].method = m => i \in NotAllowed(body[r])
      BY <2>3, AllowedIsListed DEF NotAllowed
    <3>4. CountedCalls(m) = UNION {Occurrences(m, r) : r \in Done}
      <4>1. ASSUME NEW r, NEW i
            PROVE  /\ <<r, i>> \in CountedCalls(m) <=>
                        r \in Done /\ i \in DOMAIN body[r].calls /\ body[r].calls[i].method = m
        BY <2>2, <2>3, <3>1, <3>2, <3>3 DEF CountedCalls, NotAllowed
      <4>2. \A c \in CountedCalls(m) : \E r, i : c = <<r, i>>
        BY DEF CountedCalls
      <4>3. ASSUME NEW r, NEW i
            PROVE  <<r, i>> \in Occurrences(m, r) <=> i \in DOMAIN body[r].calls /\ body[r].calls[i].method = m
        BY DEF Occurrences
      <4>4. ASSUME NEW c \in CountedCalls(m) PROVE c \in UNION {Occurrences(m, r) : r \in Done}
        <5>1. PICK r, i : c = <<r, i>>
          BY <4>2, <4>4
        <5>2. r \in Done /\ c \in Occurrences(m, r)
          BY <4>1, <4>3, <4>4, <5>1, Zenon
        <5> QED
          BY <5>2, Zenon
      <4>5. ASSUME NEW c \in UNION {Occurrences(m, r) : r \in Done} PROVE c \in CountedCalls(m)
        <5>1. PICK r \in Done : c \in Occurrences(m, r)
          BY <4>5, Zenon
        <5>2. PICK i : c = <<r, i>>
          BY <5>1, Zenon DEF Occurrences
        <5> QED
          BY <4>1, <4>3, <5>1, <5>2, Zenon
      <4> QED
        BY <4>4, <4>5
    <3> QED
      BY <2>1, <2>3, <3>4
  <2>4. CASE ~(Filter /\ m \notin Baseline \cup Extend)
    <3>1. CountedCalls(m) = {}
      BY <2>2, <2>4, AllowedIsListed DEF CountedCalls, NotAllowed
    <3> QED
      BY <2>1, <2>4, <3>1, FS_EmptySet
  <2> QED
    BY <2>3, <2>4
<1> QED
  BY <1>1, Invariance, PTL
=============================================================================
