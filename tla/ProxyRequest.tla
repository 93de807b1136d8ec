---------------------------- MODULE ProxyRequest ----------------------------
(***************************************************************************)
(* The proxy's JSON-RPC path: handler.RPC.ServeHTTP, rpc.Parse, the policy *)
(* allowlist, upstream.Client.Forward and the Prometheus counters.  Each   *)
(* HTTP request runs in a goroutine of its own; they share the counters    *)
(* and bitcoind.                                                           *)
(*                                                                         *)
(* A body is what Parse makes of it: too large or unreadable, malformed, a *)
(* single call, or a batch; what bitcoind makes of the same bytes is a     *)
(* choice of its own.  The steps of a request are the points where another *)
(* goroutine, a scrape of the counters, the client or bitcoind can come in *)
(* between.                                                                *)
(***************************************************************************)
EXTENDS Naturals, Sequences, FiniteSets

CONSTANTS
    Requests,    \* concurrent HTTP requests
    Bodies,      \* request bodies, see Body
    Baseline,    \* built-in allowlist
    Extend,      \* entries of --extend-allowlist
    Filter,      \* whether the allowlist is enforced
    NoMethod,    \* method of a call without a string "method"
    Null,        \* JSON null
    Statuses     \* HTTP statuses that bitcoind answers with

ASSUME FilterAssumption == Filter \in BOOLEAN
ASSUME NoMethodAssumption == NoMethod \notin Baseline \cup Extend
ASSUME RequestsAssumption == IsFiniteSet(Requests)
ASSUME BodiesAssumption ==
    \A b \in Bodies :
        /\ b.kind \in {"tooLarge", "unreadable", "malformed", "single", "batch"}
        /\ b.calls \in Seq({b.calls[i] : i \in DOMAIN b.calls})
        /\ b.kind \notin {"single", "batch"} => b.calls = <<>>
        /\ \A i \in DOMAIN b.calls : b.calls[i].exact \in BOOLEAN

\* A call as rpc.Parse reads it; id is Null both for an explicit null and for a
\* missing id.  exact: each of its members is given once, under its exact name,
\* so that every JSON parser reads the same method.  Parse accepts other calls
\* as well (encoding/json matches names in any case and keeps the last).
Call(m, v, i, e) == [method |-> m, version |-> v, id |-> i, exact |-> e]
\* kind: "tooLarge", "unreadable", "malformed", "single" or "batch".
Body(k, cs) == [kind |-> k, calls |-> cs]
NoBody == Body("none", <<>>)

VARIABLES
    pc,         \* per request: next step of its goroutine
    body,       \* per request: the body the client sends
    outcome,    \* per request: decision, status and reply that were settled
    labels,     \* per request: its refused calls that are still to be counted
    wire,       \* requests on their way to bitcoind
    received,   \* requests that bitcoind received
    requests,   \* btc_rpc_proxy_requests_total by decision and status
    denied      \* btc_rpc_proxy_denied_method_total by method

local == <<body, outcome, labels>>
net == <<wire, received>>
counters == <<requests, denied>>
vars == <<pc, local, net, counters>>

Decisions == {"allowed", "denied"}
OwnStatuses == {400, 403, 413, 502, 504}
Labels == {NoMethod} \cup UNION {{b.calls[i].method : i \in DOMAIN b.calls} : b \in Bodies}

\* An error reply: per call its version, its id and the code.
ErrorReply(call, code) == [version |-> call.version, id |-> call.id, code |-> code]
simpleError(code) == <<ErrorReply(Call(NoMethod, "V1", Null, TRUE), code)>>
Outcome(decision, status, shape, parts) ==
    [decision |-> decision, status |-> status, shape |-> shape, parts |-> parts]
NoOutcome == Outcome("none", 0, "none", <<>>)

Init ==
    /\ pc = [r \in Requests |-> "new"]
    /\ body = [r \in Requests |-> NoBody]
    /\ outcome = [r \in Requests |-> NoOutcome]
    /\ labels = [r \in Requests |-> {}]
    /\ wire = {}
    /\ received = {}
    /\ requests = [ds \in Decisions \X (OwnStatuses \cup Statuses) |-> 0]
    /\ denied = [m \in Labels |-> 0]

-----------------------------------------------------------------------------
(* Policy.                                                                 *)

Allowlist == Baseline \cup Extend

allowed(call) == call.method # NoMethod /\ call.method \in Allowlist

\* Mutant: only the first call of a batch is looked at.
anyDeniedFirst(b) == Filter /\ b.calls # <<>> /\ ~allowed(b.calls[1])

anyDenied(b) == Filter /\ \E i \in DOMAIN b.calls : ~allowed(b.calls[i])

\* Per call the reply of a denied envelope, and the calls that caused it.
DenyReply(call) == ErrorReply(call, IF allowed(call) THEN "InvalidRequest" ELSE "MethodNotFound")
NotAllowed(b) == {i \in DOMAIN b.calls : ~allowed(b.calls[i])}

Shape(b) == IF b.kind = "batch" THEN "array" ELSE "object"

\* Mutant: the allowed calls of a rejected batch are blamed as well.
denyBodyBlamesAll(b) == [i \in DOMAIN b.calls |-> ErrorReply(b.calls[i], "MethodNotFound")]

denyBody(b) == [i \in DOMAIN b.calls |-> DenyReply(b.calls[i])]
envelopeErrorBody(b) == [i \in DOMAIN b.calls |-> ErrorReply(b.calls[i], "InternalError")]

-----------------------------------------------------------------------------
(* The handler.                                                            *)

Goto(r, label) == pc' = [pc EXCEPT ![r] = label]
Settle(r, o) ==
    /\ outcome' = [outcome EXCEPT ![r] = o]
    /\ Goto(r, "record")

Arrive(r) ==
    /\ pc[r] = "new"
    /\ \E b \in Bodies : body' = [body EXCEPT ![r] = b]
    /\ Goto(r, "read")
    /\ UNCHANGED <<outcome, labels, net, counters>>

reject(r, status, code) ==
    /\ Settle(r, Outcome("denied", status, "object", simpleError(code)))
    /\ UNCHANGED labels

deny(r) ==
    /\ Settle(r, Outcome("denied", 403, Shape(body[r]), denyBody(body[r])))
    /\ labels' = [labels EXCEPT ![r] = NotAllowed(body[r])]

\* Read the body, parse it and decide: all local to the goroutine.
ServeHTTP(r) ==
    /\ pc[r] = "read"
    /\ \/ body[r].kind = "tooLarge" /\ reject(r, 413, "InvalidRequest")
       \/ body[r].kind \in {"unreadable", "malformed"} /\ reject(r, 400, "ParseError")
       \/ /\ body[r].kind \in {"single", "batch"}
          /\ IF anyDenied(body[r])
             THEN deny(r)
             ELSE Goto(r, "forward") /\ UNCHANGED <<outcome, labels>>
    /\ UNCHANGED <<body, net, counters>>

\* The methods that bitcoind may read in an envelope.  It is sent the bytes of
\* the body and not what Parse made of them: of a call that is not exact its own
\* parser may take any method.
Readings(b) ==
    {ms \in [DOMAIN b.calls -> Labels] :
        \A i \in DOMAIN b.calls : b.calls[i].exact => ms[i] = b.calls[i].method}

\* What bitcoind gets.  The Authorization, the caller's or the proxy's own,
\* plays no part in what the proxy does.
UpstreamRequest(r, ms) == [request |-> r, methods |-> ms]

Forward(r) ==
    /\ pc[r] = "forward"
    /\ Goto(r, "sent")
    /\ \E ms \in Readings(body[r]) : wire' = wire \cup {UpstreamRequest(r, ms)}
    /\ UNCHANGED <<local, received, counters>>

\* bitcoind takes a request in, possibly after the proxy stopped waiting.
Deliver ==
    /\ \E q \in wire : wire' = wire \ {q} /\ received' = received \cup {q}
    /\ UNCHANGED <<pc, local, counters>>

Delivered(r) == \E q \in received : q.request = r

\* The status line and headers of the response arrive.
Respond(r) ==
    /\ pc[r] = "sent"
    /\ Delivered(r)
    /\ Goto(r, "reading")
    /\ UNCHANGED <<local, net, counters>>

\* The response is complete: its status and body are passed on verbatim.
Relay(r) ==
    /\ pc[r] = "reading"
    /\ \E s \in Statuses : Settle(r, Outcome("allowed", s, "verbatim", <<>>))
    /\ UNCHANGED <<body, labels, net, counters>>

handleUpstreamError(r, status) ==
    /\ Settle(r, Outcome("allowed", status, Shape(body[r]), envelopeErrorBody(body[r])))
    /\ UNCHANGED <<body, labels, received, counters>>

\* Mutant: only the wait for the headers is limited.
TimeoutHeadersOnly(r) ==
    /\ pc[r] = "sent"
    /\ handleUpstreamError(r, 504)
    /\ UNCHANGED wire

\* The client's timeout expires before the headers, or while the body is read.
Timeout(r) ==
    \/ pc[r] = "sent" /\ handleUpstreamError(r, 504) /\ UNCHANGED wire
    \/ pc[r] = "reading" /\ handleUpstreamError(r, 502) /\ UNCHANGED wire

\* The connection is refused, or breaks.
Unavailable(r) ==
    /\ pc[r] \in {"sent", "reading"}
    /\ handleUpstreamError(r, 502)
    /\ wire' = {q \in wire : q.request # r}

\* The caller disconnects, which cancels the request's context.
ClientGone(r) ==
    /\ pc[r] \in {"sent", "reading"}
    /\ handleUpstreamError(r, 502)
    /\ UNCHANGED wire

\* Mutant: only denials are counted.
RecordDenials(r) ==
    /\ pc[r] = "record"
    /\ Goto(r, "count")
    /\ IF outcome[r].decision = "denied"
       THEN requests' = [requests EXCEPT ![<<outcome[r].decision, outcome[r].status>>] = @ + 1]
       ELSE UNCHANGED requests
    /\ UNCHANGED <<local, net, denied>>

RecordRequest(r) ==
    /\ pc[r] = "record"
    /\ Goto(r, "count")
    /\ requests' = [requests EXCEPT ![<<outcome[r].decision, outcome[r].status>>] = @ + 1]
    /\ UNCHANGED <<local, net, denied>>

\* RecordDeniedMethod(methodLabel(call)) for call i of r, the next in order.
CountCall(r, i) ==
    /\ i \in labels[r] /\ \A j \in labels[r] : i <= j
    /\ denied' = [denied EXCEPT ![body[r].calls[i].method] = @ + 1]

\* Mutant: only the first denied method of a batch is counted.
RecordFirstMethod(r) ==
    /\ pc[r] = "count"
    /\ Goto(r, "write")
    /\ \/ labels[r] = {} /\ UNCHANGED denied
       \/ \E i \in labels[r] : CountCall(r, i)
    /\ UNCHANGED <<local, net, requests>>

\* The loop over the denied methods.
RecordDeniedMethod(r) ==
    /\ pc[r] = "count"
    /\ \/ labels[r] = {} /\ Goto(r, "write") /\ UNCHANGED <<labels, denied>>
       \/ \E i \in labels[r] :
             /\ CountCall(r, i)
             /\ labels' = [labels EXCEPT ![r] = @ \ {i}]
             /\ UNCHANGED pc
    /\ UNCHANGED <<body, outcome, net, requests>>

\* The reply leaves (whether or not the caller is still there).
Write(r) ==
    /\ pc[r] = "write"
    /\ Goto(r, "done")
    /\ UNCHANGED <<local, net, counters>>

Step(r) ==
    \/ ServeHTTP(r) \/ Forward(r) \/ Timeout(r)
    \/ RecordRequest(r) \/ RecordDeniedMethod(r) \/ Write(r)

Next ==
  \/ Deliver
  \/ \E r \in Requests :
        \/ Arrive(r) \/ Step(r)
        \/ Respond(r) \/ Relay(r) \/ Unavailable(r) \/ ClientGone(r)

Spec == Init /\ [][Next]_vars

\* Goroutines are scheduled and the HTTP client's timeout expires; nothing is
\* assumed of bitcoind.
FairSpec == Spec /\ \A r \in Requests : WF_vars(Step(r))

-----------------------------------------------------------------------------
(* Properties.                                                             *)

Done == {r \in Requests : pc[r] = "done"}
InFlight == {r \in Requests : pc[r] \notin {"new", "done"}}

\* "The deny path never reaches upstream": bitcoind never receives, early or
\* late, an envelope whose caller is told 400, 403 or 413, such as the allowed
\* part of a rejected batch; and with the filter on, all calls of what it
\* receives are allowed as the proxy reads them, and those whose members are
\* given once and under their exact names also as bitcoind reads them.  Nothing
\* is said of what bitcoind makes of the other calls.
OnlyAllowedReachUpstream ==
    \A q \in received :
        /\ outcome[q.request].decision # "denied"
        /\ Filter => LET calls == body[q.request].calls IN
               \A i \in DOMAIN calls :
                   /\ calls[i].method \in Baseline \cup Extend
                   /\ calls[i].exact => q.methods[i] \in Baseline \cup Extend

\* Every reply the proxy makes itself fits the request: an array with one
\* element per call for a batch, in the caller's framing and with the caller's
\* ids, that blames exactly the calls that policy does not allow.
ReplyFits ==
    \A r \in Done : outcome[r].shape # "verbatim" =>
        LET calls == body[r].calls
            parts == outcome[r].parts
        IN  /\ (outcome[r].shape = "array") <=> (body[r].kind = "batch")
            /\ body[r].kind \in {"single", "batch"} =>
                 /\ Len(parts) = Len(calls)
                 /\ \A i \in DOMAIN parts :
                      /\ parts[i].version = calls[i].version
                      /\ parts[i].id = calls[i].id
                      /\ (parts[i].code = "MethodNotFound") <=>
                         (outcome[r].status = 403 /\ calls[i].method \notin Baseline \cup Extend)

\* What policy says of a request.
Decision(r) == IF body[r].kind \in {"single", "batch"} /\ ~anyDenied(body[r])
               THEN "allowed" ELSE "denied"

\* The counters account for every answered request once, under the decision
\* that policy makes of its body and the status the caller saw; a scrape can
\* only be ahead of the replies, by the requests in flight.
AnsweredAreCounted ==
    \A d \in Decisions, s \in OwnStatuses \cup Statuses :
        LET answered == Cardinality({r \in Done : Decision(r) = d /\ outcome[r].status = s})
        IN  requests[<<d, s>>] \in answered .. answered + Cardinality(InFlight)

Occurrences(m, r) == {<<r, i>> : i \in {j \in DOMAIN body[r].calls : body[r].calls[j].method = m}}

\* Once no request is in flight, the denied-method counter has counted each
\* call that policy refused, once per occurrence.
RefusalsCounted ==
    InFlight = {} =>
        \A m \in Labels :
            denied[m] = IF Filter /\ m \notin Baseline \cup Extend
                        THEN Cardinality(UNION {Occurrences(m, r) : r \in Done})
                        ELSE 0

\* Every request is answered, even when bitcoind is silent.
EveryRequestAnswered == \A r \in Requests : pc[r] = "read" ~> pc[r] = "done"
=============================================================================
