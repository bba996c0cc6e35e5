------------------------------ MODULE Forwarding ------------------------------
(***************************************************************************)
(* A request from its arrival at internal/receiver/otlp.go, through the    *)
(* retries of internal/exporter/forwarder.go, to its answer.  The handler  *)
(* of a request is one goroutine: it forwards the body, waits for that to  *)
(* end, hands a copy to the analysis buffer and answers.                   *)
(*                                                                         *)
(* Requests do not interact except through the counters.  The backend and  *)
(* the network are external: a transmission may be lost, may be accepted   *)
(* or refused, and may arrive after the forwarder stopped waiting for it.  *)
(***************************************************************************)
EXTENDS Naturals, FiniteSets

CONSTANTS
    Requests,   \* the export requests of a behaviour
    MaxRetries  \* withRetry's maxRetries: 3 at every call

ASSUME RequestsAssumption == IsFiniteSet(Requests)
ASSUME RetriesAssumption == MaxRetries \in Nat \ {0}

VARIABLES
    pc,         \* where the handler of each request is
    attempt,    \* withRetry's loop index
    gone,       \* the request's context is done: its client gave up
    outcome,    \* what the Forward call returned
    reply,      \* the backend's response to the attempt in progress
    wire,       \* external: transmissions on their way to the backend
    accepted,   \* external: transmissions the backend took in
    received, sent, dropped,    \* the signal counters
    analysed    \* tasks handed to the analysis buffer, per request

backend == <<wire, accepted>>
counters == <<received, sent, dropped>>
forwardVars == <<pc, attempt, gone, outcome, reply, backend, counters, analysed>>

Attempts == 0 .. MaxRetries - 1

ForwardInit ==
    /\ pc = [r \in Requests |-> "new"]
    /\ attempt = [r \in Requests |-> 0]
    /\ gone = [r \in Requests |-> FALSE]
    /\ outcome = [r \in Requests |-> "none"]
    /\ reply = [r \in Requests |-> "none"]
    /\ wire = {} /\ accepted = {}
    /\ received = 0 /\ sent = 0 /\ dropped = 0
    /\ analysed = [r \in Requests |-> 0]

Goto(r, place) == pc' = [pc EXCEPT ![r] = place]
Outcome(r, o) == outcome' = [outcome EXCEPT ![r] = o]

-----------------------------------------------------------------------------
\* The handler and withRetry

(* The body is read (or, for gRPC, marshalled again) and counted.          *)
Receive(r) ==
    /\ pc[r] = "new"
    /\ received' = received + 1
    /\ Goto(r, "loop")
    /\ UNCHANGED <<attempt, gone, outcome, reply, backend, sent, dropped, analysed>>

(* It cannot be: HTTP answers 400, gRPC answers as if nothing happened.    *)
Reject(r) ==
    /\ pc[r] = "new"
    /\ Goto(r, "rejected")
    /\ UNCHANGED <<attempt, gone, outcome, reply, backend, counters, analysed>>

MoreAttempts(r) == attempt[r] < MaxRetries

(* The top of the loop: fn posts the body.                                 *)
Attempt(r) ==
    /\ pc[r] = "loop"
    /\ MoreAttempts(r) /\ ~gone[r]
    /\ wire' = wire \union {<<r, attempt[r]>>}
    /\ reply' = [reply EXCEPT ![r] = "none"]
    /\ Goto(r, "sending")
    /\ UNCHANGED <<attempt, gone, outcome, accepted, counters, analysed>>

Abandon_Skip(r) ==
    /\ pc[r] = "loop" /\ MoreAttempts(r) /\ gone[r]
    /\ Outcome(r, "cancelled")
    /\ Goto(r, "answered")
    /\ UNCHANGED <<attempt, gone, reply, backend, counters, analysed>>
(* ... or the context is done: its error is returned, nothing is counted.  *)
Abandon(r) ==
    /\ pc[r] = "loop" /\ MoreAttempts(r) /\ gone[r]
    /\ Outcome(r, "cancelled")
    /\ Goto(r, "analyse")
    /\ UNCHANGED <<attempt, gone, reply, backend, counters, analysed>>

StatusOK_Any(r) == reply[r] # "none"
StatusOK(r) == reply[r] = "ok"

(* fn returns nil: status 200 came back.                                   *)
Succeed(r) ==
    /\ pc[r] = "sending" /\ StatusOK(r)
    /\ sent' = sent + 1
    /\ Outcome(r, "sent")
    /\ Goto(r, "analyse")
    /\ UNCHANGED <<attempt, gone, reply, backend, received, dropped, analysed>>

(* fn returns an error: another status, a broken connection, the client's  *)
(* 30 s timeout, or a done context -- whatever became of the transmission. *)
Fail(r) ==
    /\ pc[r] = "sending"
    /\ Goto(r, "backoff")
    /\ UNCHANGED <<attempt, gone, outcome, reply, backend, counters, analysed>>

NextAttempt_Stuck(n) == n
NextAttempt(n) == n + 1

(* The select: time.After fires, after the last attempt too ...            *)
BackoffEnds(r) ==
    /\ pc[r] = "backoff"
    /\ attempt' = [attempt EXCEPT ![r] = NextAttempt(@)]
    /\ Goto(r, "loop")
    /\ UNCHANGED <<gone, outcome, reply, backend, counters, analysed>>

(* ... or the context is done first.                                       *)
BackoffCut(r) ==
    /\ pc[r] = "backoff" /\ gone[r]
    /\ Outcome(r, "cancelled")
    /\ Goto(r, "analyse")
    /\ UNCHANGED <<attempt, gone, reply, backend, counters, analysed>>

GiveUp_Uncounted(r) ==
    /\ pc[r] = "loop" /\ ~MoreAttempts(r)
    /\ Outcome(r, "failed")
    /\ Goto(r, "analyse")
    /\ UNCHANGED <<attempt, gone, reply, backend, counters, analysed>>
(* The loop is exhausted: the only path that counts a drop.                *)
GiveUp(r) ==
    /\ pc[r] = "loop" /\ ~MoreAttempts(r)
    /\ dropped' = dropped + 1
    /\ Outcome(r, "failed")
    /\ Goto(r, "analyse")
    /\ UNCHANGED <<attempt, gone, reply, backend, received, sent, analysed>>

(* The handler logs the error, enqueues the task and answers 200 or OK     *)
(* whatever Forward returned.                                              *)
Answer(r) ==
    /\ pc[r] = "analyse"
    /\ analysed' = [analysed EXCEPT ![r] = @ + 1]
    /\ Goto(r, "answered")
    /\ UNCHANGED <<attempt, gone, outcome, reply, backend, counters>>

-----------------------------------------------------------------------------
\* The client, the network and the backend

Ended(r) == pc[r] \in {"answered", "rejected"}

(* The client disconnects or its deadline passes.                          *)
ClientLeaves(r) ==
    /\ ~Ended(r) /\ ~gone[r]
    /\ gone' = [gone EXCEPT ![r] = TRUE]
    /\ UNCHANGED <<pc, attempt, outcome, reply, backend, counters, analysed>>

(* The answer to an attempt the forwarder no longer waits for is discarded.*)
Respond(r, k, status) ==
    reply' = IF pc[r] = "sending" /\ attempt[r] = k
             THEN [reply EXCEPT ![r] = status] ELSE reply

Accept(r, k) ==
    /\ <<r, k>> \in wire
    /\ wire' = wire \ {<<r, k>>}
    /\ accepted' = accepted \union {<<r, k>>}
    /\ Respond(r, k, "ok")
    /\ UNCHANGED <<pc, attempt, gone, outcome, counters, analysed>>

Refuse(r, k) ==
    /\ <<r, k>> \in wire
    /\ wire' = wire \ {<<r, k>>}
    /\ Respond(r, k, "error")
    /\ UNCHANGED <<pc, attempt, gone, outcome, accepted, counters, analysed>>

Lose(r, k) ==
    /\ <<r, k>> \in wire
    /\ wire' = wire \ {<<r, k>>}
    /\ UNCHANGED <<pc, attempt, gone, outcome, reply, accepted, counters, analysed>>

Handler(r) ==
    \/ Receive(r) \/ Reject(r)
    \/ Attempt(r) \/ Abandon(r) \/ Succeed(r) \/ Fail(r)
    \/ BackoffEnds(r) \/ BackoffCut(r) \/ GiveUp(r)
    \/ Answer(r)

ForwardNext ==
    \E r \in Requests :
        \/ Handler(r)
        \/ ClientLeaves(r)
        \/ \E k \in Attempts : Accept(r, k) \/ Refuse(r, k) \/ Lose(r, k)

(* A handler that has begun goes on: the http.Client's timeout ends every  *)
(* attempt and a timer every backoff.  Nothing is asked of clients, of the *)
(* network or of the backend.                                              *)
Fairness == \A r \in Requests : WF_forwardVars(pc[r] # "new" /\ Handler(r))

ForwardSpec == ForwardInit /\ [][ForwardNext]_forwardVars /\ Fairness

-----------------------------------------------------------------------------

TypeOK ==
    /\ pc \in [Requests -> {"new", "loop", "sending", "backoff", "analyse",
                            "answered", "rejected"}]
    /\ attempt \in [Requests -> 0 .. MaxRetries]
    /\ gone \in [Requests -> BOOLEAN]
    /\ outcome \in [Requests -> {"none", "sent", "failed", "cancelled"}]
    /\ reply \in [Requests -> {"none", "ok", "error"}]
    /\ wire \in SUBSET (Requests \X Attempts)
    /\ accepted \in SUBSET (Requests \X Attempts)
    /\ received \in Nat /\ sent \in Nat /\ dropped \in Nat
    /\ analysed \in [Requests -> Nat]

With(o) == {r \in Requests : outcome[r] = o}
Forwarding == {r \in Requests : pc[r] \in {"loop", "sending", "backoff"}}

(* What the counters say: received is sent plus dropped, plus the requests *)
(* still being forwarded, plus those whose client left -- which no counter *)
(* shows.  (forwarder.go:80, 155-157, 168-169, 185; otlp.go:110)           *)
OutcomesBalance ==
    received = sent + dropped + Cardinality(Forwarding) + Cardinality(With("cancelled"))

(* A signal counted as forwarded was accepted by the backend, and by the   *)
(* attempt that was answered: a late answer to an earlier attempt, or a    *)
(* refusal, is never taken for it.  (forwarder.go:70-84)                   *)
SentWasAccepted == \A r \in With("sent") : <<r, attempt[r]>> \in accepted

(* The analysis sees each request once and only after forwarding ended --  *)
(* though it failed, was retried or was cut short -- and never a request   *)
(* that was rejected.  (otlp.go:113-119, 193-205)                          *)
AnalysedOnce ==
    \A r \in Requests :
        /\ analysed[r] = IF pc[r] = "answered" THEN 1 ELSE 0
        /\ (analysed[r] = 1 <=> outcome[r] # "none" /\ pc[r] # "analyse")

(* Every request that was read is answered, whatever the backend does:     *)
(* retries and waits are bounded.  (forwarder.go:52, 154-175)              *)
ReadIsAnswered == \A r \in Requests : (pc[r] = "loop") ~> (pc[r] = "answered")
=============================================================================
