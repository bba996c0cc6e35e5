---------------------------- MODULE RequestProofs ----------------------------
(***************************************************************************)
(* Proofs about what becomes of a request.  Its way to the backend and its *)
(* answer (Forwarding), for any number of requests and of retries; and what*)
(* a worker extracts from it (Extraction): the dictionary and the tracker  *)
(* hold what the payloads say, for every set of payloads, of any shape and *)
(* length, and any number of workers.                                      *)
(***************************************************************************)
EXTENDS Forwarding, Extraction, FiniteSetTheorems, SequenceTheorems, WellFoundedInduction,
        TLAPS

-----------------------------------------------------------------------------
\* Forwarding

(* The handler's places in order: what it is still to do, and whether      *)
(* Forward has returned.  A reply counts for the attempt it answers.       *)
Places == {"new", "loop", "sending", "backoff", "analyse", "answered", "rejected"}
Returned(r) == pc[r] \in {"analyse", "answered"}

StageInv ==
    /\ pc \in [Requests -> Places]
    /\ attempt \in [Requests -> Nat]
    /\ outcome \in [Requests -> {"none", "sent", "failed", "cancelled"}]
    /\ reply \in [Requests -> {"none", "ok", "error"}]
    /\ analysed \in [Requests -> Nat]
    /\ received \in Nat /\ sent \in Nat /\ dropped \in Nat
    /\ \A r \in Requests :
         /\ Returned(r) <=> outcome[r] # "none"
         /\ analysed[r] = IF pc[r] = "answered" THEN 1 ELSE 0
         /\ pc[r] = "sending" /\ reply[r] = "ok" => <<r, attempt[r]>> \in accepted
         /\ outcome[r] = "sent" => <<r, attempt[r]>> \in accepted

LEMMA StageStep == StageInv /\ [ForwardNext]_forwardVars => StageInv'
<1> SUFFICES ASSUME StageInv, [ForwardNext]_forwardVars PROVE StageInv'
  OBVIOUS
<1> USE DEF StageInv, Returned, Places
<1>1. ASSUME NEW r \in Requests, Receive(r) \/ Reject(r) PROVE StageInv'
  BY <1>1 DEF Receive, Reject, Goto, backend, counters
<1>2. ASSUME NEW r \in Requests, Attempt(r) PROVE StageInv'
  BY <1>2 DEF Attempt, Goto, counters
<1>3. ASSUME NEW r \in Requests, Abandon(r) \/ BackoffCut(r) PROVE StageInv'
  BY <1>3 DEF Abandon, BackoffCut, Goto, Outcome, backend, counters
<1>4. ASSUME NEW r \in Requests, Succeed(r) PROVE StageInv'
  BY <1>4 DEF Succeed, StatusOK, Goto, Outcome, backend
<1>5. ASSUME NEW r \in Requests, Fail(r) PROVE StageInv'
  BY <1>5 DEF Fail, Goto, backend, counters
<1>6. ASSUME NEW r \in Requests, BackoffEnds(r) PROVE StageInv'
  <2>1. /\ attempt' = [attempt EXCEPT ![r] = attempt[r] + 1]
        /\ pc[r] = "backoff" /\ pc' = [pc EXCEPT ![r] = "loop"]
        /\ outcome' = outcome /\ reply' = reply /\ accepted' = accepted
        /\ analysed' = analysed /\ UNCHANGED <<received, sent, dropped>>
    BY <1>6 DEF BackoffEnds, NextAttempt, Goto, backend, counters
  <2>2. attempt' \in [Requests -> Nat]
    BY <2>1
  <2>3. outcome[r] = "none"
    BY <2>1
  <2> QED
    BY <2>1, <2>2, <2>3
<1>7. ASSUME NEW r \in Requests, GiveUp(r) PROVE StageInv'
  BY <1>7 DEF GiveUp, Goto, Outcome, backend
<1>8. ASSUME NEW r \in Requests, Answer(r) PROVE StageInv'
  BY <1>8 DEF Answer, Goto, backend, counters
<1>9. ASSUME NEW r \in Requests, ClientLeaves(r) PROVE StageInv'
  BY <1>9 DEF ClientLeaves, backend, counters
<1>10. ASSUME NEW r \in Requests, NEW k \in Attempts, Accept(r, k) PROVE StageInv'
  BY <1>10 DEF Accept, Respond, counters
<1>11. ASSUME NEW r \in Requests, NEW k \in Attempts, Refuse(r, k) PROVE StageInv'
  BY <1>11 DEF Refuse, Respond, counters
<1>12. ASSUME NEW r \in Requests, NEW k \in Attempts, Lose(r, k) PROVE StageInv'
  BY <1>12 DEF Lose, counters
<1>13. ASSUME UNCHANGED forwardVars PROVE StageInv'
  BY <1>13 DEF forwardVars, backend, counters
<1> QED
  BY <1>1, <1>2, <1>3, <1>4, <1>5, <1>6, <1>7, <1>8, <1>9, <1>10, <1>11, <1>12, <1>13
  DEF ForwardNext, Handler

LEMMA Stages == ForwardSpec => []StageInv
<1>1. ForwardInit => StageInv
  BY DEF ForwardInit, StageInv, Returned, Places
<1> QED
  BY <1>1, StageStep, PTL DEF ForwardSpec

(* What is counted as forwarded, the backend accepted; a late answer or a  *)
(* refusal is never taken for success.  (forwarder.go:70-84)               *)
THEOREM SentCorrect == ForwardSpec => []SentWasAccepted
<1>1. StageInv => SentWasAccepted
  BY DEF StageInv, SentWasAccepted, With
<1> QED
  BY <1>1, Stages, PTL

(* The analysis sees each request once, after forwarding ended, however it *)
(* ended.  (otlp.go:113-119, 193-205)                                      *)
THEOREM AnalysisCorrect == ForwardSpec => []AnalysedOnce
<1>1. StageInv => AnalysedOnce
  <2> SUFFICES ASSUME StageInv, NEW r \in Requests
               PROVE  /\ analysed[r] = IF pc[r] = "answered" THEN 1 ELSE 0
                      /\ (analysed[r] = 1 <=> outcome[r] # "none" /\ pc[r] # "analyse")
    BY DEF AnalysedOnce
  <2>1. /\ analysed[r] = IF pc[r] = "answered" THEN 1 ELSE 0
        /\ outcome[r] # "none" <=> pc[r] = "analyse" \/ pc[r] = "answered"
    BY DEF StageInv, Returned
  <2>2. CASE pc[r] = "answered"
    BY <2>1, <2>2
  <2>3. CASE pc[r] # "answered"
    BY <2>1, <2>3
  <2> QED
    BY <2>2, <2>3
<1> QED
  BY <1>1, Stages, PTL

-----------------------------------------------------------------------------
\* The counters

Cancelled == With("cancelled")

(* How one handler leaves the loop: counted as sent, counted as dropped, or*)
(* cancelled and uncounted.  (forwarder.go:154-175)                        *)
LEMMA LoopExits ==
    ASSUME StageInv, [ForwardNext]_forwardVars
    PROVE  \/ /\ Forwarding' = Forwarding /\ Cancelled' = Cancelled
              /\ received' = received /\ sent' = sent /\ dropped' = dropped
           \/ \E r \in Requests \ Forwarding :
                /\ Forwarding' = Forwarding \union {r} /\ Cancelled' = Cancelled
                /\ received' = received + 1 /\ sent' = sent /\ dropped' = dropped
           \/ \E r \in Forwarding :
                /\ Forwarding' = Forwarding \ {r} /\ received' = received
                /\ \/ /\ r \notin Cancelled /\ Cancelled' = Cancelled \union {r}
                      /\ sent' = sent /\ dropped' = dropped
                   \/ /\ Cancelled' = Cancelled
                      /\ sent' + dropped' = sent + dropped + 1
<1> USE DEF StageInv, Forwarding, Cancelled, With, Returned, Goto, Outcome, counters
<1>1. ASSUME NEW r \in Requests, Receive(r)
      PROVE  /\ r \in Requests \ Forwarding
             /\ Forwarding' = Forwarding \union {r} /\ Cancelled' = Cancelled
             /\ received' = received + 1 /\ sent' = sent /\ dropped' = dropped
  BY <1>1 DEF Receive
<1>2. ASSUME NEW r \in Requests, Abandon(r) \/ BackoffCut(r)
      PROVE  /\ r \in Forwarding /\ Forwarding' = Forwarding \ {r} /\ received' = received
             /\ r \notin Cancelled /\ Cancelled' = Cancelled \union {r}
             /\ sent' = sent /\ dropped' = dropped
  <2>1. /\ pc[r] \in {"loop", "backoff"} /\ pc' = [pc EXCEPT ![r] = "analyse"]
        /\ outcome' = [outcome EXCEPT ![r] = "cancelled"]
        /\ UNCHANGED <<received, sent, dropped>>
    BY <1>2 DEF Abandon, BackoffCut
  <2>2. outcome[r] = "none"
    BY <2>1
  <2>3. Forwarding' = Forwarding \ {r}
    BY <2>1
  <2>4. Cancelled' = Cancelled \union {r}
    BY <2>1
  <2> QED
    BY <2>1, <2>2, <2>3, <2>4
<1>3. ASSUME NEW r \in Requests, Succeed(r) \/ GiveUp(r)
      PROVE  /\ r \in Forwarding /\ Forwarding' = Forwarding \ {r} /\ received' = received
             /\ Cancelled' = Cancelled /\ sent' + dropped' = sent + dropped + 1
  <2>1. /\ pc[r] \in {"loop", "sending"} /\ pc' = [pc EXCEPT ![r] = "analyse"]
        /\ \/ outcome' = [outcome EXCEPT ![r] = "sent"]
           \/ outcome' = [outcome EXCEPT ![r] = "failed"]
        /\ received' = received /\ sent' + dropped' = sent + dropped + 1
    BY <1>3 DEF Succeed, GiveUp
  <2>2. outcome[r] = "none"
    BY <2>1
  <2>3. Forwarding' = Forwarding \ {r}
    BY <2>1
  <2>4. Cancelled' = Cancelled
    BY <2>1, <2>2
  <2> QED
    BY <2>1, <2>3, <2>4
<1>4. ASSUME NEW r \in Requests,
             Reject(r) \/ Attempt(r) \/ Fail(r) \/ BackoffEnds(r) \/ Answer(r)
      PROVE  /\ Forwarding' = Forwarding /\ Cancelled' = Cancelled
             /\ received' = received /\ sent' = sent /\ dropped' = dropped
  BY <1>4 DEF Reject, Attempt, Fail, BackoffEnds, Answer
<1>5. ASSUME NEW r \in Requests,
             ClientLeaves(r) \/ \E k \in Attempts : Accept(r, k) \/ Refuse(r, k) \/ Lose(r, k)
      PROVE  /\ Forwarding' = Forwarding /\ Cancelled' = Cancelled
             /\ received' = received /\ sent' = sent /\ dropped' = dropped
  BY <1>5 DEF ClientLeaves, Accept, Refuse, Lose
<1>6. ASSUME UNCHANGED forwardVars
      PROVE  /\ Forwarding' = Forwarding /\ Cancelled' = Cancelled
             /\ received' = received /\ sent' = sent /\ dropped' = dropped
  BY <1>6 DEF forwardVars
<1> QED
  BY <1>1, <1>2, <1>3, <1>4, <1>5, <1>6 DEF ForwardNext, Handler

LEMMA FiniteRequests ==
    /\ IsFiniteSet(Forwarding) /\ Cardinality(Forwarding) \in Nat
    /\ IsFiniteSet(Cancelled) /\ Cardinality(Cancelled) \in Nat
<1>1. IsFiniteSet(Forwarding) /\ IsFiniteSet(Cancelled)
  BY RequestsAssumption, FS_Subset DEF Forwarding, Cancelled, With
<1> QED
  BY <1>1, FS_CardinalityType

(* No request goes missing between the counters, except behind a client    *)
(* that left.  (forwarder.go:80, 155-157, 168-169, 185; otlp.go:110)       *)
THEOREM BalanceCorrect == ForwardSpec => []OutcomesBalance
<1>1. ForwardInit => OutcomesBalance
  <2> SUFFICES ASSUME ForwardInit PROVE OutcomesBalance
    OBVIOUS
  <2>1. Forwarding = {} /\ With("cancelled") = {}
    BY DEF ForwardInit, Forwarding, With
  <2> QED
    BY <2>1, FS_EmptySet DEF ForwardInit, OutcomesBalance
<1>2. StageInv /\ StageInv' /\ OutcomesBalance /\ [ForwardNext]_forwardVars => OutcomesBalance'
  <2> SUFFICES ASSUME StageInv, StageInv', OutcomesBalance, [ForwardNext]_forwardVars
               PROVE  OutcomesBalance'
    OBVIOUS
  <2>0. /\ received \in Nat /\ sent \in Nat /\ dropped \in Nat
        /\ sent' \in Nat /\ dropped' \in Nat
        /\ received = sent + dropped + Cardinality(Forwarding) + Cardinality(Cancelled)
    BY DEF StageInv, OutcomesBalance, Cancelled
  <2>1. ASSUME NEW r \in Requests \ Forwarding, Forwarding' = Forwarding \union {r},
               Cancelled' = Cancelled, received' = received + 1, sent' = sent,
               dropped' = dropped
        PROVE  OutcomesBalance'
    <3>1. Cardinality(Forwarding') = Cardinality(Forwarding) + 1
      BY <2>1, FiniteRequests, FS_AddElement
    <3> QED
      BY <2>0, <2>1, <3>1, FiniteRequests DEF OutcomesBalance, Cancelled
  <2>2. ASSUME NEW r \in Forwarding, Forwarding' = Forwarding \ {r}, received' = received,
               \/ /\ r \notin Cancelled /\ Cancelled' = Cancelled \union {r}
                  /\ sent' = sent /\ dropped' = dropped
               \/ Cancelled' = Cancelled /\ sent' + dropped' = sent + dropped + 1
        PROVE  OutcomesBalance'
    <3>1. Cardinality(Forwarding') = Cardinality(Forwarding) - 1
      BY <2>2, FiniteRequests, FS_RemoveElement
    <3>2. CASE r \notin Cancelled /\ Cancelled' = Cancelled \union {r}
               /\ sent' = sent /\ dropped' = dropped
      <4>1. Cardinality(Cancelled') = Cardinality(Cancelled) + 1
        BY <3>2, FiniteRequests, FS_AddElement
      <4> QED
        BY <2>0, <2>2, <3>1, <3>2, <4>1, FiniteRequests DEF OutcomesBalance, Cancelled
    <3>3. CASE Cancelled' = Cancelled /\ sent' + dropped' = sent + dropped + 1
      <4>1. Cardinality(Cancelled') = Cardinality(Cancelled)
        BY <3>3
      <4>2. received = sent + dropped + 1 + Cardinality(Forwarding') + Cardinality(Cancelled')
        BY <2>0, <3>1, <4>1, FiniteRequests
      <4>3. received' = received /\ sent' + dropped' = sent + dropped + 1
        BY <2>2, <3>3
      <4> QED
        BY <4>2, <4>3 DEF OutcomesBalance, Cancelled
    <3> QED
      BY <2>2, <3>2, <3>3
  <2>3. ASSUME Forwarding' = Forwarding, Cancelled' = Cancelled, received' = received,
               sent' = sent, dropped' = dropped
        PROVE  OutcomesBalance'
    BY <2>0, <2>3 DEF OutcomesBalance, Cancelled
  <2> QED
    BY <2>1, <2>2, <2>3, LoopExits
<1> QED
  BY <1>1, <1>2, Stages, PTL DEF ForwardSpec

-----------------------------------------------------------------------------
\* Recursion over sequences

(* Every set of natural numbers that is not empty has a least one.         *)
LEMMA LeastOfNaturals ==
    ASSUME NEW T, T \subseteq Nat, T # {}
    PROVE  \E x \in T : \A y \in T : x <= y
<1> DEFINE R == {ss \in Nat \X Nat : ss[1] < ss[2]}
<1>1. IsWellFoundedOn(R, Nat)
  BY NatLessThanWellFounded, Zenon DEF OpToRel
<1> HIDE DEF R
<1>2. PICK x \in T : \A y \in T : ~ (<<y, x>> \in R)
  BY <1>1, WFMin, Zenon
<1>3. \A y \in T : ~ (y < x)
  BY <1>2 DEF R
<1> QED
  BY <1>3

(* What holds of 0, and of n + 1 if it does of n, holds of all.            *)
LEMMA SetInduction ==
    ASSUME NEW T, 0 \in T, \A n \in Nat : n \in T => n + 1 \in T
    PROVE  Nat \subseteq T
<1> SUFFICES ASSUME Nat \ T # {} PROVE FALSE
  OBVIOUS
<1>1. PICK x \in Nat \ T : \A y \in Nat \ T : x <= y
  BY LeastOfNaturals
<1>2. x # 0 /\ x - 1 \in Nat /\ x - 1 + 1 = x
  BY <1>1
<1>3. x - 1 \in T
  BY <1>1, <1>2
<1> QED
  BY <1>1, <1>2, <1>3

(* The recursion in the definition of a fold has a solution: for every set *)
(* of places, what is left of the greatest of them last.                   *)
Solves(it, h, base, s, n) ==
    \A T \in SUBSET (1 .. n) :
        it[T] = IF T = {} THEN base ELSE h[<<it[T \ {Max(T)}], s[Max(T)]>>]

HasSolution(A, h, base, s, n) ==
    \E it \in [SUBSET (1 .. n) -> A] : Solves(it, h, base, s, n)

LEMMA MaxOfPlaces ==
    ASSUME NEW n \in Nat, NEW T \in SUBSET (1 .. n + 1), n + 1 \in T
    PROVE  Max(T) = n + 1
<1>1. \A y \in T : n + 1 >= y
  OBVIOUS
<1>2. \A x \in T : (\A y \in T : x >= y) => x = n + 1
  OBVIOUS
<1>3. \E x \in T : \A y \in T : x >= y
  BY <1>1
<1> QED
  BY <1>2, <1>3, Zenon DEF Max

LEMMA MaxIsPlace ==
    ASSUME NEW n \in Nat, NEW T \in SUBSET (1 .. n), T # {}
    PROVE  Max(T) \in T
<1> DEFINE U == {n - y : y \in T}
<1>1. U \subseteq Nat
  OBVIOUS
<1>2. U # {}
  OBVIOUS
<1>3. PICK u \in U : \A v \in U : u <= v
  BY <1>1, <1>2, LeastOfNaturals
<1>4. PICK m \in T : u = n - m
  OBVIOUS
<1>5. ASSUME NEW y \in T PROVE m >= y
  <2>1. n - y \in U /\ y \in Nat /\ m \in Nat
    OBVIOUS
  <2>2. n - m <= n - y
    BY <1>3, <1>4, <2>1
  <2> QED
    BY <2>1, <2>2
<1> QED
  BY <1>5, Zenon DEF Max

LEMMA FoldExists ==
    ASSUME NEW A, NEW M, NEW base \in A, NEW h \in [A \X M -> A], NEW s,
           NEW len \in Nat, \A i \in 1 .. len : s[i] \in M
    PROVE  HasSolution(A, h, base, s, len)
<1> DEFINE P(n) == n <= len => HasSolution(A, h, base, s, n)
           T0 == {n \in Nat : P(n)}
<1>1. P(0)
  <2> DEFINE it == [T \in SUBSET (1 .. 0) |-> base]
  <2>1. \A T \in SUBSET (1 .. 0) : T = {}
    OBVIOUS
  <2>2. it \in [SUBSET (1 .. 0) -> A] /\ Solves(it, h, base, s, 0)
    BY <2>1 DEF Solves
  <2> QED
    BY <2>2 DEF HasSolution
<1>2. ASSUME NEW n \in Nat, P(n) PROVE P(n + 1)
  <2> SUFFICES ASSUME n + 1 <= len
               PROVE  HasSolution(A, h, base, s, n + 1)
    OBVIOUS
  <2>1. PICK it \in [SUBSET (1 .. n) -> A] : Solves(it, h, base, s, n)
    <3>1. n <= len
      OBVIOUS
    <3> QED
      BY <1>2, <3>1, Zenon DEF HasSolution
  <2> DEFINE Next1(T) == h[<<it[T \ {n + 1}], s[n + 1]>>]
             jt == [T \in SUBSET (1 .. n + 1) |-> IF n + 1 \in T THEN Next1(T) ELSE it[T]]
  <2>2. \A T \in SUBSET (1 .. n + 1) : T \ {n + 1} \in SUBSET (1 .. n)
    OBVIOUS
  <2>3. \A T \in SUBSET (1 .. n + 1) : n + 1 \notin T => T \in SUBSET (1 .. n)
    OBVIOUS
  <2>4. s[n + 1] \in M
    OBVIOUS
  <2>5. jt \in [SUBSET (1 .. n + 1) -> A]
    BY <2>2, <2>3, <2>4
  <2>6. ASSUME NEW T \in SUBSET (1 .. n + 1)
        PROVE  jt[T] = IF T = {} THEN base ELSE h[<<jt[T \ {Max(T)}], s[Max(T)]>>]
    <3>1. CASE n + 1 \in T
      <4>1. Max(T) = n + 1
        BY <3>1, MaxOfPlaces
      <4>2. jt[T \ {n + 1}] = it[T \ {n + 1}]
        BY <2>2
      <4> QED
        BY <3>1, <4>1, <4>2
    <3>2. CASE n + 1 \notin T
      <4>1. T \in SUBSET (1 .. n) /\ T \ {Max(T)} \in SUBSET (1 .. n)
        BY <2>3, <3>2
      <4>2. jt[T] = it[T] /\ jt[T \ {Max(T)}] = it[T \ {Max(T)}]
        BY <3>2, <4>1
      <4> QED
        BY <2>1, <4>1, <4>2 DEF Solves
    <3> QED
      BY <3>1, <3>2
  <2>7. Solves(jt, h, base, s, n + 1)
    BY <2>6 DEF Solves
  <2> QED
    BY <2>5, <2>7, Zenon DEF HasSolution
<1> HIDE DEF P
<1>3. Nat \subseteq T0
  <2>1. 0 \in T0
    BY <1>1
  <2>2. \A n \in Nat : n \in T0 => n + 1 \in T0
    BY <1>2
  <2> QED
    BY <2>1, <2>2, SetInduction
<1>4. P(len)
  BY <1>3, Zenon
<1>5. len <= len
  OBVIOUS
<1> QED
  BY <1>4, <1>5, Zenon DEF P

(* What a solution says of the places up to one.                           *)
LEMMA SolutionByPlace ==
    ASSUME NEW n \in Nat, NEW i \in 1 .. n
    PROVE  /\ 1 .. i \in SUBSET (1 .. n) /\ 1 .. i # {}
           /\ Max(1 .. i) = i /\ (1 .. i) \ {i} = 1 .. i - 1
           /\ 1 .. i - 1 \in SUBSET (1 .. n)
<1>1. i - 1 \in Nat /\ i - 1 + 1 = i
  OBVIOUS
<1>2. 1 .. i \in SUBSET (1 .. i - 1 + 1) /\ i \in 1 .. i
  OBVIOUS
<1>3. Max(1 .. i) = i
  BY <1>1, <1>2, MaxOfPlaces
<1> QED
  BY <1>1, <1>3

-----------------------------------------------------------------------------
\* The two rounds of deduplication

NoText == ""
Mention ==
    [name : STRING, type : STRING \union {MetricType[k] : k \in DOMAIN MetricType},
     value : STRING \union {NoText}]

(* x is the first in seq with its name.                                    *)
IsFirst(seq, x) ==
    \E k \in DOMAIN seq : seq[k] = x /\ \A j \in 1 .. k - 1 : seq[j].name # x.name

(* A fold over a sequence goes through its places one after the other.     *)
AddsValues(s, r) ==
    \E g : /\ g[0] = << >> /\ g[Len(s)] = r
           /\ \A i \in 1 .. Len(s) : g[i] = AddValue(g[i - 1], s[i])
AddsNames(s, r) ==
    \E g : /\ g[0] = << >> /\ g[Len(s)] = r
           /\ \A i \in 1 .. Len(s) : g[i] = AddName(g[i - 1], s[i])

LEMMA AllAttrsByPlace ==
    ASSUME NEW s \in Seq(Mention)
    PROVE  AddsValues(s, FoldLeft(AddValue, << >>, s))
<1> DEFINE A == Seq(Mention)
           h == [am \in A \X Mention |-> AddValue(am[1], am[2])]
           len == Len(s)
           Step(it, T) == IF T = {} THEN << >> ELSE AddValue(it[T \ {Max(T)}], s[Max(T)])
           Fold == CHOOSE it : it = [T \in SUBSET (1 .. len) |-> Step(it, T)]
<1>1. len \in Nat /\ DOMAIN s = 1 .. len /\ \A i \in 1 .. len : s[i] \in Mention
  OBVIOUS
<1>2. h \in [A \X Mention -> A] /\ << >> \in A
  <2>1. ASSUME NEW a \in A, NEW m \in Mention PROVE AddValue(a, m) \in A
    BY AppendProperties DEF AddValue
  <2>2. ASSUME NEW am \in A \X Mention PROVE AddValue(am[1], am[2]) \in A
    <3>1. am[1] \in A /\ am[2] \in Mention
      OBVIOUS
    <3> QED
      BY <2>1, <3>1
  <2>3. << >> \in A
    OBVIOUS
  <2> QED
    BY <2>2, <2>3, Zenon
<1> HIDE DEF h, A
<1>3. PICK it \in [SUBSET (1 .. len) -> A] : Solves(it, h, << >>, s, len)
  <2>1. HasSolution(A, h, << >>, s, len)
    BY <1>1, <1>2, FoldExists
  <2> QED
    BY <2>1 DEF HasSolution
<1>4. ASSUME NEW T \in SUBSET (1 .. len) PROVE it[T] = Step(it, T)
  <2>1. CASE T = {}
    BY <1>3, <2>1 DEF Solves
  <2>2. CASE T # {}
    <3>1. Max(T) \in 1 .. len
      BY <1>1, <2>2, MaxIsPlace
    <3>2. s[Max(T)] \in Mention /\ it[T \ {Max(T)}] \in A
      BY <1>1, <3>1
    <3> QED
      BY <1>3, <2>2, <3>2 DEF Solves, h
  <2> QED
    BY <2>1, <2>2
<1>5. it = [T \in SUBSET (1 .. len) |-> Step(it, T)]
  BY <1>4, Zenon
<1>6. Fold = [T \in SUBSET (1 .. len) |-> Step(Fold, T)]
  BY <1>5, Zenon
<1>7. FoldLeft(AddValue, << >>, s) = Fold[1 .. len]
  BY <1>1 DEF FoldLeft, MapThenFoldSet
<1> HIDE DEF Fold
<1> DEFINE g == [i \in 0 .. len |-> Fold[1 .. i]]
<1>8. g[0] = << >>
  <2>1. 1 .. 0 = {} /\ 1 .. 0 \in SUBSET (1 .. len)
    OBVIOUS
  <2> QED
    BY <1>1, <1>6, <2>1
<1>9. ASSUME NEW i \in 1 .. len PROVE g[i] = AddValue(g[i - 1], s[i])
  <2>1. /\ 1 .. i \in SUBSET (1 .. len) /\ 1 .. i # {}
        /\ Max(1 .. i) = i /\ (1 .. i) \ {i} = 1 .. i - 1
    BY <1>1, SolutionByPlace
  <2>2. Fold[1 .. i] = AddValue(Fold[1 .. i - 1], s[i])
    BY <1>6, <2>1
  <2>3. i \in 0 .. len /\ i - 1 \in 0 .. len
    BY <1>1
  <2> QED
    BY <2>2, <2>3
<1>10. g[len] = Fold[1 .. len]
  BY <1>1
<1> HIDE DEF g
<1> QED
  BY <1>7, <1>8, <1>9, <1>10 DEF AddsValues

LEMMA DedupByPlace ==
    ASSUME NEW s \in Seq(Mention)
    PROVE  AddsNames(s, FoldLeft(AddName, << >>, s))
<1> DEFINE A == Seq(Mention)
           h == [am \in A \X Mention |-> AddName(am[1], am[2])]
           len == Len(s)
           Step(it, T) == IF T = {} THEN << >> ELSE AddName(it[T \ {Max(T)}], s[Max(T)])
           Fold == CHOOSE it : it = [T \in SUBSET (1 .. len) |-> Step(it, T)]
<1>1. len \in Nat /\ DOMAIN s = 1 .. len /\ \A i \in 1 .. len : s[i] \in Mention
  OBVIOUS
<1>2. h \in [A \X Mention -> A] /\ << >> \in A
  <2>1. ASSUME NEW a \in A, NEW m \in Mention PROVE AddName(a, m) \in A
    BY AppendProperties DEF AddName
  <2>2. ASSUME NEW am \in A \X Mention PROVE AddName(am[1], am[2]) \in A
    <3>1. am[1] \in A /\ am[2] \in Mention
      OBVIOUS
    <3> QED
      BY <2>1, <3>1
  <2>3. << >> \in A
    OBVIOUS
  <2> QED
    BY <2>2, <2>3, Zenon
<1> HIDE DEF h, A
<1>3. PICK it \in [SUBSET (1 .. len) -> A] : Solves(it, h, << >>, s, len)
  <2>1. HasSolution(A, h, << >>, s, len)
    BY <1>1, <1>2, FoldExists
  <2> QED
    BY <2>1 DEF HasSolution
<1>4. ASSUME NEW T \in SUBSET (1 .. len) PROVE it[T] = Step(it, T)
  <2>1. CASE T = {}
    BY <1>3, <2>1 DEF Solves
  <2>2. CASE T # {}
    <3>1. Max(T) \in 1 .. len
      BY <1>1, <2>2, MaxIsPlace
    <3>2. s[Max(T)] \in Mention /\ it[T \ {Max(T)}] \in A
      BY <1>1, <3>1
    <3> QED
      BY <1>3, <2>2, <3>2 DEF Solves, h
  <2> QED
    BY <2>1, <2>2
<1>5. it = [T \in SUBSET (1 .. len) |-> Step(it, T)]
  BY <1>4, Zenon
<1>6. Fold = [T \in SUBSET (1 .. len) |-> Step(Fold, T)]
  BY <1>5, Zenon
<1>7. FoldLeft(AddName, << >>, s) = Fold[1 .. len]
  BY <1>1 DEF FoldLeft, MapThenFoldSet
<1> HIDE DEF Fold
<1> DEFINE g == [i \in 0 .. len |-> Fold[1 .. i]]
<1>8. g[0] = << >>
  <2>1. 1 .. 0 = {} /\ 1 .. 0 \in SUBSET (1 .. len)
    OBVIOUS
  <2> QED
    BY <1>1, <1>6, <2>1
<1>9. ASSUME NEW i \in 1 .. len PROVE g[i] = AddName(g[i - 1], s[i])
  <2>1. /\ 1 .. i \in SUBSET (1 .. len) /\ 1 .. i # {}
        /\ Max(1 .. i) = i /\ (1 .. i) \ {i} = 1 .. i - 1
    BY <1>1, SolutionByPlace
  <2>2. Fold[1 .. i] = AddName(Fold[1 .. i - 1], s[i])
    BY <1>6, <2>1
  <2>3. i \in 0 .. len /\ i - 1 \in 0 .. len
    BY <1>1
  <2> QED
    BY <2>2, <2>3
<1>10. g[len] = Fold[1 .. len]
  BY <1>1
<1> HIDE DEF g
<1> QED
  BY <1>7, <1>8, <1>9, <1>10 DEF AddsNames

(* What the walk has after i mentions: each name and value once, all of    *)
(* them and no other, and of a name first what was mentioned first.        *)
ValuesUpTo(s, i, a) ==
    /\ a \in Seq(Mention)
    /\ \A j, k \in 1 .. Len(a) : j # k => ~SameValue(a[j], a[k])
    /\ \A k \in 1 .. i : \E j \in 1 .. Len(a) : SameValue(a[j], s[k])
    /\ \A j \in 1 .. Len(a) : \E k \in 1 .. i : a[j] = s[k]
    /\ \A k \in 1 .. i :
          (\A j \in 1 .. k - 1 : s[j].name # s[k].name) => IsFirst(a, s[k])

LEMMA AddValueStep ==
    ASSUME NEW s \in Seq(Mention), NEW i \in Nat, i + 1 \in 1 .. Len(s),
           NEW a, ValuesUpTo(s, i, a)
    PROVE  ValuesUpTo(s, i + 1, AddValue(a, s[i + 1]))
<1> DEFINE m == s[i + 1]
<1>1. /\ a \in Seq(Mention) /\ Len(a) \in Nat /\ DOMAIN a = 1 .. Len(a)
      /\ m \in Mention /\ Len(s) \in Nat
      /\ \A k \in 1 .. Len(a) : a[k] \in Mention
  BY DEF ValuesUpTo
<1>2. \A k \in 1 .. i + 1 : k = i + 1 \/ k \in 1 .. i
  OBVIOUS
<1>3. 1 .. i \subseteq 1 .. i + 1 /\ i + 1 \in 1 .. i + 1
  OBVIOUS
<1>4. CASE \E j \in DOMAIN a : SameValue(a[j], m)
  <2>1. AddValue(a, m) = a
    BY <1>4 DEF AddValue
  <2>2. PICK j \in 1 .. Len(a) : SameValue(a[j], m)
    BY <1>1, <1>4
  <2>3. PICK k \in 1 .. i : a[j] = s[k]
    BY DEF ValuesUpTo
  <2>4. s[k].name = m.name /\ k \in 1 .. i + 1 - 1
    BY <2>2, <2>3 DEF SameValue
  <2> QED
    <3>1. \A l \in 1 .. i + 1 : \E h \in 1 .. Len(a) : SameValue(a[h], s[l])
      BY <1>2, <2>2 DEF ValuesUpTo
    <3>2. \A h \in 1 .. Len(a) : \E l \in 1 .. i + 1 : a[h] = s[l]
      BY <1>3 DEF ValuesUpTo
    <3>3. \A l \in 1 .. i + 1 :
             (\A h \in 1 .. l - 1 : s[h].name # s[l].name) => IsFirst(a, s[l])
      <4> SUFFICES ASSUME NEW l \in 1 .. i + 1, \A h \in 1 .. l - 1 : s[h].name # s[l].name
                   PROVE  IsFirst(a, s[l])
        OBVIOUS
      <4>1. CASE l \in 1 .. i
        BY <4>1 DEF ValuesUpTo
      <4>2. l # i + 1
        BY <2>4
      <4> QED
        BY <1>2, <4>1, <4>2
    <3> QED
      BY <2>1, <3>1, <3>2, <3>3 DEF ValuesUpTo
<1>5. CASE ~ \E j \in DOMAIN a : SameValue(a[j], m)
  <2> DEFINE b == Append(a, m)
  <2>1. AddValue(a, m) = b
    BY <1>5 DEF AddValue
  <2>2. /\ b \in Seq(Mention) /\ Len(b) = Len(a) + 1 /\ b[Len(a) + 1] = m
        /\ \A j \in 1 .. Len(a) : b[j] = a[j]
    BY <1>1, AppendProperties
  <2> HIDE DEF b
  <2>3. /\ \A j \in 1 .. Len(b) : j = Len(a) + 1 \/ j \in 1 .. Len(a)
        /\ 1 .. Len(a) \subseteq 1 .. Len(b) /\ Len(a) + 1 \in 1 .. Len(b)
        /\ DOMAIN b = 1 .. Len(b)
    BY <1>1, <2>2
  <2>4. \A j, k \in 1 .. Len(b) : j # k => ~SameValue(b[j], b[k])
    <3>1. \A j \in 1 .. Len(a) : ~SameValue(a[j], m) /\ ~SameValue(m, a[j])
      BY <1>1, <1>5 DEF SameValue
    <3>2. \A j, k \in 1 .. Len(a) : j # k => ~SameValue(a[j], a[k])
      BY DEF ValuesUpTo
    <3> QED
      BY <2>2, <2>3, <3>1, <3>2
  <2>5. \A k \in 1 .. i + 1 : \E j \in 1 .. Len(b) : SameValue(b[j], s[k])
    <3>1. SameValue(m, m)
      BY DEF SameValue
    <3>2. \A k \in 1 .. i : \E j \in 1 .. Len(a) : SameValue(a[j], s[k])
      BY DEF ValuesUpTo
    <3> QED
      BY <1>2, <2>2, <2>3, <3>1, <3>2
  <2>6. \A j \in 1 .. Len(b) : \E k \in 1 .. i + 1 : b[j] = s[k]
    <3>1. \A j \in 1 .. Len(a) : \E k \in 1 .. i : a[j] = s[k]
      BY DEF ValuesUpTo
    <3> QED
      BY <1>3, <2>2, <2>3, <3>1
  <2>7. ASSUME NEW k \in 1 .. i + 1, \A j \in 1 .. k - 1 : s[j].name # s[k].name
        PROVE  IsFirst(b, s[k])
    <3>1. CASE k \in 1 .. i
      <4>1. PICK l \in 1 .. Len(a) : a[l] = s[k] /\ \A j \in 1 .. l - 1 : a[j].name # s[k].name
        BY <1>1, <2>7, <3>1 DEF ValuesUpTo, IsFirst
      <4>2. 1 .. l - 1 \subseteq 1 .. Len(a)
        BY <1>1
      <4> QED
        BY <2>2, <2>3, <4>1, <4>2 DEF IsFirst
    <3>2. CASE k = i + 1
      <4>1. \A j \in 1 .. Len(a) : a[j].name # m.name
        BY <2>7, <3>2 DEF ValuesUpTo
      <4>2. Len(a) + 1 - 1 = Len(a)
        BY <1>1
      <4> QED
        BY <2>2, <2>3, <3>2, <4>1, <4>2 DEF IsFirst
    <3> QED
      BY <1>2, <3>1, <3>2
  <2> QED
    BY <2>1, <2>2, <2>4, <2>5, <2>6, <2>7 DEF ValuesUpTo
<1> QED
  BY <1>4, <1>5

LEMMA ValuesOfAll ==
    ASSUME NEW s \in Seq(Mention), NEW r, AddsValues(s, r)
    PROVE  ValuesUpTo(s, Len(s), r)
<1>1. PICK g : /\ g[0] = << >> /\ g[Len(s)] = r
               /\ \A i \in 1 .. Len(s) : g[i] = AddValue(g[i - 1], s[i])
  BY DEF AddsValues
<1> DEFINE P(i) == i <= Len(s) => ValuesUpTo(s, i, g[i])
           T == {i \in Nat : P(i)}
<1>2. Len(s) \in Nat
  OBVIOUS
<1>3. P(0)
  BY <1>1 DEF ValuesUpTo
<1>4. ASSUME NEW i \in Nat, P(i) PROVE P(i + 1)
  <2> SUFFICES ASSUME i + 1 <= Len(s) PROVE ValuesUpTo(s, i + 1, g[i + 1])
    OBVIOUS
  <2>1. i <= Len(s) /\ i + 1 \in 1 .. Len(s) /\ i + 1 - 1 = i
    BY <1>2
  <2>2. g[i + 1] = AddValue(g[i], s[i + 1])
    BY <1>1, <2>1
  <2> QED
    BY <1>4, <2>1, <2>2, AddValueStep
<1> HIDE DEF P
<1>5. Nat \subseteq T
  <2>1. 0 \in T
    BY <1>3
  <2>2. \A i \in Nat : i \in T => i + 1 \in T
    BY <1>4
  <2> QED
    BY <2>1, <2>2, SetInduction
<1>6. P(Len(s))
  BY <1>2, <1>5, Zenon
<1>7. Len(s) <= Len(s)
  BY <1>2
<1> QED
  BY <1>1, <1>6, <1>7, Zenon DEF P

(* What the second round has after i of them: their names, and of each the *)
(* first.                                                                  *)
NamesUpTo(s, i, a) ==
    /\ a \in Seq(Mention)
    /\ \A k \in 1 .. i : \E j \in 1 .. Len(a) : a[j].name = s[k].name
    /\ \A j \in 1 .. Len(a) : IsFirst(s, a[j])

LEMMA AddNameStep ==
    ASSUME NEW s \in Seq(Mention), NEW i \in Nat, i + 1 \in 1 .. Len(s),
           NEW a, NamesUpTo(s, i, a)
    PROVE  NamesUpTo(s, i + 1, AddName(a, s[i + 1]))
<1> DEFINE m == s[i + 1]
<1>1. /\ a \in Seq(Mention) /\ Len(a) \in Nat /\ DOMAIN a = 1 .. Len(a)
      /\ m \in Mention /\ Len(s) \in Nat /\ DOMAIN s = 1 .. Len(s)
  BY DEF NamesUpTo
<1>2. /\ \A k \in 1 .. i + 1 : k = i + 1 \/ k \in 1 .. i
      /\ i + 1 - 1 = i
  OBVIOUS
<1>3. CASE \E j \in DOMAIN a : a[j].name = m.name
  <2>1. AddName(a, m) = a
    BY <1>3 DEF AddName
  <2>2. \A k \in 1 .. i + 1 : \E j \in 1 .. Len(a) : a[j].name = s[k].name
    BY <1>1, <1>2, <1>3 DEF NamesUpTo
  <2> QED
    BY <2>1, <2>2 DEF NamesUpTo
<1>4. CASE ~ \E j \in DOMAIN a : a[j].name = m.name
  <2> DEFINE b == Append(a, m)
  <2>1. AddName(a, m) = b
    BY <1>4 DEF AddName
  <2>2. /\ b \in Seq(Mention) /\ Len(b) = Len(a) + 1 /\ b[Len(a) + 1] = m
        /\ \A j \in 1 .. Len(a) : b[j] = a[j]
    BY <1>1, AppendProperties
  <2> HIDE DEF b
  <2>3. /\ \A j \in 1 .. Len(b) : j = Len(a) + 1 \/ j \in 1 .. Len(a)
        /\ 1 .. Len(a) \subseteq 1 .. Len(b) /\ Len(a) + 1 \in 1 .. Len(b)
    BY <1>1, <2>2
  <2>4. \A k \in 1 .. i + 1 : \E j \in 1 .. Len(b) : b[j].name = s[k].name
    <3>1. \A k \in 1 .. i : \E j \in 1 .. Len(a) : a[j].name = s[k].name
      BY DEF NamesUpTo
    <3> QED
      BY <1>2, <2>2, <2>3, <3>1
  <2>5. IsFirst(s, m)
    <3>1. \A k \in 1 .. i : s[k].name # m.name
      BY <1>1, <1>4 DEF NamesUpTo
    <3> QED
      BY <1>1, <1>2, <3>1 DEF IsFirst
  <2>6. \A j \in 1 .. Len(b) : IsFirst(s, b[j])
    BY <2>2, <2>3, <2>5 DEF NamesUpTo
  <2> QED
    BY <2>1, <2>2, <2>4, <2>6 DEF NamesUpTo
<1> QED
  BY <1>3, <1>4

LEMMA NamesOfAll ==
    ASSUME NEW s \in Seq(Mention), NEW r, AddsNames(s, r)
    PROVE  NamesUpTo(s, Len(s), r)
<1>1. PICK g : /\ g[0] = << >> /\ g[Len(s)] = r
               /\ \A i \in 1 .. Len(s) : g[i] = AddName(g[i - 1], s[i])
  BY DEF AddsNames
<1> DEFINE P(i) == i <= Len(s) => NamesUpTo(s, i, g[i])
           T == {i \in Nat : P(i)}
<1>2. Len(s) \in Nat
  OBVIOUS
<1>3. P(0)
  BY <1>1 DEF NamesUpTo
<1>4. ASSUME NEW i \in Nat, P(i) PROVE P(i + 1)
  <2> SUFFICES ASSUME i + 1 <= Len(s) PROVE NamesUpTo(s, i + 1, g[i + 1])
    OBVIOUS
  <2>1. i <= Len(s) /\ i + 1 \in 1 .. Len(s) /\ i + 1 - 1 = i
    BY <1>2
  <2>2. g[i + 1] = AddName(g[i], s[i + 1])
    BY <1>1, <2>1
  <2> QED
    BY <1>4, <2>1, <2>2, AddNameStep
<1> HIDE DEF P
<1>5. Nat \subseteq T
  <2>1. 0 \in T
    BY <1>3
  <2>2. \A i \in Nat : i \in T => i + 1 \in T
    BY <1>4
  <2> QED
    BY <2>1, <2>2, SetInduction
<1>6. P(Len(s))
  BY <1>2, <1>5, Zenon
<1>7. Len(s) <= Len(s)
  BY <1>2
<1> QED
  BY <1>1, <1>6, <1>7, Zenon DEF P

(* Every name that is mentioned has a first mention, and only one.         *)
LEMMA FirstExists ==
    ASSUME NEW s \in Seq(Mention), NEW k \in 1 .. Len(s)
    PROVE  \E x : IsFirst(s, x) /\ x.name = s[k].name
<1> DEFINE T == {j \in 1 .. Len(s) : s[j].name = s[k].name}
<1>1. Len(s) \in Nat /\ DOMAIN s = 1 .. Len(s)
  OBVIOUS
<1>2. T \subseteq Nat /\ T # {}
  OBVIOUS
<1>3. PICK j \in T : \A l \in T : j <= l
  BY <1>2, LeastOfNaturals
<1>4. \A l \in 1 .. j - 1 : s[l].name # s[j].name
  BY <1>1, <1>3
<1> QED
  BY <1>1, <1>3, <1>4 DEF IsFirst

LEMMA FirstIsUnique ==
    ASSUME NEW s \in Seq(Mention), NEW x, NEW y, IsFirst(s, x), IsFirst(s, y),
           x.name = y.name
    PROVE  x = y
<1>1. PICK j \in 1 .. Len(s) : s[j] = x /\ \A i \in 1 .. j - 1 : s[i].name # x.name
  BY DEF IsFirst
<1>2. PICK k \in 1 .. Len(s) : s[k] = y /\ \A i \in 1 .. k - 1 : s[i].name # y.name
  BY DEF IsFirst
<1>3. ~(j < k) /\ ~(k < j)
  BY <1>1, <1>2
<1> QED
  BY <1>1, <1>2, <1>3

-----------------------------------------------------------------------------
\* The walk

LEMMA FlattenType ==
    ASSUME NEW M, NEW q \in Seq(Seq(M))
    PROVE  FlattenSeq(q) \in Seq(M)
<1> DEFINE len == Len(q)
           Rec(f, i) == IF i = 1 THEN q[i] ELSE f[i - 1] \o q[i]
           P(n) == n <= len =>
                     \E f \in [1 .. n -> Seq(M)] : \A i \in 1 .. n : f[i] = Rec(f, i)
           T == {n \in Nat : P(n)}
           F == CHOOSE f : f = [i \in 1 .. len |-> Rec(f, i)]
<1>1. len \in Nat /\ \A i \in 1 .. len : q[i] \in Seq(M)
  OBVIOUS
<1>2. P(0)
  <2>1. [i \in 1 .. 0 |-> << >>] \in [1 .. 0 -> Seq(M)] /\ \A i \in 1 .. 0 : FALSE
    OBVIOUS
  <2> QED
    BY <2>1, Zenon
<1>3. ASSUME NEW n \in Nat, P(n) PROVE P(n + 1)
  <2> SUFFICES ASSUME n + 1 <= len
               PROVE  \E f \in [1 .. n + 1 -> Seq(M)] :
                         \A i \in 1 .. n + 1 : f[i] = Rec(f, i)
    OBVIOUS
  <2>1. n <= len /\ n + 1 \in 1 .. len
    BY <1>1
  <2>2. PICK f \in [1 .. n -> Seq(M)] : \A i \in 1 .. n : f[i] = Rec(f, i)
    BY <1>3, <2>1, Zenon
  <2> DEFINE g == [i \in 1 .. n + 1 |-> IF i = n + 1 THEN Rec(f, i) ELSE f[i]]
  <2>3. Rec(f, n + 1) \in Seq(M)
    <3>1. CASE n = 0
      BY <1>1, <2>1, <3>1
    <3>2. CASE n # 0
      <4>1. n \in 1 .. n /\ n + 1 - 1 = n /\ n + 1 # 1
        BY <3>2
      <4>2. f[n] \in Seq(M) /\ q[n + 1] \in Seq(M)
        BY <1>1, <2>1, <4>1
      <4> QED
        BY <4>1, <4>2, ConcatProperties
    <3> QED
      BY <3>1, <3>2
  <2>4. \A i \in 1 .. n + 1 : i = n + 1 \/ i \in 1 .. n
    OBVIOUS
  <2>5. g \in [1 .. n + 1 -> Seq(M)]
    BY <2>3, <2>4
  <2>6. \A i \in 1 .. n + 1 : i # 1 => i - 1 \in 1 .. n /\ g[i - 1] = f[i - 1]
    OBVIOUS
  <2>7. \A i \in 1 .. n + 1 : g[i] = Rec(g, i)
    BY <2>2, <2>4, <2>6
  <2> QED
    BY <2>5, <2>7
<1> HIDE DEF P
<1>4. Nat \subseteq T
  <2>1. 0 \in T
    BY <1>2
  <2>2. \A n \in Nat : n \in T => n + 1 \in T
    BY <1>3
  <2> QED
    BY <2>1, <2>2, SetInduction
<1>5. P(len) /\ len <= len
  <2>1. len <= len
    BY <1>1
  <2> QED
    BY <1>1, <1>4, <2>1, Zenon
<1>6. PICK f \in [1 .. len -> Seq(M)] : \A i \in 1 .. len : f[i] = Rec(f, i)
  BY <1>5, Zenon DEF P
<1>7. F = [i \in 1 .. len |-> Rec(F, i)]
  <2>1. f = [i \in 1 .. len |-> Rec(f, i)]
    BY <1>6, Zenon
  <2> QED
    BY <2>1, Zenon
<1>8. FlattenSeq(q) = IF len = 0 THEN q ELSE F[len]
  BY DEF FlattenSeq
<1> HIDE DEF F
<1> DEFINE U == {n \in Nat : n + 1 <= len => F[n + 1] \in Seq(M)}
<1>9. Nat \subseteq U
  <2>1. 0 \in U
    <3>1. 1 <= len => F[1] = q[1] /\ q[1] \in Seq(M)
      BY <1>1, <1>7
    <3> QED
      BY <3>1
  <2>2. ASSUME NEW n \in Nat, n \in U PROVE n + 1 \in U
    <3> SUFFICES ASSUME n + 1 + 1 <= len PROVE F[n + 1 + 1] \in Seq(M)
      OBVIOUS
    <3>1. F[n + 1] \in Seq(M) /\ q[n + 1 + 1] \in Seq(M)
      BY <1>1, <2>2
    <3>2. n + 1 + 1 \in 1 .. len /\ n + 1 + 1 # 1 /\ n + 1 + 1 - 1 = n + 1
      BY <1>1
    <3> DEFINE m == n + 1 + 1
               r == F[n + 1] \o q[m]
    <3> HIDE DEF m
    <3>3. F[m] = r
      <4>1. m \in 1 .. len /\ m # 1 /\ m - 1 = n + 1
        BY <3>2 DEF m
      <4>2. F[m] = Rec(F, m)
        BY <1>7, <4>1, Zenon
      <4> QED
        BY <4>1, <4>2, Zenon
    <3>4. r \in Seq(M)
      BY <3>1, ConcatProperties DEF m
    <3> HIDE DEF r
    <3> QED
      BY <3>3, <3>4 DEF m
  <2> QED
    BY <2>1, <2>2, SetInduction
<1>10. CASE len = 0
  BY <1>8, <1>10
<1>11. CASE len # 0
  <2>1. len - 1 \in Nat /\ len - 1 + 1 = len
    BY <1>1, <1>11
  <2>2. F[len] \in Seq(M)
    <3>1. len - 1 \in U
      BY <1>9, <2>1, Zenon
    <3>2. len - 1 + 1 <= len
      BY <1>1, <2>1
    <3> QED
      BY <2>1, <3>1, <3>2, Zenon
  <2> QED
    BY <1>8, <1>11, <2>2
<1> QED
  BY <1>10, <1>11

(* A function on the first n numbers is a sequence.                        *)
LEMMA SeqOfPlaces ==
    ASSUME NEW S, NEW n \in Nat, NEW q \in [1 .. n -> S]
    PROVE  q \in Seq(S)
OBVIOUS

LEMMA CollectType ==
    ASSUME NEW map \in Seq(KeyValue)
    PROVE  Collect(map) \in Seq(Mention)
<1>1. Len(map) \in Nat /\ DOMAIN map = 1 .. Len(map)
      /\ \A i \in 1 .. Len(map) : map[i] \in KeyValue
  OBVIOUS
<1>2. \A i \in 1 .. Len(map) :
         [name |-> map[i].key, type |-> map[i].type, value |-> Text(map[i])] \in Mention
  <2> SUFFICES ASSUME NEW i \in 1 .. Len(map)
               PROVE  [name |-> map[i].key, type |-> map[i].type,
                       value |-> Text(map[i])] \in Mention
    OBVIOUS
  <2>1. map[i].key \in STRING /\ map[i].type \in STRING /\ map[i].text \in STRING
    BY <1>1 DEF KeyValue
  <2>2. Text(map[i]) \in STRING \union {NoText}
    BY <2>1, Zenon DEF Text, NoText
  <2> QED
    BY <2>1, <2>2 DEF Mention
<1> QED
  BY <1>1, <1>2 DEF Collect

LEMMA ItemMentionsType ==
    ASSUME NEW signal, NEW item \in Item(signal)
    PROVE  ItemMentions(signal, item) \in Seq(Mention)
<1>1. item.points \in Seq(Seq(KeyValue))
  BY DEF Item
<1>2. Points(signal, item) \in Seq(Seq(KeyValue))
      /\ \A p \in DOMAIN Points(signal, item) : item.points[p] \in Seq(KeyValue)
  <2>1. Points(signal, item) = << >> \/ Points(signal, item) = item.points
    BY DEF Points
  <2>2. CASE Points(signal, item) = << >>
    BY <2>2
  <2>3. CASE Points(signal, item) = item.points
    BY <1>1, <2>3
  <2> QED
    BY <2>1, <2>2, <2>3
<1>3. [p \in DOMAIN Points(signal, item) |-> Collect(item.points[p])] \in Seq(Seq(Mention))
  <2>1. DOMAIN Points(signal, item) = 1 .. Len(Points(signal, item))
        /\ Len(Points(signal, item)) \in Nat
    BY <1>2
  <2>2. \A p \in DOMAIN Points(signal, item) : Collect(item.points[p]) \in Seq(Mention)
    BY <1>2, CollectType
  <2> QED
    BY <2>1, <2>2, SeqOfPlaces
<1>4. Heading(signal, item) \in Seq(Mention)
  <2>1. CASE signal = "metric"
    <3>1. item.name \in STRING /\ item.kind \in DOMAIN MetricType
      BY <2>1 DEF Item
    <3> DEFINE heading ==
               [name |-> item.name, type |-> MetricType[item.kind], value |-> NoText]
    <3>2. heading \in Mention
      BY <3>1 DEF Mention
    <3>3. Heading(signal, item) = <<heading>>
      BY <2>1, Zenon DEF Heading, NoText
    <3> QED
      BY <3>2, <3>3
  <2>2. CASE signal # "metric"
    <3>1. Heading(signal, item) = << >>
      BY <2>2, Zenon DEF Heading
    <3> QED
      BY <3>1
  <2> QED
    BY <2>1, <2>2
<1>5. FlattenSeq([p \in DOMAIN Points(signal, item) |-> Collect(item.points[p])])
        \in Seq(Mention)
  BY <1>3, FlattenType
<1> QED
  BY <1>4, <1>5, ConcatProperties DEF ItemMentions

LEMMA ScopeMentionsType ==
    ASSUME NEW signal, NEW scope \in Scope(signal)
    PROVE  ScopeMentions(signal, scope) \in Seq(Mention)
<1>1. scope.attrs \in Seq(KeyValue) /\ scope.items \in Seq(Item(signal))
  BY DEF Scope
<1>2. [k \in DOMAIN scope.items |-> ItemMentions(signal, scope.items[k])] \in Seq(Seq(Mention))
  <2>1. Len(scope.items) \in Nat /\ DOMAIN scope.items = 1 .. Len(scope.items)
        /\ \A k \in DOMAIN scope.items : scope.items[k] \in Item(signal)
    BY <1>1
  <2>2. \A k \in DOMAIN scope.items : ItemMentions(signal, scope.items[k]) \in Seq(Mention)
    BY <2>1, ItemMentionsType
  <2> QED
    BY <2>1, <2>2, SeqOfPlaces
<1>3. FlattenSeq([k \in DOMAIN scope.items |-> ItemMentions(signal, scope.items[k])])
        \in Seq(Mention)
  BY <1>2, FlattenType
<1> QED
  BY <1>1, <1>3, CollectType, ConcatProperties DEF ScopeMentions

LEMMA ResourceMentionsType ==
    ASSUME NEW signal, NEW resource \in Resource(signal)
    PROVE  ResourceMentions(signal, resource) \in Seq(Mention)
<1>1. resource.attrs \in Seq(KeyValue) /\ resource.scopes \in Seq(Scope(signal))
  BY DEF Resource
<1>2. [j \in DOMAIN resource.scopes |-> ScopeMentions(signal, resource.scopes[j])]
        \in Seq(Seq(Mention))
  <2>1. Len(resource.scopes) \in Nat /\ DOMAIN resource.scopes = 1 .. Len(resource.scopes)
        /\ \A j \in DOMAIN resource.scopes : resource.scopes[j] \in Scope(signal)
    BY <1>1
  <2>2. \A j \in DOMAIN resource.scopes :
           ScopeMentions(signal, resource.scopes[j]) \in Seq(Mention)
    BY <2>1, ScopeMentionsType
  <2> QED
    BY <2>1, <2>2, SeqOfPlaces
<1>3. FlattenSeq([j \in DOMAIN resource.scopes |-> ScopeMentions(signal, resource.scopes[j])])
        \in Seq(Mention)
  BY <1>2, FlattenType
<1> QED
  BY <1>1, <1>3, CollectType, ConcatProperties DEF ResourceMentions

LEMMA MentionsType ==
    ASSUME NEW p \in Payloads
    PROVE  Mentions(p) \in Seq(Mention) /\ p.signal \in {"metric", "trace", "log"}
<1>1. PICK signal \in {"metric", "trace", "log"} :
         p \in [signal : {signal}, resources : Seq(Resource(signal))]
  BY PayloadAssumption
<1>2. p.signal = signal /\ p.resources \in Seq(Resource(signal))
  BY <1>1
<1>3. [i \in DOMAIN p.resources |-> ResourceMentions(signal, p.resources[i])]
        \in Seq(Seq(Mention))
  <2>1. Len(p.resources) \in Nat /\ DOMAIN p.resources = 1 .. Len(p.resources)
        /\ \A i \in DOMAIN p.resources : p.resources[i] \in Resource(signal)
    BY <1>2
  <2>2. \A i \in DOMAIN p.resources :
           ResourceMentions(signal, p.resources[i]) \in Seq(Mention)
    BY <2>1, ResourceMentionsType
  <2> QED
    BY <2>1, <2>2, SeqOfPlaces
<1>4. FlattenSeq([i \in DOMAIN p.resources |-> ResourceMentions(signal, p.resources[i])])
        \in Seq(Mention)
  BY <1>3, FlattenType
<1> QED
  BY <1>1, <1>2, <1>4 DEF Mentions

(* What a payload's mentions s become: the values v, every name and value  *)
(* that is mentioned, once; the entries e, every name that is mentioned,   *)
(* as it was first.                                                        *)
Summarises(s, v, e) ==
    /\ s \in Seq(Mention) /\ v \in Seq(Mention) /\ e \in Seq(Mention)
    /\ \A j, k \in 1 .. Len(v) : j # k => ~SameValue(v[j], v[k])
    /\ \A j \in 1 .. Len(v) : \E k \in 1 .. Len(s) : v[j] = s[k]
    /\ \A k \in 1 .. Len(s) : \E j \in 1 .. Len(v) : SameValue(v[j], s[k])
    /\ \A j \in 1 .. Len(e) : IsFirst(s, e[j])
    /\ \A k \in 1 .. Len(s) : \E j \in 1 .. Len(e) : e[j].name = s[k].name

(* A first value is a first mention: a mention that is first of its name   *)
(* is never dropped for its value.                                         *)
LEMMA FirstOfValues ==
    ASSUME NEW s \in Seq(Mention), NEW v, ValuesUpTo(s, Len(s), v),
           NEW x, IsFirst(v, x)
    PROVE  IsFirst(s, x)
<1>1. /\ Len(s) \in Nat /\ DOMAIN s = 1 .. Len(s)
      /\ v \in Seq(Mention) /\ DOMAIN v = 1 .. Len(v)
  BY DEF ValuesUpTo
<1>2. PICK j \in 1 .. Len(v) : v[j] = x
  BY <1>1 DEF IsFirst
<1>3. PICK k \in 1 .. Len(s) : v[j] = s[k]
  BY DEF ValuesUpTo
<1>4. PICK y : IsFirst(s, y) /\ y.name = s[k].name
  BY FirstExists
<1>5. IsFirst(v, y)
  <2>1. PICK l \in 1 .. Len(s) : s[l] = y /\ \A h \in 1 .. l - 1 : s[h].name # y.name
    BY <1>1, <1>4 DEF IsFirst
  <2>2. (\A h \in 1 .. l - 1 : s[h].name # s[l].name) => IsFirst(v, s[l])
    BY DEF ValuesUpTo
  <2> QED
    BY <2>1, <2>2, Zenon
<1>6. y.name = x.name
  BY <1>2, <1>3, <1>4
<1>7. x = y
  BY <1>1, <1>5, <1>6, FirstIsUnique
<1> QED
  BY <1>4, <1>7

LEMMA Summary ==
    ASSUME NEW s \in Seq(Mention), NEW v, NEW e, AddsValues(s, v), AddsNames(v, e)
    PROVE  Summarises(s, v, e)
<1>1. ValuesUpTo(s, Len(s), v)
  BY ValuesOfAll
<1>2. v \in Seq(Mention)
  BY <1>1 DEF ValuesUpTo
<1>3. NamesUpTo(v, Len(v), e)
  BY <1>2, NamesOfAll
<1>4. \A j \in 1 .. Len(e) : IsFirst(s, e[j])
  BY <1>1, <1>3, FirstOfValues DEF NamesUpTo
<1>5. \A k \in 1 .. Len(s) : \E j \in 1 .. Len(e) : e[j].name = s[k].name
  <2> SUFFICES ASSUME NEW k \in 1 .. Len(s)
               PROVE  \E j \in 1 .. Len(e) : e[j].name = s[k].name
    OBVIOUS
  <2>1. PICK l \in 1 .. Len(v) : v[l].name = s[k].name
    BY <1>1 DEF ValuesUpTo, SameValue
  <2> QED
    BY <1>3, <2>1 DEF NamesUpTo
<1> QED
  BY <1>1, <1>2, <1>3, <1>4, <1>5 DEF Summarises, ValuesUpTo, NamesUpTo

LEMMA ResultSummarises ==
    ASSUME NEW p \in Payloads
    PROVE  /\ Summarises(SaidBy[p], ExtractionResult[p].values, ExtractionResult[p].entries)
           /\ ExtractionResult[p] = [signal |-> p.signal,
                                     entries |-> ExtractionResult[p].entries,
                                     values |-> ExtractionResult[p].values]
<1> DEFINE s == Mentions(p)
           v == FoldLeft(AddValue, << >>, s)
           e == FoldLeft(AddName, << >>, v)
<1>1. SaidBy[p] = s
  BY DEF SaidBy
<1>2. ExtractionResult[p] = [signal |-> p.signal, entries |-> e, values |-> v]
  BY DEF ExtractionResult, DedupByName, AllAttrs
<1>3. s \in Seq(Mention)
  BY MentionsType
<1> HIDE DEF s
<1>4. AddsValues(s, v)
  BY <1>3, AllAttrsByPlace
<1> HIDE DEF v
<1>5. v \in Seq(Mention)
  <2>1. ValuesUpTo(s, Len(s), v)
    BY <1>3, <1>4, ValuesOfAll
  <2> QED
    BY <2>1 DEF ValuesUpTo
<1>6. AddsNames(v, e)
  BY <1>5, DedupByPlace
<1> HIDE DEF e
<1>7. Summarises(s, v, e)
  BY <1>3, <1>4, <1>6, Summary
<1> QED
  BY <1>1, <1>2, <1>7

-----------------------------------------------------------------------------
\* Types, and what a step leaves of the payloads taken

Work ==
    [signal : {p.signal : p \in Payloads} \union {Idle.signal},
     entries : Seq(Mention), values : Seq(Mention)]

TypeInv ==
    /\ taken \in Seq(Payloads \union {Unreadable})
    /\ busy \in [Workers -> Work]
    /\ IsABag(tracked)

LEMMA IdleWork ==
    Idle \in Work /\ Idle.entries = << >> /\ Idle.values = << >>
<1>1. Idle = [signal |-> NoText, entries |-> << >>, values |-> << >>]
  BY Zenon DEF Idle, NoText
<1>2. Idle.signal = NoText /\ Idle.entries = << >> /\ Idle.values = << >>
  BY <1>1
<1>3. << >> \in Seq(Mention)
  OBVIOUS
<1> HIDE DEF Mention
<1> QED
  BY <1>1, <1>2, <1>3 DEF Work

LEMMA ResultWork ==
    ASSUME NEW p \in Payloads
    PROVE  ExtractionResult[p] \in Work
<1> DEFINE r == ExtractionResult[p]
<1>1. /\ r = [signal |-> p.signal, entries |-> r.entries, values |-> r.values]
      /\ r.entries \in Seq(Mention) /\ r.values \in Seq(Mention)
  BY ResultSummarises, Zenon DEF Summarises
<1>2. p.signal \in {q.signal : q \in Payloads} \union {Idle.signal}
  OBVIOUS
<1> HIDE DEF r
<1>3. PICK e \in Seq(Mention), v \in Seq(Mention) :
         r = [signal |-> p.signal, entries |-> e, values |-> v]
  BY <1>1, Zenon
<1> QED
  BY <1>2, <1>3 DEF Work, r

(* The type of a name's first mention.                                     *)
TypeOfFirst(s, n) ==
    s[CHOOSE k \in DOMAIN s :
        /\ s[k].name = n
        /\ \A j \in 1..(k - 1) : s[j].name # n].type

LEMMA FirstTypeIs ==
    ASSUME NEW s \in Seq(Mention), NEW x, IsFirst(s, x)
    PROVE  TypeOfFirst(s, x.name) = x.type
<1> DEFINE C == CHOOSE k \in DOMAIN s :
                    s[k].name = x.name /\ \A j \in 1..(k - 1) : s[j].name # x.name
<1>1. PICK k \in DOMAIN s : s[k] = x /\ \A j \in 1 .. k - 1 : s[j].name # x.name
  BY DEF IsFirst
<1>2. \E l \in DOMAIN s : s[l].name = x.name /\ \A j \in 1..(l - 1) : s[j].name # x.name
  BY <1>1
<1>3. /\ C \in DOMAIN s /\ s[C].name = x.name
      /\ \A j \in 1 .. C - 1 : s[j].name # x.name
  BY <1>2, Zenon
<1>4. TypeOfFirst(s, x.name) = s[C].type
  BY Zenon DEF TypeOfFirst
<1> HIDE DEF C
<1>5. IsFirst(s, s[C])
  BY <1>3, Zenon DEF IsFirst
<1>6. s[C] = x
  BY <1>3, <1>5, FirstIsUnique, Zenon
<1> QED
  BY <1>4, <1>6

(* What one payload says, as the specification has it of the i-th taken.   *)
SaidOf(p) == IF p = Unreadable THEN << >> ELSE SaidBy[p]
Names(p) == {SaidOf(p)[k].name : k \in DOMAIN SaidOf(p)}
TypeIn(p, n) == TypeOfFirst(SaidOf(p), n)
Values(p) ==
    {<<SaidOf(p)[k].name, SaidOf(p)[k].value>> :
        k \in {k \in DOMAIN SaidOf(p) : SaidOf(p)[k].value # ""}}

LEMMA SaidOfTaken ==
    ASSUME NEW i
    PROVE  /\ NamesIn(i) = Names(taken[i]) /\ ValuesIn(i) = Values(taken[i])
           /\ \A n : FirstType(i, n) = TypeIn(taken[i], n)
<1>1. Said(i) = SaidOf(taken[i])
  BY Zenon DEF Said, SaidOf
<1> QED
  BY <1>1, Zenon DEF NamesIn, Names, ValuesIn, Values, FirstType, TypeIn, TypeOfFirst

(* What was taken stays taken.                                             *)
LEMMA TakenStays ==
    ASSUME TypeInv, [Next]_vars
    PROVE  \A i \in DOMAIN taken : i \in DOMAIN taken' /\ taken'[i] = taken[i]
<1>1. CASE UNCHANGED taken
  BY <1>1
<1>2. CASE \E w \in Workers : Extract(w)
  <2>1. PICK p \in Payloads \union {Unreadable} : taken' = Append(taken, p)
    BY <1>2, Zenon DEF Extract
  <2> QED
    BY <2>1, AppendProperties DEF TypeInv
<1>3. UNCHANGED taken \/ \E w \in Workers : Extract(w)
  BY Zenon DEF Next, Upsert, Track, Finish, vars
<1> QED
  BY <1>1, <1>2, <1>3

(* The types.                                                              *)
THEOREM TypeCorrect == Spec => []TypeInv
<1> USE DEF TypeInv
<1>1. Init => TypeInv
  BY IdleWork DEF Init, EmptyBag, SetToBag, IsABag
<1>2. TypeInv /\ [Next]_vars => TypeInv'
  <2> SUFFICES ASSUME TypeInv, [Next]_vars PROVE TypeInv'
    OBVIOUS
  <2> HIDE DEF TypeInv
  <2>1. ASSUME NEW w \in Workers, Extract(w) PROVE TypeInv'
    <3>1. PICK p \in Payloads \union {Unreadable} :
             /\ taken' = Append(taken, p)
             /\ busy' = IF p = Unreadable THEN busy
                        ELSE [busy EXCEPT ![w] = ExtractionResult[p]]
      BY <2>1, Zenon DEF Extract
    <3>2. tracked' = tracked
      BY <2>1, Zenon DEF Extract
    <3>3. p # Unreadable => ExtractionResult[p] \in Work
      BY ResultWork
    <3>4. busy' \in [Workers -> Work]
      BY <3>1, <3>3 DEF TypeInv
    <3>5. taken' \in Seq(Payloads \union {Unreadable})
      BY <3>1, AppendProperties DEF TypeInv
    <3> QED
      BY <3>2, <3>4, <3>5 DEF TypeInv
  <2>2. ASSUME NEW w \in Workers, Upsert(w) PROVE TypeInv'
    <3>1. /\ busy[w].entries # << >> /\ busy' = [busy EXCEPT ![w].entries = Tail(@)]
          /\ tracked' = tracked /\ taken' = taken
      BY <2>2, Zenon DEF Upsert
    <3>2. Tail(busy[w].entries) \in Seq(Mention)
      BY <3>1, HeadTailProperties DEF TypeInv, Work
    <3> QED
      BY <3>1, <3>2 DEF TypeInv, Work
  <2>3. ASSUME NEW w \in Workers, Track(w) PROVE TypeInv'
    <3> DEFINE attr == Head(busy[w].values)
               one == SetToBag({<<attr.name, attr.value>>})
    <3>1. /\ busy[w].values # << >> /\ busy' = [busy EXCEPT ![w].values = Tail(@)]
          /\ taken' = taken
          /\ tracked' = tracked \/ tracked' = tracked (+) one
      BY <2>3, Zenon DEF Track
    <3>2. Tail(busy[w].values) \in Seq(Mention)
      BY <3>1, HeadTailProperties DEF TypeInv, Work
    <3>3. busy' \in [Workers -> Work]
      BY <3>1, <3>2 DEF TypeInv, Work
    <3>4. IsABag(one)
      BY DEF IsABag, SetToBag
    <3> HIDE DEF one
    <3>5. IsABag(tracked (+) one)
      BY <3>4 DEF TypeInv, IsABag, (+)
    <3> QED
      BY <3>1, <3>3, <3>5 DEF TypeInv
  <2>4. ASSUME NEW w \in Workers, Finish(w) PROVE TypeInv'
    <3>1. busy' = [busy EXCEPT ![w] = Idle] /\ tracked' = tracked /\ taken' = taken
      BY <2>4, Zenon DEF Finish
    <3> QED
      BY <3>1, IdleWork DEF TypeInv
  <2>5. CASE UNCHANGED vars
    BY <2>5 DEF vars, TypeInv
  <2> QED
    BY <2>1, <2>2, <2>3, <2>4, <2>5 DEF Next
<1> QED
  BY <1>1, <1>2, PTL DEF Spec

-----------------------------------------------------------------------------
\* The dictionary

(* A worker's entries are names of payload p with the types of their first *)
(* mentions.                                                               *)
Says(p, entry) == entry.name \in Names(p) /\ entry.type = TypeIn(p, entry.name)
WorkIsSaid(work, p) ==
    /\ work.signal = p.signal
    /\ \A j \in DOMAIN work.entries : Says(p, work.entries[j])
EntriesAreSaid ==
    \A w \in Workers :
        busy[w].entries # << >> => \E i \in DOMAIN taken : WorkIsSaid(busy[w], taken[i])

DictIsSaid ==
    \A n \in DOMAIN dict :
        /\ \E i \in DOMAIN taken :
              n \in Names(taken[i]) /\ dict[n].type = TypeIn(taken[i], n)
        /\ \A signal \in dict[n].signals :
              \E i \in DOMAIN taken : n \in Names(taken[i]) /\ taken[i].signal = signal

(* A name of a payload is in the dictionary or in the hands of a worker.   *)
Recorded(n, signal) == n \in DOMAIN dict /\ signal \in dict[n].signals
Holds(work, n, signal) ==
    /\ work.signal = signal
    /\ \E j \in DOMAIN work.entries : work.entries[j].name = n
InHand(n, signal) == \E w \in Workers : Holds(busy[w], n, signal)
NoNameLost ==
    \A i \in DOMAIN taken : \A n \in Names(taken[i]), signal \in {taken[i].signal} :
        Recorded(n, signal) \/ InHand(n, signal)

DictInv == TypeInv /\ EntriesAreSaid /\ DictIsSaid /\ NoNameLost

(* What a worker has in hand of a payload it has just taken.               *)
LEMMA ResultIsSaid ==
    ASSUME NEW p \in Payloads, p # Unreadable, NEW r, r = ExtractionResult[p]
    PROVE  /\ WorkIsSaid(r, p)
           /\ \A n \in Names(p) : Holds(r, n, p.signal)
<1> DEFINE s == SaidOf(p)
           e == r.entries
<1>1. s = SaidBy[p]
  BY Zenon DEF SaidOf
<1>2. Summarises(s, r.values, e) /\ r.signal = p.signal
  <2>1. PICK es, vs : r = [signal |-> p.signal, entries |-> es, values |-> vs]
    BY ResultSummarises, Zenon
  <2>2. r.signal = p.signal
    BY <2>1
  <2> QED
    BY <1>1, <2>2, ResultSummarises, Zenon
<1>3. Names(p) = {s[k].name : k \in DOMAIN s} /\ \A n : TypeIn(p, n) = TypeOfFirst(s, n)
  BY Zenon DEF Names, TypeIn
<1> HIDE DEF s, e
<1>4. /\ s \in Seq(Mention) /\ DOMAIN s = 1 .. Len(s)
      /\ e \in Seq(Mention) /\ DOMAIN e = 1 .. Len(e)
      /\ \A j \in 1 .. Len(e) : IsFirst(s, e[j])
      /\ \A k \in 1 .. Len(s) : \E j \in 1 .. Len(e) : e[j].name = s[k].name
  <2>1. /\ s \in Seq(Mention) /\ e \in Seq(Mention)
        /\ \A j \in 1 .. Len(e) : IsFirst(s, e[j])
        /\ \A k \in 1 .. Len(s) : \E j \in 1 .. Len(e) : e[j].name = s[k].name
    BY <1>2, Zenon DEF Summarises
  <2>2. DOMAIN s = 1 .. Len(s) /\ DOMAIN e = 1 .. Len(e)
    BY <2>1
  <2> QED
    BY <2>1, <2>2
<1>5. ASSUME NEW j \in DOMAIN e PROVE Says(p, e[j])
  <2>1. IsFirst(s, e[j])
    BY <1>4
  <2>2. e[j].name \in Names(p)
    BY <1>3, <2>1 DEF IsFirst
  <2>3. TypeIn(p, e[j].name) = e[j].type
    BY <1>3, <1>4, <2>1, FirstTypeIs
  <2> QED
    BY <2>2, <2>3, Zenon DEF Says
<1>6. ASSUME NEW n \in Names(p) PROVE \E j \in DOMAIN e : e[j].name = n
  <2>1. PICK k \in DOMAIN s : n = s[k].name
    BY <1>3
  <2> QED
    BY <1>4, <2>1
<1> QED
  BY <1>2, <1>5, <1>6, Zenon DEF WorkIsSaid, Holds, e

(* A dictionary that does not change, and a worker's entries that do not.  *)
LEMMA DictStays ==
    ASSUME TypeInv, [Next]_vars, DictIsSaid, dict' = dict
    PROVE  DictIsSaid'
<1>1. \A i \in DOMAIN taken : i \in DOMAIN taken' /\ taken'[i] = taken[i]
  BY TakenStays
<1> QED
  BY <1>1 DEF DictIsSaid

LEMMA WorkStays ==
    ASSUME TypeInv, [Next]_vars, EntriesAreSaid, NEW v \in Workers,
           busy[v].entries # << >>
    PROVE  \E i \in DOMAIN taken' : WorkIsSaid(busy[v], taken'[i])
<1>1. \A i \in DOMAIN taken : i \in DOMAIN taken' /\ taken'[i] = taken[i]
  BY TakenStays
<1> QED
  BY <1>1 DEF EntriesAreSaid

(* The names of the payloads taken before are where they were, or have     *)
(* been recorded.                                                          *)
LEMMA OldNamesStay ==
    ASSUME TypeInv, [Next]_vars, NoNameLost, NEW i \in DOMAIN taken,
           \A n, signal : Recorded(n, signal) => Recorded(n, signal)',
           \A n, signal : InHand(n, signal) => InHand(n, signal)' \/ Recorded(n, signal)',
           NEW n \in Names(taken'[i]), NEW signal \in {taken'[i].signal}
    PROVE  Recorded(n, signal)' \/ InHand(n, signal)'
<1>1. n \in Names(taken[i]) /\ signal \in {taken[i].signal}
  BY TakenStays
<1>2. Recorded(n, signal) \/ InHand(n, signal)
  BY <1>1, Zenon DEF NoNameLost
<1> QED
  BY <1>2, Zenon

LEMMA ExtractDict ==
    ASSUME DictInv, NEW w \in Workers, Extract(w), [Next]_vars
    PROVE  (EntriesAreSaid /\ DictIsSaid /\ NoNameLost)'
<1>1. PICK p \in Payloads \union {Unreadable} :
         /\ taken' = Append(taken, p)
         /\ busy' = IF p = Unreadable THEN busy
                    ELSE [busy EXCEPT ![w] = ExtractionResult[p]]
  BY Zenon DEF Extract
<1>2. dict' = dict /\ busy[w] = Idle
  BY Zenon DEF Extract
<1>3. TypeInv /\ EntriesAreSaid /\ DictIsSaid /\ NoNameLost
  BY DEF DictInv
<1>4. DictIsSaid'
  BY <1>2, <1>3, DictStays
<1> PICK new \in Nat : new = Len(taken) + 1
  BY <1>3 DEF TypeInv
<1>5. /\ new \in DOMAIN taken' /\ taken'[new] = p
      /\ \A i \in DOMAIN taken' : i = new \/ i \in DOMAIN taken
  BY <1>1, <1>3, AppendProperties DEF TypeInv
<1>6. Idle.entries = << >>
  BY IdleWork
<1>7. \A v \in Workers : v # w => busy'[v] = busy[v]
  BY <1>1, <1>3 DEF TypeInv
<1>8. \A n, signal : Recorded(n, signal) => Recorded(n, signal)'
  BY <1>2, Zenon DEF Recorded
<1>9. \A n, signal : InHand(n, signal) => InHand(n, signal)'
  <2> SUFFICES ASSUME NEW n, NEW signal, InHand(n, signal) PROVE InHand(n, signal)'
    OBVIOUS
  <2>1. PICK v \in Workers : Holds(busy[v], n, signal)
    BY Zenon DEF InHand
  <2>2. v # w
    BY <1>2, <1>6, <2>1 DEF Holds
  <2> QED
    BY <1>7, <2>1, <2>2, Zenon DEF InHand
<1>10. \A v \in Workers : busy[v].entries # << >> =>
          \E i \in DOMAIN taken' : WorkIsSaid(busy[v], taken'[i])
  BY <1>3, WorkStays
<1>11. CASE p = Unreadable
  <2>1. busy' = busy
    BY <1>1, <1>11
  <2>2. EntriesAreSaid'
    BY <1>10, <2>1, Zenon DEF EntriesAreSaid
  <2>3. Names(p) = {}
    <3>1. SaidOf(p) = << >>
      BY <1>11, Zenon DEF SaidOf
    <3> QED
      BY <3>1 DEF Names
  <2>4. NoNameLost'
    <3> SUFFICES ASSUME NEW i \in DOMAIN taken', NEW n \in Names(taken'[i]),
                        NEW signal \in {taken'[i].signal}
                 PROVE  Recorded(n, signal)' \/ InHand(n, signal)'
      BY Zenon DEF NoNameLost
    <3>1. i \in DOMAIN taken
      BY <1>5, <2>3
    <3> QED
      BY <1>3, <1>8, <1>9, <3>1, OldNamesStay
  <2> QED
    BY <1>4, <2>2, <2>4
<1>12. CASE p # Unreadable
  <2> DEFINE r == ExtractionResult[p]
  <2>1. p \in Payloads
    BY <1>12
  <2>2. busy'[w] = r
    BY <1>1, <1>3, <1>12 DEF TypeInv
  <2>3. WorkIsSaid(r, p) /\ \A n \in Names(p) : Holds(r, n, p.signal)
    BY <1>12, <2>1, ResultIsSaid
  <2> HIDE DEF r
  <2>4. EntriesAreSaid'
    <3> SUFFICES ASSUME NEW v \in Workers, busy'[v].entries # << >>
                 PROVE  \E i \in DOMAIN taken' : WorkIsSaid(busy'[v], taken'[i])
      BY Zenon DEF EntriesAreSaid
    <3>1. CASE v = w
      BY <1>5, <2>2, <2>3, <3>1
    <3>2. CASE v # w
      BY <1>7, <1>10, <3>2
    <3> QED
      BY <3>1, <3>2
  <2>5. NoNameLost'
    <3> SUFFICES ASSUME NEW i \in DOMAIN taken', NEW n \in Names(taken'[i]),
                        NEW signal \in {taken'[i].signal}
                 PROVE  Recorded(n, signal)' \/ InHand(n, signal)'
      BY Zenon DEF NoNameLost
    <3>1. CASE i = new
      <4>1. Holds(busy'[w], n, signal)
        BY <1>5, <2>2, <2>3, <3>1
      <4> QED
        BY <4>1, Zenon DEF InHand
    <3>2. CASE i \in DOMAIN taken
      BY <1>3, <1>8, <1>9, <3>2, OldNamesStay
    <3> QED
      BY <1>5, <3>1, <3>2
  <2> QED
    BY <1>4, <2>4, <2>5
<1> QED
  BY <1>11, <1>12

LEMMA UpsertDict ==
    ASSUME DictInv, NEW w \in Workers, Upsert(w), [Next]_vars
    PROVE  (EntriesAreSaid /\ DictIsSaid /\ NoNameLost)'
<1> PICK es \in Seq(Mention) : es = busy[w].entries
  BY DEF DictInv, TypeInv, Work
<1> PICK entry : entry = Head(es)
  OBVIOUS
<1> PICK sig : sig = busy[w].signal
  OBVIOUS
<1>1. /\ es # << >> /\ taken' = taken
      /\ busy' = [busy EXCEPT ![w].entries = Tail(@)]
      /\ dict' = [n \in DOMAIN dict \union {entry.name} |->
                    IF n # entry.name THEN dict[n]
                    ELSE [type |-> entry.type, signals |-> Signals(n) \union {sig}]]
  BY Zenon DEF Upsert
<1>2. TypeInv /\ EntriesAreSaid /\ DictIsSaid /\ NoNameLost
  BY DEF DictInv
<1>3. /\ DOMAIN es = 1 .. Len(es) /\ Len(es) \in Nat /\ Len(es) > 0 /\ es[1] = entry
      /\ Tail(es) \in Seq(Mention) /\ DOMAIN Tail(es) = 1 .. Len(es) - 1
      /\ \A j \in 1 .. Len(es) - 1 : Tail(es)[j] = es[j + 1]
  BY <1>1, HeadTailProperties
<1>4. /\ busy'[w].signal = sig /\ busy'[w].entries = Tail(es)
      /\ \A v \in Workers : v # w => busy'[v] = busy[v]
  BY <1>1, <1>2 DEF TypeInv, Work
<1>5. PICK i0 \in DOMAIN taken : WorkIsSaid(busy[w], taken[i0])
  BY <1>1, <1>2 DEF EntriesAreSaid
<1>6. /\ sig = taken[i0].signal /\ Says(taken[i0], entry)
      /\ \A j \in DOMAIN es : Says(taken[i0], es[j])
  BY <1>3, <1>5 DEF WorkIsSaid
<1>7. EntriesAreSaid'
  <2> SUFFICES ASSUME NEW v \in Workers, busy'[v].entries # << >>
               PROVE  \E i \in DOMAIN taken : WorkIsSaid(busy'[v], taken[i])
    BY <1>1, Zenon DEF EntriesAreSaid
  <2>1. CASE v = w
    <3>1. WorkIsSaid(busy'[w], taken[i0])
      BY <1>3, <1>4, <1>6 DEF WorkIsSaid
    <3> QED
      BY <2>1, <3>1
  <2>2. CASE v # w
    BY <1>2, <1>4, <2>2 DEF EntriesAreSaid
  <2> QED
    BY <2>1, <2>2
<1>8. \A n \in DOMAIN dict' : n # entry.name => n \in DOMAIN dict /\ dict'[n] = dict[n]
  BY <1>1
<1>9. /\ entry.name \in DOMAIN dict' /\ dict'[entry.name].type = entry.type
      /\ dict'[entry.name].signals = Signals(entry.name) \union {sig}
  BY <1>1
<1>10. DictIsSaid'
  <2> SUFFICES ASSUME NEW n \in DOMAIN dict'
               PROVE  /\ \E i \in DOMAIN taken :
                            n \in Names(taken[i]) /\ dict'[n].type = TypeIn(taken[i], n)
                      /\ \A signal \in dict'[n].signals :
                            \E i \in DOMAIN taken :
                               n \in Names(taken[i]) /\ taken[i].signal = signal
    <3>1. taken' = taken
      BY <1>1
    <3> QED
      BY <3>1, Zenon DEF DictIsSaid
  <2>1. CASE n # entry.name
    BY <1>2, <1>8, <2>1 DEF DictIsSaid
  <2>2. CASE n = entry.name
    <3>1. n \in Names(taken[i0]) /\ dict'[n].type = TypeIn(taken[i0], n)
      BY <1>6, <1>9, <2>2 DEF Says
    <3>2. ASSUME NEW signal \in dict'[n].signals
          PROVE  \E i \in DOMAIN taken : n \in Names(taken[i]) /\ taken[i].signal = signal
      <4>1. signal = sig \/ (n \in DOMAIN dict /\ signal \in dict[n].signals)
        BY <1>9, <2>2 DEF Signals
      <4> QED
        BY <1>2, <1>6, <3>1, <4>1 DEF DictIsSaid
    <3> QED
      BY <3>1, <3>2
  <2> QED
    BY <2>1, <2>2
<1>11. \A n, signal : Recorded(n, signal) => Recorded(n, signal)'
  <2> SUFFICES ASSUME NEW n, NEW signal, n \in DOMAIN dict, signal \in dict[n].signals
               PROVE  n \in DOMAIN dict' /\ signal \in dict'[n].signals
    BY Zenon DEF Recorded
  <2> QED
    BY <1>1, <1>8, <1>9 DEF Signals
<1>12. \A n, signal : InHand(n, signal) => InHand(n, signal)' \/ Recorded(n, signal)'
  <2> SUFFICES ASSUME NEW n, NEW signal, InHand(n, signal)
               PROVE  InHand(n, signal)' \/ Recorded(n, signal)'
    OBVIOUS
  <2>1. PICK v \in Workers : Holds(busy[v], n, signal)
    BY Zenon DEF InHand
  <2>2. CASE v # w
    BY <1>4, <2>1, <2>2, Zenon DEF InHand
  <2>3. CASE v = w
    <3>1. PICK j \in DOMAIN es : sig = signal /\ es[j].name = n
      BY <2>1, <2>3 DEF Holds
    <3>2. CASE j = 1
      <4>1. n \in DOMAIN dict' /\ signal \in dict'[n].signals
        BY <1>3, <1>9, <3>1, <3>2
      <4> QED
        BY <4>1, Zenon DEF Recorded
    <3>3. CASE j # 1
      <4>1. j - 1 \in DOMAIN Tail(es) /\ Tail(es)[j - 1] = es[j]
        BY <1>3, <3>3
      <4>2. Holds(busy'[w], n, signal)
        BY <1>4, <3>1, <4>1, Zenon DEF Holds
      <4> QED
        BY <4>2, Zenon DEF InHand
    <3> QED
      BY <3>2, <3>3
  <2> QED
    BY <2>2, <2>3
<1>13. NoNameLost'
  <2> SUFFICES ASSUME NEW i \in DOMAIN taken, NEW n \in Names(taken'[i]),
                      NEW signal \in {taken'[i].signal}
               PROVE  Recorded(n, signal)' \/ InHand(n, signal)'
    BY <1>1, Zenon DEF NoNameLost
  <2> QED
    BY <1>2, <1>11, <1>12, OldNamesStay
<1> QED
  BY <1>7, <1>10, <1>13

(* The other steps leave every worker the entries it had.                  *)
LEMMA OtherDict ==
    ASSUME DictInv, [Next]_vars, dict' = dict, taken' = taken,
           \A v \in Workers : /\ busy'[v].entries = busy[v].entries
                              /\ busy[v].entries # << >> => busy'[v].signal = busy[v].signal
    PROVE  (EntriesAreSaid /\ DictIsSaid /\ NoNameLost)'
<1>1. TypeInv /\ EntriesAreSaid /\ DictIsSaid /\ NoNameLost
  BY DEF DictInv
<1>2. EntriesAreSaid'
  BY <1>1 DEF EntriesAreSaid, WorkIsSaid
<1>3. DictIsSaid'
  BY <1>1, DictStays
<1>4. \A n, signal : Recorded(n, signal) => Recorded(n, signal)'
  BY Zenon DEF Recorded
<1>5. \A n, signal : InHand(n, signal) => InHand(n, signal)'
  BY DEF InHand, Holds
<1>6. NoNameLost'
  <2> SUFFICES ASSUME NEW i \in DOMAIN taken, NEW n \in Names(taken'[i]),
                      NEW signal \in {taken'[i].signal}
               PROVE  Recorded(n, signal)' \/ InHand(n, signal)'
    BY Zenon DEF NoNameLost
  <2> QED
    BY <1>1, <1>4, <1>5, OldNamesStay
<1> QED
  BY <1>2, <1>3, <1>6

LEMMA DictInvHolds == Spec => []DictInv
<1>1. Init => EntriesAreSaid /\ DictIsSaid /\ NoNameLost
  <2> SUFFICES ASSUME Init PROVE EntriesAreSaid /\ DictIsSaid /\ NoNameLost
    OBVIOUS
  <2>1. DOMAIN dict = {} /\ taken = << >> /\ \A w \in Workers : busy[w].entries = << >>
    BY IdleWork DEF Init
  <2> QED
    BY <2>1 DEF EntriesAreSaid, DictIsSaid, NoNameLost
<1>2. DictInv /\ [Next]_vars => (EntriesAreSaid /\ DictIsSaid /\ NoNameLost)'
  <2> SUFFICES ASSUME DictInv, [Next]_vars
               PROVE  (EntriesAreSaid /\ DictIsSaid /\ NoNameLost)'
    OBVIOUS
  <2>1. ASSUME NEW w \in Workers, Extract(w)
        PROVE  (EntriesAreSaid /\ DictIsSaid /\ NoNameLost)'
    BY <2>1, ExtractDict
  <2>2. ASSUME NEW w \in Workers, Upsert(w)
        PROVE  (EntriesAreSaid /\ DictIsSaid /\ NoNameLost)'
    BY <2>2, UpsertDict
  <2>3. ASSUME NEW w \in Workers, Track(w)
        PROVE  (EntriesAreSaid /\ DictIsSaid /\ NoNameLost)'
    <3>1. dict' = dict /\ taken' = taken /\ busy' = [busy EXCEPT ![w].values = Tail(@)]
      BY <2>3, Zenon DEF Track
    <3>2. \A v \in Workers : /\ busy'[v].entries = busy[v].entries
                             /\ busy'[v].signal = busy[v].signal
      BY <3>1 DEF DictInv, TypeInv, Work
    <3> QED
      BY <3>1, <3>2, OtherDict
  <2>4. ASSUME NEW w \in Workers, Finish(w)
        PROVE  (EntriesAreSaid /\ DictIsSaid /\ NoNameLost)'
    <3>1. /\ dict' = dict /\ taken' = taken /\ busy' = [busy EXCEPT ![w] = Idle]
          /\ busy[w].entries = << >>
      BY <2>4, Zenon DEF Finish
    <3>2. \A v \in Workers :
             /\ busy'[v].entries = busy[v].entries
             /\ busy[v].entries # << >> => busy'[v].signal = busy[v].signal
      BY <3>1, IdleWork DEF DictInv, TypeInv
    <3> QED
      BY <3>1, <3>2, OtherDict
  <2>5. CASE UNCHANGED vars
    <3>1. dict' = dict /\ taken' = taken /\ busy' = busy
      BY <2>5 DEF vars
    <3> QED
      BY <3>1, OtherDict
  <2> QED
    BY <2>1, <2>2, <2>3, <2>4, <2>5 DEF Next
<1> QED
  BY <1>1, <1>2, TypeCorrect, PTL DEF Spec, DictInv

(* Whatever the workers' order, the dictionary gives a name the type of its*)
(* first mention in some payload and only signals that carried it, and     *)
(* when the workers rest it misses no name and no signal of any payload.   *)
(* (extractor.go:79-91, 195-211, 266-291)                                  *)
THEOREM DictionaryCorrect == Spec => []DictionaryIsWhatWasSaid
<1>1. DictInv => DictionaryIsWhatWasSaid
  <2> SUFFICES ASSUME DictInv PROVE DictionaryIsWhatWasSaid
    OBVIOUS
  <2>1. EntriesAreSaid /\ DictIsSaid /\ NoNameLost
    BY DEF DictInv
  <2>2. \A i : NamesIn(i) = Names(taken[i]) /\ \A n : FirstType(i, n) = TypeIn(taken[i], n)
    BY SaidOfTaken
  <2>3. \A n : \A i : i \in Mentioning(n) <=> i \in DOMAIN taken /\ n \in Names(taken[i])
    BY <2>2 DEF Mentioning
  <2>4. ASSUME NEW n \in DOMAIN dict
        PROVE  /\ \E i \in Mentioning(n) : dict[n].type = FirstType(i, n)
               /\ dict[n].signals \subseteq {taken[i].signal : i \in Mentioning(n)}
    <3>1. /\ \E i \in DOMAIN taken :
                n \in Names(taken[i]) /\ dict[n].type = TypeIn(taken[i], n)
          /\ \A signal \in dict[n].signals :
                \E i \in DOMAIN taken : n \in Names(taken[i]) /\ taken[i].signal = signal
      BY <2>1 DEF DictIsSaid
    <3> QED
      BY <2>2, <2>3, <3>1
  <2>5. ASSUME AllIdle
        PROVE  /\ DOMAIN dict = UNION {NamesIn(i) : i \in DOMAIN taken}
               /\ \A n \in DOMAIN dict :
                     dict[n].signals = {taken[i].signal : i \in Mentioning(n)}
    <3>1. \A n, signal : ~InHand(n, signal)
      BY <2>5, IdleWork DEF AllIdle, InHand, Holds
    <3>2. \A i \in DOMAIN taken : \A n \in Names(taken[i]) :
             n \in DOMAIN dict /\ taken[i].signal \in dict[n].signals
      BY <2>1, <3>1 DEF NoNameLost, Recorded
    <3>3. DOMAIN dict \subseteq UNION {NamesIn(i) : i \in DOMAIN taken}
      BY <2>2, <2>3, <2>4
    <3>4. UNION {NamesIn(i) : i \in DOMAIN taken} \subseteq DOMAIN dict
      BY <2>2, <3>2
    <3>5. \A n \in DOMAIN dict : {taken[i].signal : i \in Mentioning(n)} \subseteq dict[n].signals
      BY <2>3, <3>2
    <3> QED
      BY <2>4, <3>3, <3>4, <3>5
  <2> QED
    BY <2>4, <2>5, Zenon DEF DictionaryIsWhatWasSaid
<1> QED
  BY <1>1, DictInvHolds, PTL

-----------------------------------------------------------------------------
\* The values

(* Who has still to pass on a pair of a name and a value, and which of the *)
(* payloads taken have it.                                                 *)
PairOf(m) == <<m.name, m.value>>
Lists(values, pair) == \E k \in DOMAIN values : PairOf(values[k]) = pair
Owing(pair) == {w \in Workers : Lists(busy[w].values, pair)}
Having(pair) == {i \in DOMAIN taken : pair \in Values(taken[i])}

Counted(pair) == pair[2] # NoText
Distinct(values) == \A j, k \in DOMAIN values : j # k => ~SameValue(values[j], values[k])

OwedOnce == \A w \in Workers : Distinct(busy[w].values)
OnlyTexts == \A pair \in BagToSet(tracked) : Counted(pair)
AllCounted ==
    \A pair : Counted(pair) =>
        Passed(pair) + Cardinality(Owing(pair)) = Cardinality(Having(pair))

ValuesInv == TypeInv /\ OwedOnce /\ OnlyTexts /\ AllCounted

LEMMA OneMore ==
    ASSUME NEW S, NEW T, NEW x, IsFiniteSet(S), x \notin S, T = S \union {x}
    PROVE  Cardinality(S) \in Nat /\ Cardinality(T) = Cardinality(S) + 1
BY FS_AddElement, FS_CardinalityType

LEMMA Counts ==
    ASSUME TypeInv, NEW pair
    PROVE  /\ IsFiniteSet(Owing(pair)) /\ Cardinality(Owing(pair)) \in Nat
           /\ IsFiniteSet(Having(pair)) /\ Cardinality(Having(pair)) \in Nat
           /\ Passed(pair) \in Nat
<1>1. IsFiniteSet(Owing(pair))
  BY WorkersAssumption, FS_Subset DEF Owing
<1>2. IsFiniteSet(Having(pair))
  <2>1. DOMAIN taken = 1 .. Len(taken) /\ Len(taken) \in Nat
    BY DEF TypeInv
  <2>2. IsFiniteSet(DOMAIN taken)
    BY <2>1, FS_Interval
  <2> QED
    BY <2>2, FS_Subset DEF Having
<1>3. Passed(pair) \in Nat
  BY DEF TypeInv, Passed, BagIn, BagToSet, IsABag
<1> QED
  BY <1>1, <1>2, <1>3, FS_CardinalityType

(* Of what is counted, a worker has in hand what its payload says.         *)
LEMMA ResultLists ==
    ASSUME NEW p \in Payloads, p # Unreadable, NEW r, r = ExtractionResult[p]
    PROVE  /\ Distinct(r.values)
           /\ \A pair : Counted(pair) => (Lists(r.values, pair) <=> pair \in Values(p))
<1> DEFINE s == SaidOf(p)
           v == r.values
<1>1. Summarises(s, v, r.entries)
  <2>1. s = SaidBy[p]
    BY Zenon DEF SaidOf
  <2> QED
    BY <2>1, ResultSummarises, Zenon
<1>2. Values(p) = {PairOf(s[k]) : k \in {k \in DOMAIN s : s[k].value # NoText}}
  BY Zenon DEF Values, PairOf, NoText
<1> HIDE DEF s, v
<1>3. /\ DOMAIN s = 1 .. Len(s) /\ DOMAIN v = 1 .. Len(v)
      /\ \A j, k \in 1 .. Len(v) : j # k => ~SameValue(v[j], v[k])
      /\ \A j \in 1 .. Len(v) : \E k \in 1 .. Len(s) : v[j] = s[k]
      /\ \A k \in 1 .. Len(s) : \E j \in 1 .. Len(v) : SameValue(v[j], s[k])
  BY <1>1 DEF Summarises
<1>4. Distinct(v)
  BY <1>3 DEF Distinct
<1>5. ASSUME NEW pair, Counted(pair) PROVE Lists(v, pair) <=> pair \in Values(p)
  <2>1. ASSUME Lists(v, pair) PROVE pair \in Values(p)
    <3>1. PICK j \in 1 .. Len(v) : PairOf(v[j]) = pair
      BY <1>3, <2>1 DEF Lists
    <3>2. PICK k \in 1 .. Len(s) : v[j] = s[k]
      BY <1>3
    <3>3. PairOf(s[k]) = pair /\ s[k].value = pair[2]
      BY <3>1, <3>2 DEF PairOf
    <3> QED
      BY <1>2, <1>3, <1>5, <3>3 DEF Counted
  <2>2. ASSUME pair \in Values(p) PROVE Lists(v, pair)
    <3>1. PICK k \in 1 .. Len(s) : PairOf(s[k]) = pair
      BY <1>2, <1>3, <2>2
    <3>2. PICK j \in 1 .. Len(v) : SameValue(v[j], s[k])
      BY <1>3
    <3>3. PairOf(v[j]) = pair
      BY <3>1, <3>2 DEF PairOf, SameValue
    <3> QED
      BY <1>3, <3>3 DEF Lists
  <2> QED
    BY <2>1, <2>2
<1> QED
  BY <1>4, <1>5, Zenon DEF v

(* When the first value has been passed on, it is not there a second time. *)
LEMMA TailLists ==
    ASSUME NEW vs \in Seq(Mention), vs # << >>, Distinct(vs)
    PROVE  /\ Tail(vs) \in Seq(Mention) /\ Distinct(Tail(vs))
           /\ Lists(vs, PairOf(Head(vs)))
           /\ \A pair : Lists(Tail(vs), pair) <=>
                           Lists(vs, pair) /\ pair # PairOf(Head(vs))
<1>1. /\ DOMAIN vs = 1 .. Len(vs) /\ Len(vs) \in Nat /\ Len(vs) > 0
      /\ vs[1] = Head(vs) /\ 1 \in DOMAIN vs
      /\ Tail(vs) \in Seq(Mention) /\ DOMAIN Tail(vs) = 1 .. Len(vs) - 1
      /\ \A j \in 1 .. Len(vs) - 1 : Tail(vs)[j] = vs[j + 1]
  BY HeadTailProperties
<1> DEFINE t == Tail(vs)
           h == Head(vs)
<1> HIDE DEF t, h
<1>2. Distinct(t)
  <2> SUFFICES ASSUME NEW j \in DOMAIN t, NEW k \in DOMAIN t, j # k
               PROVE  ~SameValue(t[j], t[k])
    BY Zenon DEF Distinct
  <2>1. /\ t[j] = vs[j + 1] /\ t[k] = vs[k + 1]
        /\ j + 1 \in DOMAIN vs /\ k + 1 \in DOMAIN vs /\ j + 1 # k + 1
    BY <1>1 DEF t
  <2>2. ~SameValue(vs[j + 1], vs[k + 1])
    BY <2>1 DEF Distinct
  <2> QED
    BY <2>1, <2>2
<1>3. Lists(vs, PairOf(h))
  BY <1>1, Zenon DEF Lists, h
<1>4. ASSUME NEW pair, Lists(t, pair) PROVE Lists(vs, pair) /\ pair # PairOf(h)
  <2>1. PICK j \in DOMAIN t : PairOf(t[j]) = pair
    BY <1>4, Zenon DEF Lists
  <2>2. j + 1 \in DOMAIN vs /\ t[j] = vs[j + 1] /\ j + 1 # 1
    BY <1>1 DEF t
  <2>3. ~SameValue(vs[j + 1], vs[1])
    BY <1>1, <2>2 DEF Distinct
  <2>4. PairOf(vs[j + 1]) # PairOf(vs[1])
    BY <2>3 DEF PairOf, SameValue
  <2> QED
    BY <1>1, <2>1, <2>2, <2>4, Zenon DEF Lists, h
<1>5. ASSUME NEW pair, Lists(vs, pair), pair # PairOf(h) PROVE Lists(t, pair)
  <2>1. PICK k \in DOMAIN vs : PairOf(vs[k]) = pair
    BY <1>5, Zenon DEF Lists
  <2>2. k # 1
    BY <1>1, <1>5, <2>1 DEF h
  <2>3. k - 1 \in DOMAIN t /\ t[k - 1] = vs[k]
    BY <1>1, <2>2 DEF t
  <2> QED
    BY <2>1, <2>3, Zenon DEF Lists
<1> QED
  BY <1>1, <1>2, <1>3, <1>4, <1>5, Zenon DEF t, h

LEMMA ExtractValues ==
    ASSUME ValuesInv, NEW w \in Workers, Extract(w)
    PROVE  (OwedOnce /\ OnlyTexts /\ AllCounted)'
<1>1. PICK p \in Payloads \union {Unreadable} :
         /\ taken' = Append(taken, p)
         /\ busy' = IF p = Unreadable THEN busy
                    ELSE [busy EXCEPT ![w] = ExtractionResult[p]]
  BY Zenon DEF Extract
<1>2. tracked' = tracked /\ busy[w] = Idle
  BY Zenon DEF Extract
<1>3. TypeInv /\ OwedOnce /\ OnlyTexts /\ AllCounted
  BY DEF ValuesInv
<1> PICK new \in Nat : new = Len(taken) + 1
  BY <1>3 DEF TypeInv
<1>4. /\ DOMAIN taken' = DOMAIN taken \union {new} /\ new \notin DOMAIN taken
      /\ taken'[new] = p /\ \A i \in DOMAIN taken : taken'[i] = taken[i]
  BY <1>1, <1>3, AppendProperties DEF TypeInv
<1>5. \A v \in Workers : v # w => busy'[v] = busy[v]
  BY <1>1, <1>3 DEF TypeInv
<1>6. OnlyTexts' /\ \A pair : Passed(pair)' = Passed(pair)
  BY <1>2, <1>3 DEF OnlyTexts, Passed
<1>7. \A pair : w \notin Owing(pair)
  BY <1>2, IdleWork DEF Owing, Lists
<1>8. \A pair : Having(pair)' = IF pair \in Values(p) THEN Having(pair) \union {new}
                                ELSE Having(pair)
  BY <1>4 DEF Having
<1>9. CASE p = Unreadable
  <2>1. busy' = busy
    BY <1>1, <1>9
  <2>2. Values(p) = {}
    <3>1. SaidOf(p) = << >>
      BY <1>9, Zenon DEF SaidOf
    <3>2. {k \in DOMAIN SaidOf(p) : SaidOf(p)[k].value # ""} = {}
      <4>1. DOMAIN << >> = {}
        OBVIOUS
      <4> QED
        BY <3>1, <4>1, Zenon
    <3> QED
      BY <3>2, Zenon DEF Values
  <2>3. \A pair : Having(pair)' = Having(pair) /\ Owing(pair)' = Owing(pair)
    BY <1>8, <2>1, <2>2 DEF Owing
  <2>4. OwedOnce'
    BY <1>3, <2>1 DEF OwedOnce
  <2> QED
    BY <1>3, <1>6, <2>3, <2>4 DEF AllCounted
<1>10. CASE p # Unreadable
  <2> PICK r : r = ExtractionResult[p]
    OBVIOUS
  <2>1. /\ Distinct(r.values)
        /\ \A pair : Counted(pair) => (Lists(r.values, pair) <=> pair \in Values(p))
    BY <1>10, ResultLists
  <2>2. busy'[w] = r
    BY <1>1, <1>3, <1>10 DEF TypeInv
  <2>3. OwedOnce'
    <3> SUFFICES ASSUME NEW v \in Workers PROVE Distinct(busy'[v].values)
      BY Zenon DEF OwedOnce
    <3> QED
      BY <1>3, <1>5, <2>1, <2>2 DEF OwedOnce
  <2>4. \A pair : Owing(pair)' = IF Lists(r.values, pair) THEN Owing(pair) \union {w}
                                 ELSE Owing(pair)
    BY <1>5, <1>7, <2>2 DEF Owing
  <2>5. AllCounted'
    <3> SUFFICES ASSUME NEW pair, Counted(pair)
                 PROVE  Passed(pair)' + Cardinality(Owing(pair)')
                           = Cardinality(Having(pair)')
      BY Zenon DEF AllCounted
    <3>1. Passed(pair) + Cardinality(Owing(pair)) = Cardinality(Having(pair))
      BY <1>3 DEF AllCounted
    <3>2. CASE pair \in Values(p)
      <4>1. Having(pair)' = Having(pair) \union {new} /\ new \notin Having(pair)
        BY <1>4, <1>8, <3>2 DEF Having
      <4>2. Owing(pair)' = Owing(pair) \union {w} /\ w \notin Owing(pair)
        BY <1>7, <2>1, <2>4, <3>2
      <4>3. IsFiniteSet(Owing(pair)) /\ IsFiniteSet(Having(pair)) /\ Passed(pair) \in Nat
        BY <1>3, Counts
      <4>4. /\ Cardinality(Having(pair)') = Cardinality(Having(pair)) + 1
            /\ Cardinality(Having(pair)) \in Nat
        BY <4>1, <4>3, OneMore
      <4>5. /\ Cardinality(Owing(pair)') = Cardinality(Owing(pair)) + 1
            /\ Cardinality(Owing(pair)) \in Nat
        BY <4>2, <4>3, OneMore
      <4> QED
        BY <1>6, <3>1, <4>3, <4>4, <4>5
    <3>3. CASE pair \notin Values(p)
      <4>1. Having(pair)' = Having(pair)
        BY <1>8, <3>3
      <4>2. Owing(pair)' = Owing(pair)
        BY <2>1, <2>4, <3>3
      <4> QED
        BY <1>6, <3>1, <4>1, <4>2
    <3> QED
      BY <3>2, <3>3
  <2> QED
    BY <1>6, <2>3, <2>5
<1> QED
  BY <1>9, <1>10

LEMMA TrackValues ==
    ASSUME ValuesInv, NEW w \in Workers, Track(w)
    PROVE  (OwedOnce /\ OnlyTexts /\ AllCounted)'
<1> PICK vs \in Seq(Mention) : vs = busy[w].values
  BY DEF ValuesInv, TypeInv, Work
<1> PICK attr : attr = Head(vs)
  OBVIOUS
<1> PICK told : told = PairOf(attr)
  OBVIOUS
<1>1. /\ vs # << >> /\ taken' = taken
      /\ busy' = [busy EXCEPT ![w].values = Tail(@)]
      /\ tracked' = IF attr.value = NoText THEN tracked ELSE tracked (+) SetToBag({told})
  BY Zenon DEF Track, PairOf, NoText
<1>2. TypeInv /\ OwedOnce /\ OnlyTexts /\ AllCounted
  BY DEF ValuesInv
<1>3. /\ Distinct(Tail(vs)) /\ Lists(vs, told)
      /\ \A pair : Lists(Tail(vs), pair) <=> Lists(vs, pair) /\ pair # told
  <2>1. Distinct(vs)
    BY <1>2 DEF OwedOnce
  <2> QED
    BY <1>1, <2>1, TailLists
<1>4. /\ busy'[w].values = Tail(vs)
      /\ \A v \in Workers : v # w => busy'[v] = busy[v]
  BY <1>1, <1>2 DEF TypeInv, Work
<1>5. OwedOnce'
  <2> SUFFICES ASSUME NEW v \in Workers PROVE Distinct(busy'[v].values)
    BY Zenon DEF OwedOnce
  <2> QED
    BY <1>2, <1>3, <1>4 DEF OwedOnce
<1>6. \A pair : Having(pair)' = Having(pair)
  BY <1>1 DEF Having
<1>7. w \in Owing(told) /\ Owing(told)' = Owing(told) \ {w}
  BY <1>3, <1>4 DEF Owing
<1>8. \A pair : pair # told => Owing(pair)' = Owing(pair)
  BY <1>3, <1>4 DEF Owing
<1>9. told[2] = attr.value
  BY DEF PairOf
<1>10. CASE attr.value = NoText
  <2>1. tracked' = tracked /\ ~Counted(told)
    BY <1>1, <1>9, <1>10 DEF Counted
  <2>2. \A pair : Passed(pair)' = Passed(pair)
    BY <2>1 DEF Passed
  <2>3. OnlyTexts'
    BY <1>2, <2>1 DEF OnlyTexts
  <2>4. AllCounted'
    <3> SUFFICES ASSUME NEW pair, Counted(pair)
                 PROVE  Passed(pair)' + Cardinality(Owing(pair)')
                           = Cardinality(Having(pair)')
      BY Zenon DEF AllCounted
    <3>1. pair # told
      BY <2>1
    <3> QED
      BY <1>2, <1>6, <1>8, <2>2, <3>1 DEF AllCounted
  <2> QED
    BY <1>5, <2>3, <2>4
<1>11. CASE attr.value # NoText
  <2>1. tracked' = tracked (+) SetToBag({told}) /\ Counted(told)
    BY <1>1, <1>9, <1>11 DEF Counted
  <2>2. /\ \A pair : pair # told => Passed(pair)' = Passed(pair)
        /\ Passed(told)' = Passed(told) + 1
        /\ DOMAIN tracked' = DOMAIN tracked \union {told}
    BY <1>2, <2>1 DEF Passed, BagIn, BagToSet, (+), SetToBag, TypeInv, IsABag
  <2>3. OnlyTexts'
    BY <1>2, <2>1, <2>2 DEF OnlyTexts, BagToSet
  <2>4. AllCounted'
    <3> SUFFICES ASSUME NEW pair, Counted(pair)
                 PROVE  Passed(pair)' + Cardinality(Owing(pair)')
                           = Cardinality(Having(pair)')
      BY Zenon DEF AllCounted
    <3>1. Passed(pair) + Cardinality(Owing(pair)) = Cardinality(Having(pair))
      BY <1>2 DEF AllCounted
    <3>2. CASE pair # told
      BY <1>6, <1>8, <2>2, <3>1, <3>2
    <3>3. CASE pair = told
      <4>1. IsFiniteSet(Owing(told)) /\ Passed(told) \in Nat
        BY <1>2, Counts
      <4>2. IsFiniteSet(Owing(told)')
        BY <1>7, <4>1, FS_Subset
      <4>3. /\ Cardinality(Owing(told)) = Cardinality(Owing(told)') + 1
            /\ Cardinality(Owing(told)') \in Nat
        <5>1. w \notin Owing(told)' /\ Owing(told) = Owing(told)' \union {w}
          BY <1>7
        <5> QED
          BY <4>2, <5>1, OneMore
      <4> QED
        BY <1>6, <2>2, <3>1, <3>3, <4>1, <4>3
    <3> QED
      BY <3>2, <3>3
  <2> QED
    BY <1>5, <2>3, <2>4
<1> QED
  BY <1>10, <1>11

LEMMA OtherValues ==
    ASSUME ValuesInv, tracked' = tracked, taken' = taken,
           \A v \in Workers : busy'[v].values = busy[v].values
    PROVE  (OwedOnce /\ OnlyTexts /\ AllCounted)'
<1>1. TypeInv /\ OwedOnce /\ OnlyTexts /\ AllCounted
  BY DEF ValuesInv
<1>2. OwedOnce'
  BY <1>1 DEF OwedOnce
<1>3. OnlyTexts'
  BY <1>1 DEF OnlyTexts
<1>4. \A pair : /\ Passed(pair)' = Passed(pair) /\ Owing(pair)' = Owing(pair)
                /\ Having(pair)' = Having(pair)
  BY DEF Passed, Owing, Having
<1> QED
  BY <1>1, <1>2, <1>3, <1>4 DEF AllCounted

LEMMA ValuesInvHolds == Spec => []ValuesInv
<1>1. Init => OwedOnce /\ OnlyTexts /\ AllCounted
  <2> SUFFICES ASSUME Init PROVE OwedOnce /\ OnlyTexts /\ AllCounted
    OBVIOUS
  <2>1. DOMAIN tracked = {} /\ taken = << >> /\ \A w \in Workers : busy[w].values = << >>
    BY IdleWork DEF Init, EmptyBag, SetToBag
  <2>2. OwedOnce /\ OnlyTexts
    BY <2>1 DEF OwedOnce, OnlyTexts, Distinct, BagToSet
  <2>3. \A pair : Passed(pair) = 0 /\ Owing(pair) = {} /\ Having(pair) = {}
    BY <2>1 DEF Passed, BagIn, BagToSet, Owing, Having, Lists
  <2> QED
    BY <2>2, <2>3, FS_EmptySet DEF AllCounted
<1>2. ValuesInv /\ [Next]_vars => (OwedOnce /\ OnlyTexts /\ AllCounted)'
  <2> SUFFICES ASSUME ValuesInv, [Next]_vars
               PROVE  (OwedOnce /\ OnlyTexts /\ AllCounted)'
    OBVIOUS
  <2>1. ASSUME NEW w \in Workers, Extract(w)
        PROVE  (OwedOnce /\ OnlyTexts /\ AllCounted)'
    BY <2>1, ExtractValues
  <2>2. ASSUME NEW w \in Workers, Upsert(w)
        PROVE  (OwedOnce /\ OnlyTexts /\ AllCounted)'
    <3>1. /\ tracked' = tracked /\ taken' = taken
          /\ busy' = [busy EXCEPT ![w].entries = Tail(@)]
      BY <2>2, Zenon DEF Upsert
    <3>2. \A v \in Workers : busy'[v].values = busy[v].values
      BY <3>1 DEF ValuesInv, TypeInv, Work
    <3> QED
      BY <3>1, <3>2, OtherValues
  <2>3. ASSUME NEW w \in Workers, Track(w)
        PROVE  (OwedOnce /\ OnlyTexts /\ AllCounted)'
    BY <2>3, TrackValues
  <2>4. ASSUME NEW w \in Workers, Finish(w)
        PROVE  (OwedOnce /\ OnlyTexts /\ AllCounted)'
    <3>1. /\ tracked' = tracked /\ taken' = taken /\ busy' = [busy EXCEPT ![w] = Idle]
          /\ busy[w].values = << >>
      BY <2>4, Zenon DEF Finish
    <3>2. \A v \in Workers : busy'[v].values = busy[v].values
      BY <3>1, IdleWork DEF ValuesInv, TypeInv
    <3> QED
      BY <3>1, <3>2, OtherValues
  <2>5. CASE UNCHANGED vars
    <3>1. tracked' = tracked /\ taken' = taken /\ busy' = busy
      BY <2>5 DEF vars
    <3> QED
      BY <3>1, OtherValues
  <2> QED
    BY <2>1, <2>2, <2>3, <2>4, <2>5 DEF Next
<1> QED
  BY <1>1, <1>2, TypeCorrect, PTL DEF Spec, ValuesInv

(* Each value of a name reaches the tracker once for every payload that    *)
(* has it, however often and under whatever types it appears there, and    *)
(* no value that renders as nothing does.                                  *)
(* (extractor.go:195-211, worker_pool.go:102-108)                          *)
THEOREM ValuesCorrect == Spec => []ValuesOncePerPayload
<1>1. ValuesInv => ValuesOncePerPayload
  <2> SUFFICES ASSUME ValuesInv,
                      NEW pair \in BagToSet(tracked) \union UNION {ValuesIn(i) : i \in DOMAIN taken}
               PROVE  Passed(pair) + Owed(pair)
                         = Cardinality({i \in DOMAIN taken : pair \in ValuesIn(i)})
    BY Zenon DEF ValuesOncePerPayload
  <2>1. OnlyTexts /\ AllCounted
    BY DEF ValuesInv
  <2>2. \A i : ValuesIn(i) = Values(taken[i])
    BY SaidOfTaken
  <2>3. Counted(pair)
    <3>1. CASE pair \in BagToSet(tracked)
      BY <2>1, <3>1 DEF OnlyTexts
    <3>2. CASE \E i \in DOMAIN taken : pair \in ValuesIn(i)
      <4>1. PICK i \in DOMAIN taken : pair \in Values(taken[i])
        BY <2>2, <3>2
      <4> DEFINE s == SaidOf(taken[i])
      <4>2. \E k \in DOMAIN s : s[k].value # NoText /\ pair = <<s[k].name, s[k].value>>
        BY <4>1, Zenon DEF Values, NoText
      <4> HIDE DEF s
      <4> QED
        BY <4>2 DEF Counted
    <3> QED
      BY <3>1, <3>2
  <2>4. Owed(pair) = Cardinality(Owing(pair))
    BY Zenon DEF Owed, Owing, Lists, PairOf
  <2>5. {i \in DOMAIN taken : pair \in ValuesIn(i)} = Having(pair)
    BY <2>2 DEF Having
  <2> QED
    BY <2>1, <2>3, <2>4, <2>5 DEF AllCounted
<1> QED
  BY <1>1, ValuesInvHolds, PTL

=============================================================================
