------------------------ MODULE WorkspaceRequestsProofs ------------------------
(***************************************************************************)
(* Theorems about WorkspaceRequests, for any number of requests, tasks and *)
(* places in the channel.                                                  *)
(***************************************************************************)
EXTENDS WorkspaceRequests, SequenceTheorems, TLAPS

Stages == {"none", "running", "done", "reported"}

--------------------------------------------------------------------------------
(* Sequences without repetition.                                           *)

\* Append adds its element and no other.
LEMMA AppendMembers ==
    ASSUME NEW S, NEW q \in Seq(S), NEW e \in S
    PROVE  /\ \A x : InSeq(x, Append(q, e)) <=> InSeq(x, q) \/ x = e
           /\ Distinct(q) /\ ~InSeq(e, q) => Distinct(Append(q, e))
<1> DEFINE a == Append(q, e)
<1>1. /\ a \in Seq(S) /\ Len(a) = Len(q) + 1 /\ Len(q) \in Nat
      /\ \A i \in 1..Len(q) : a[i] = q[i]
      /\ a[Len(q) + 1] = e
  BY AppendProperties, LenProperties
<1> HIDE DEF a
<1>2. \A x : InSeq(x, a) <=> InSeq(x, q) \/ x = e
  BY <1>1 DEF InSeq
<1>3. Distinct(q) /\ ~InSeq(e, q) => Distinct(a)
  BY <1>1 DEF InSeq, Distinct
<1> QED BY <1>2, <1>3 DEF a

\* Head and Tail split a sequence without repetition.
LEMMA TailMembers ==
    ASSUME NEW S, NEW q \in Seq(S), q # <<>>, Distinct(q)
    PROVE  /\ Tail(q) \in Seq(S) /\ Head(q) \in S
           /\ Len(Tail(q)) = Len(q) - 1 /\ Len(q) \in Nat \ {0}
           /\ Distinct(Tail(q)) /\ InSeq(Head(q), q)
           /\ \A x : InSeq(x, Tail(q)) <=> InSeq(x, q) /\ x # Head(q)
<1> DEFINE t == Tail(q)
<1>1. /\ t \in Seq(S) /\ Len(t) = Len(q) - 1 /\ Len(q) \in Nat \ {0}
      /\ \A i \in 1..Len(t) : t[i] = q[i + 1]
      /\ Head(q) = q[1] /\ Head(q) \in S
  BY HeadTailProperties, EmptySeq
<1> HIDE DEF t
<1>2. Distinct(t)
  BY <1>1 DEF Distinct
<1>3. InSeq(Head(q), q)
  BY <1>1 DEF InSeq
<1>4. ASSUME NEW x PROVE InSeq(x, t) <=> InSeq(x, q) /\ x # Head(q)
  <2>1. ASSUME InSeq(x, t) PROVE InSeq(x, q) /\ x # Head(q)
    BY <1>1, <2>1 DEF InSeq, Distinct
  <2>2. ASSUME InSeq(x, q), x # Head(q) PROVE InSeq(x, t)
    <3>1. PICK i \in 1..Len(q) : q[i] = x
      BY <2>2 DEF InSeq
    <3>2. i - 1 \in 1..Len(t) /\ t[i - 1] = x
      BY <3>1, <2>2, <1>1
    <3> QED BY <3>2 DEF InSeq
  <2> QED BY <2>1, <2>2
<1> QED BY <1>1, <1>2, <1>3, <1>4 DEF t

\* What is left of a sequence without repetition behind its k-th element.
LEMMA RestMembers ==
    ASSUME NEW S, NEW q \in Seq(S), Distinct(q), NEW k \in 1..Len(q)
    PROVE  LET rest == SubSeq(q, k + 1, Len(q)) IN
           /\ rest \in Seq(S) /\ Distinct(rest)
           /\ \A x : InSeq(x, rest) => InSeq(x, q)
           /\ \A i \in 1..k : ~InSeq(q[i], rest)
<1> DEFINE rest == SubSeq(q, k + 1, Len(q))
<1>1. Len(q) \in Nat /\ \A i \in 1..Len(q) : q[i] \in S
  BY LenProperties, ElementOfSeq
<1>2. /\ rest \in Seq(S) /\ Len(rest) = Len(q) - k
      /\ \A i \in 1..Len(q) - k : rest[i] = q[k + i]
  <2>1. k + 1 \in Int /\ Len(q) \in Int /\ \A i \in (k + 1)..Len(q) : q[i] \in S
    BY <1>1
  <2>2. /\ rest \in Seq(S)
        /\ Len(rest) = IF k + 1 <= Len(q) THEN Len(q) - (k + 1) + 1 ELSE 0
        /\ \A i \in 1..Len(q) - (k + 1) + 1 : rest[i] = q[k + 1 + i - 1]
    BY <2>1, SubSeqProperties
  <2> HIDE DEF rest
  <2> QED BY <2>2, <1>1
<1> HIDE DEF rest
<1>3. \A i \in 1..Len(rest) : k + i \in 1..Len(q) /\ rest[i] = q[k + i]
  BY <1>1, <1>2
<1>4. Distinct(rest)
  BY <1>1, <1>2, <1>3 DEF Distinct
<1>5. \A x : InSeq(x, rest) => InSeq(x, q)
  BY <1>3 DEF InSeq
<1>6. \A i \in 1..k : ~InSeq(q[i], rest)
  BY <1>1, <1>2, <1>3 DEF Distinct, InSeq
<1> QED BY <1>2, <1>4, <1>5, <1>6 DEF rest

\* The elements in front of the k-th.
LEMMA FrontMembers ==
    ASSUME NEW S, NEW q \in Seq(S), NEW k \in 0..Len(q)
    PROVE  \A x : InSeq(x, SubSeq(q, 1, k)) <=> \E i \in 1..k : q[i] = x
<1> DEFINE front == SubSeq(q, 1, k)
<1>1. Len(q) \in Nat /\ \A i \in 1..Len(q) : q[i] \in S
  BY LenProperties, ElementOfSeq
<1>2. /\ Len(front) = IF 1 <= k THEN k - 1 + 1 ELSE 0
      /\ \A i \in 1..k - 1 + 1 : front[i] = q[1 + i - 1]
  BY <1>1, SubSeqProperties
<1> HIDE DEF front
<1>3. \A x : InSeq(x, front) <=> \E i \in 1..k : q[i] = x
  BY <1>1, <1>2 DEF InSeq
<1> QED BY <1>3 DEF front

--------------------------------------------------------------------------------
(* What the drain leaves behind.  It is the end of every Update, so each   *)
(* of the actions of the Update loop is proved from this one lemma.        *)

Started(m, w) ==
    /\ inflight' = m /\ work' = [w EXCEPT ![m] = "running"]
    /\ ~InSeq(m, queue') /\ reply'[m] = reply[m] /\ ~expired[m]
    /\ mode' \notin Modals /\ progress' \notin Flows

\* The drain starts at most one queued request, and only from a free slot; it
\* answers "expired" those it drops; the rest of the queue it leaves alone.
LEMMA Drain ==
    ASSUME TypeOK, NEW q \in Seq(Mutations), Distinct(q),
           NEW h \in Mutations \cup {None}, NEW w \in [Requests -> Stages],
           Settle(q, h, w)
    PROVE  /\ queue' \in Seq(Mutations) /\ Distinct(queue')
           /\ reply' \in [Requests -> Answers]
           /\ \A r \in Requests : InSeq(r, queue') => InSeq(r, q) /\ reply'[r] = reply[r]
           /\ \/ inflight' = h /\ work' = w
              \/ h = None /\ \E m \in Mutations : InSeq(m, q) /\ Started(m, w)
           /\ \A r \in Requests :
                 \/ reply'[r] = reply[r]
                 \/ /\ InSeq(r, q) /\ ~InSeq(r, queue')
                    /\ reply'[r] = Answer("expired", "no") /\ work'[r] = w[r]
<1> DEFINE dropped(n) == [r \in Requests |-> IF InSeq(r, SubSeq(q, 1, n))
                                             THEN Replied(r, Answer("expired", "no"))
                                             ELSE reply[r]]
<1>0. Len(q) \in Nat /\ reply \in [Requests -> Answers]
  BY LenProperties DEF TypeOK
<1>1. ASSUME NEW n \in 0..Len(q)
      PROVE  /\ dropped(n) \in [Requests -> Answers]
             /\ \A r \in Requests :
                   \/ dropped(n)[r] = reply[r]
                   \/ (\E i \in 1..n : q[i] = r) /\ dropped(n)[r] = Answer("expired", "no")
  <2>1. \A x : InSeq(x, SubSeq(q, 1, n)) <=> \E i \in 1..n : q[i] = x
    BY FrontMembers
  <2>2. Answer("expired", "no") \in Answers
    BY DEF Answer, Answers, Reasons, Applied
  <2> QED BY <1>0, <2>1, <2>2 DEF Replied
<1>2. CASE Busy(h, mode', progress') /\ queue' = q /\ inflight' = h /\ work' = w /\ reply' = reply
  BY <1>0, <1>2
<1>3. CASE /\ ~Busy(h, mode', progress') /\ Live(q) = {}
           /\ queue' = <<>> /\ inflight' = None /\ work' = w /\ reply' = dropped(Len(q))
  <2>1. queue' \in Seq(Mutations) /\ Distinct(queue') /\ \A x : ~InSeq(x, queue')
    BY <1>3, EmptySeq DEF Distinct, InSeq
  <2>2. h = None
    BY <1>3 DEF Busy
  <2>3. Len(q) \in 0..Len(q)
    BY <1>0
  <2>4. /\ dropped(Len(q)) \in [Requests -> Answers]
        /\ \A r \in Requests :
              \/ dropped(Len(q))[r] = reply[r]
              \/ InSeq(r, q) /\ dropped(Len(q))[r] = Answer("expired", "no")
    BY <1>1, <2>3 DEF InSeq
  <2> HIDE DEF dropped
  <2> QED BY <1>3, <2>1, <2>2, <2>4
<1>4. CASE /\ ~Busy(h, mode', progress')
           /\ \E k \in Live(q) :
                 /\ \A i \in Live(q) : k <= i
                 /\ queue' = SubSeq(q, k + 1, Len(q)) /\ inflight' = q[k]
                 /\ work' = [w EXCEPT ![q[k]] = "running"] /\ reply' = dropped(k - 1)
  <2>1. PICK k \in Live(q) :
           /\ \A i \in Live(q) : k <= i
           /\ queue' = SubSeq(q, k + 1, Len(q)) /\ inflight' = q[k]
           /\ work' = [w EXCEPT ![q[k]] = "running"] /\ reply' = dropped(k - 1)
    BY <1>4
  <2>2. k \in 1..Len(q) /\ ~expired[q[k]] /\ k - 1 \in 0..Len(q) /\ k \in Nat
    BY <1>0 DEF Live
  <2>3. q[k] \in Mutations
    BY <2>2, ElementOfSeq
  <2>4. /\ queue' \in Seq(Mutations) /\ Distinct(queue')
        /\ \A x : InSeq(x, queue') => InSeq(x, q)
        /\ \A i \in 1..k : ~InSeq(q[i], queue')
    BY <2>1, <2>2, RestMembers
  <2>5. /\ reply' \in [Requests -> Answers]
        /\ \A r \in Requests :
              \/ reply'[r] = reply[r]
              \/ (\E i \in 1..k - 1 : q[i] = r) /\ reply'[r] = Answer("expired", "no")
    BY <1>1, <2>1, <2>2
  <2> HIDE DEF dropped
  <2>6. \A i \in 1..k - 1 : i \in 1..k /\ i \in 1..Len(q) /\ q[i] # q[k]
    BY <2>2, <1>0 DEF Distinct
  <2>7. h = None /\ mode' \notin Modals /\ progress' \notin Flows
    BY <1>4 DEF Busy
  <2>8. q[k] \in Requests /\ InSeq(q[k], q) /\ ~InSeq(q[k], queue')
    BY <2>2, <2>3, <2>4 DEF InSeq, Mutations
  <2>9. Started(q[k], w)
    BY <2>1, <2>2, <2>5, <2>6, <2>7, <2>8 DEF Started
  <2>10. ASSUME NEW r \in Requests, reply'[r] # reply[r]
         PROVE  /\ InSeq(r, q) /\ ~InSeq(r, queue')
                /\ reply'[r] = Answer("expired", "no") /\ work'[r] = w[r]
    <3>1. PICK i \in 1..k - 1 : q[i] = r
      BY <2>5, <2>10
    <3>2. InSeq(r, q) /\ ~InSeq(r, queue') /\ r # q[k]
      BY <3>1, <2>6, <2>4 DEF InSeq
    <3> QED BY <3>2, <2>5, <2>10, <2>1
  <2>11. \A r \in Requests : InSeq(r, queue') => InSeq(r, q) /\ reply'[r] = reply[r]
    BY <2>4, <2>10
  <2> QED BY <2>3, <2>4, <2>5, <2>7, <2>8, <2>9, <2>10, <2>11
<1> QED BY <1>2, <1>3, <1>4 DEF Settle

--------------------------------------------------------------------------------
(* The invariant.  The handlers first.                                     *)

\* A handler may close with any answer that is true.
LEMMA ClosePreserves ==
    ASSUME Consistent, NEW r \in Requests, NEW a \in Answers, Close(r, a),
           True(r, a), Pending(r) => a.applied \notin {"yes", "no"}
    PROVE  Consistent'
<1> USE DEF Consistent
<1>1. /\ handler' = [handler EXCEPT ![r] = "closed"]
      /\ caller' = [caller EXCEPT ![r] = a]
      /\ reply' = [reply EXCEPT ![r] = NoAnswer]
      /\ UNCHANGED <<krang, expired, channel, pump, queue, inflight, work, effect, mode, progress>>
  BY DEF Close, humanVars
<1>2. NoAnswer \in Answers /\ NoAnswer.applied = "unstated"
  BY DEF NoAnswer, Answer, Answers, Reasons, Applied
<1>3. TypeOK'
  BY <1>1, <1>2 DEF TypeOK
<1>4. OnePlace' /\ SlotHeld'
  BY <1>1 DEF OnePlace, SlotHeld, Distinct, InSeq
<1>5. \A s \in Requests : Pending(s)' = Pending(s)
  BY <1>1 DEF Pending, InSeq
<1>6. Traces'
  BY <1>1, <1>5 DEF Traces, TypeOK, Untraced
<1>7. AnswersTrue'
  BY <1>1, <1>2, <1>5 DEF AnswersTrue, True, TypeOK
<1> QED BY <1>3, <1>4, <1>6, <1>7

\* The ways a handler closes answer what is true.
LEMMA HandlerCloses ==
    ASSUME Consistent, NEW r \in Requests,
           \/ RejectBody(r) \/ Refused(r) \/ NotAccepted(r)
           \/ ReceiveReply(r) \/ TimeoutWait(r) \/ Disconnect(r)
    PROVE  Consistent'
<1>1. CASE RejectBody(r) \/ NotAccepted(r)
  <2>1. handler[r] \in {"idle", "offering"}
    BY <1>1 DEF RejectBody, NotAccepted
  <2>2. Untraced(r) /\ ~Pending(r)
    BY <2>1 DEF Consistent, Traces
  <2>3. PICK a \in {Answer("rejected", "no"), Answer("not_accepted", "no")} : Close(r, a)
    BY <1>1 DEF RejectBody, NotAccepted
  <2>4. a \in Answers /\ a.applied = "no"
    BY DEF Answer, Answers, Reasons, Applied
  <2> QED BY <2>2, <2>3, <2>4, ClosePreserves DEF True, Denied, Untraced
<1>2. CASE Refused(r) \/ TimeoutWait(r) \/ Disconnect(r)
  <2>1. PICK a \in {Transport, Answer("timeout", "unknown"), NoAnswer} : Close(r, a)
    BY <1>2 DEF Refused, TimeoutWait, Disconnect
  <2>2. a \in Answers /\ a.applied \notin {"yes", "no"}
    BY DEF Transport, NoAnswer, Answer, Answers, Reasons, Applied
  <2> QED BY <2>1, <2>2, ClosePreserves DEF True
<1>3. CASE ReceiveReply(r)
  <2>1. Close(r, reply[r]) /\ reply[r] \in Answers
    BY <1>3 DEF ReceiveReply, Consistent, TypeOK
  <2>2. True(r, reply[r]) /\ ~Pending(r)
    BY <1>3 DEF ReceiveReply, Consistent, AnswersTrue, Traces, Untraced
  <2> QED BY <2>1, <2>2, ClosePreserves
<1> QED BY <1>1, <1>2, <1>3

\* The other steps of a handler and its clock.
LEMMA HandlerWaits ==
    ASSUME Consistent, NEW r \in Requests, Submit(r) \/ Enqueue(r) \/ DeadlinePasses(r)
    PROVE  Consistent'
<1> USE DEF Consistent
<1>1. CASE Submit(r)
  <2>1. /\ handler[r] = "idle" /\ handler' = [handler EXCEPT ![r] = "offering"]
        /\ UNCHANGED <<krang, caller, expired, channel, pump, queue, inflight, work, reply,
                       effect, mode, progress>>
    BY <1>1 DEF Submit, queueVars, humanVars
  <2>2. TypeOK' /\ SlotHeld'
    BY <2>1 DEF TypeOK, SlotHeld
  <2>3. OnePlace'
    BY <2>1 DEF OnePlace, Distinct, InSeq
  <2>4. \A s \in Requests : Pending(s)' = Pending(s)
    BY <2>1 DEF Pending, InSeq
  <2>5. Traces' /\ AnswersTrue'
    BY <2>1, <2>4 DEF Traces, AnswersTrue, True, Untraced, TypeOK
  <2> QED BY <2>2, <2>3, <2>5
<1>2. CASE Enqueue(r)
  <2>1. /\ handler[r] = "offering" /\ handler' = [handler EXCEPT ![r] = "waiting"]
        /\ Len(channel) < ChanCap /\ channel' = Append(channel, r)
        /\ UNCHANGED <<krang, caller, expired, pump, queue, inflight, work, reply,
                       effect, mode, progress>>
    BY <1>2 DEF Enqueue, queueVars, humanVars
  <2>2. channel \in Seq(Requests)
    BY DEF TypeOK
  <2>3. /\ channel' \in Seq(Requests) /\ Len(channel') <= ChanCap
        /\ \A x : InSeq(x, channel') <=> InSeq(x, channel) \/ x = r
        /\ Distinct(channel) /\ ~InSeq(r, channel) => Distinct(channel')
    BY <2>1, <2>2, AppendMembers, AppendProperties, LenProperties, CapAssumption
  <2>4. Untraced(r) /\ ~Pending(r) /\ caller[r] = NoAnswer
    BY <2>1 DEF Traces
  <2>5. TypeOK' /\ SlotHeld'
    BY <2>1, <2>3 DEF TypeOK, SlotHeld
  <2>6. OnePlace'
    BY <2>1, <2>3, <2>4 DEF OnePlace, Pending, Distinct, InSeq
  <2>7. \A s \in Requests : Pending(s)' <=> Pending(s) \/ s = r
    BY <2>1, <2>3 DEF Pending, InSeq
  <2>8. NoAnswer.applied = "unstated"
    BY DEF NoAnswer, Answer
  <2>9. Traces' /\ AnswersTrue'
    BY <2>1, <2>4, <2>7, <2>8 DEF Traces, AnswersTrue, True, Untraced, TypeOK
  <2> QED BY <2>5, <2>6, <2>9
<1>3. CASE DeadlinePasses(r)
  <2>1. /\ expired' = [expired EXCEPT ![r] = TRUE]
        /\ UNCHANGED <<krang, handler, caller, channel, pump, queue, inflight, work, reply,
                       effect, mode, progress>>
    BY <1>3 DEF DeadlinePasses, queueVars, humanVars
  <2>2. TypeOK' /\ SlotHeld'
    BY <2>1 DEF TypeOK, SlotHeld
  <2>3. OnePlace'
    BY <2>1 DEF OnePlace, Distinct, InSeq
  <2>4. \A s \in Requests : Pending(s)' = Pending(s)
    BY <2>1 DEF Pending, InSeq
  <2>5. Traces' /\ AnswersTrue'
    BY <2>1, <2>4 DEF Traces, AnswersTrue, True, Untraced
  <2> QED BY <2>2, <2>3, <2>5
<1> QED BY <1>1, <1>2, <1>3

--------------------------------------------------------------------------------
(* The Update loop.                                                        *)

\* The receiving goroutine moves one request from the channel to its hand.
LEMMA ReceivePreserves ==
    ASSUME Consistent, Receive
    PROVE  Consistent'
<1> USE DEF Consistent
<1>1. /\ pump = None /\ channel # <<>>
      /\ pump' = Head(channel) /\ channel' = Tail(channel)
      /\ UNCHANGED <<krang, handler, caller, expired, queue, inflight, work, reply,
                     effect, mode, progress>>
  BY DEF Receive, serverVars, queueVars, humanVars
<1>2. channel \in Seq(Requests) /\ Len(channel) \in Nat /\ Len(channel) <= ChanCap /\ Distinct(channel)
  BY LenProperties DEF TypeOK, OnePlace
<1>3. /\ channel' \in Seq(Requests) /\ pump' \in Requests /\ Len(channel') <= ChanCap
      /\ Distinct(channel') /\ InSeq(pump', channel)
      /\ \A x : InSeq(x, channel') <=> InSeq(x, channel) /\ x # pump'
  BY <1>1, <1>2, TailMembers, CapAssumption
<1>4. TypeOK' /\ SlotHeld'
  BY <1>1, <1>3 DEF TypeOK, SlotHeld
<1>5. OnePlace'
  BY <1>1, <1>3, RequestsAssumption DEF OnePlace, Distinct, InSeq
<1>6. \A s \in Requests : Pending(s)' <=> Pending(s)
  BY <1>1, <1>3, RequestsAssumption DEF Pending, InSeq
<1>7. Traces' /\ AnswersTrue'
  BY <1>1, <1>6 DEF Traces, AnswersTrue, True, Untraced
<1> QED BY <1>4, <1>5, <1>7

\* Where a request waits once the handler of the message is done and before
\* the drain has run.
Waits(r, q) == InSeq(r, q) \/ pump' = r \/ InSeq(r, channel)

\* What the handler of a message may do to the goroutine of r: start it if it
\* was waiting and no longer does, or note that it has reported.
Hands(r, q, w) ==
    \/ w[r] = work[r]
    \/ w[r] = "reported" /\ work[r] = "done"
    \/ w[r] = "running" /\ Pending(r) /\ ~Waits(r, q)

\* An Update whose own handler keeps its requests in one place, starts only
\* what waited and keeps the slot with its mutation preserves the invariant.
LEMMA UpdatePreserves ==
    ASSUME Consistent, NEW q \in Seq(Mutations), Distinct(q),
           NEW h \in Mutations \cup {None}, NEW w \in [Requests -> Stages],
           Settle(q, h, w),
           UNCHANGED <<krang, handler, caller, expired, channel, effect>>,
           mode' \in Modals \cup {"Normal"}, progress' \in Flows \cup {"none", "done"},
           pump' \in Requests \cup {None},
           \A r \in Requests : /\ Waits(r, q) => Pending(r) /\ w[r] = "none"
                               /\ InSeq(r, q) => pump' # r /\ ~InSeq(r, channel)
                               /\ pump' = r => ~InSeq(r, channel)
                               /\ Hands(r, q, w),
           \A r \in Mutations : h = r <=> w[r] \in {"running", "done"}
    PROVE  Consistent'
<1> USE DEF Consistent
<1>1. /\ queue' \in Seq(Mutations) /\ Distinct(queue')
      /\ reply' \in [Requests -> Answers]
      /\ \A r \in Requests : InSeq(r, queue') => InSeq(r, q) /\ reply'[r] = reply[r]
      /\ \/ inflight' = h /\ work' = w
         \/ h = None /\ \E m \in Mutations : InSeq(m, q) /\ Started(m, w)
      /\ \A r \in Requests :
            \/ reply'[r] = reply[r]
            \/ /\ InSeq(r, q) /\ ~InSeq(r, queue')
               /\ reply'[r] = Answer("expired", "no") /\ work'[r] = w[r]
  BY Drain
<1>2. Mutations \subseteq Requests /\ None \notin Requests
  BY RequestsAssumption DEF Mutations
<1>3. \A r \in Requests :
         \/ work'[r] = w[r]
         \/ InSeq(r, q) /\ ~InSeq(r, queue') /\ work'[r] = "running" /\ reply'[r] = reply[r]
  BY <1>1, <1>2 DEF Started
<1>4. TypeOK'
  <2>1. inflight' \in Mutations \cup {None} /\ work' \in [Requests -> Stages]
    BY <1>1, <1>2 DEF Started, Stages
  <2> QED BY <1>1, <2>1 DEF TypeOK, Stages
<1>5. OnePlace'
  BY <1>1 DEF OnePlace, Distinct, InSeq
<1>6. ASSUME NEW r \in Requests
      PROVE  Pending(r)' => Waits(r, q) /\ ~(InSeq(r, q) /\ ~InSeq(r, queue'))
  BY <1>1 DEF Pending, Waits, InSeq
<1>7. ASSUME NEW r \in Requests
      PROVE  /\ handler'[r] # "closed" => caller'[r] = NoAnswer
             /\ handler'[r] \in {"idle", "offering"} => Untraced(r)' /\ ~Pending(r)'
             /\ Pending(r)' => Untraced(r)' /\ caller'[r].applied \notin {"yes", "no"}
             /\ effect'[r] = "applied" => work'[r] # "running"
  <2>1. handler'[r] # "closed" => caller'[r] = NoAnswer
    BY DEF Traces
  <2>2. ASSUME handler'[r] \in {"idle", "offering"} PROVE Untraced(r)' /\ ~Pending(r)'
    <3>1. Untraced(r) /\ ~Pending(r)
      BY <2>2 DEF Traces
    <3>2. ~Waits(r, q) /\ w[r] = "none" /\ ~InSeq(r, q)
      BY <3>1 DEF Hands, Untraced, Waits
    <3> QED BY <3>1, <3>2, <1>1, <1>3, <1>6 DEF Untraced
  <2>3. ASSUME Pending(r)' PROVE Untraced(r)' /\ caller'[r].applied \notin {"yes", "no"}
    <3>1. Pending(r) /\ w[r] = "none" /\ ~(InSeq(r, q) /\ ~InSeq(r, queue'))
      BY <2>3, <1>6
    <3> QED BY <3>1, <1>1, <1>3 DEF Untraced, Traces
  <2>4. ASSUME effect'[r] = "applied" PROVE work'[r] # "running"
    <3>1. effect[r] = "applied" /\ work[r] # "running" /\ ~Pending(r)
      BY <2>4 DEF Traces, Untraced
    <3>2. ~InSeq(r, q) /\ (w[r] = work[r] \/ w[r] = "reported")
      BY <3>1 DEF Hands, Waits
    <3> QED BY <3>1, <3>2, <1>3
  <2> QED BY <2>1, <2>2, <2>3, <2>4
<1>8. ASSUME NEW r \in Requests
      PROVE  True(r, caller[r])' /\ True(r, reply[r])'
  <2>1. True(r, caller[r]) /\ True(r, reply[r])
    BY DEF AnswersTrue
  <2>2. CASE Pending(r)
    <3>1. Untraced(r) /\ caller[r].applied \notin {"yes", "no"}
      BY <2>2 DEF Traces
    <3>2. NoAnswer.applied = "unstated" /\ Answer("expired", "no").applied = "no"
      BY DEF NoAnswer, Answer
    <3>3. CASE reply'[r] = reply[r]
      BY <3>1, <3>2, <3>3 DEF True, Untraced
    <3>4. CASE reply'[r] # reply[r]
      <4>1. /\ InSeq(r, q) /\ ~InSeq(r, queue')
            /\ reply'[r] = Answer("expired", "no") /\ work'[r] = w[r]
        BY <1>1, <3>4
      <4>2. w[r] = "none" /\ ~Pending(r)'
        BY <4>1, <1>6 DEF Waits
      <4> QED BY <3>1, <3>2, <4>1, <4>2 DEF True, Denied, Untraced
    <3> QED BY <3>3, <3>4
  <2>3. CASE ~Pending(r)
    <3>1. ~Waits(r, q) /\ ~InSeq(r, q) /\ ~Pending(r)'
      BY <2>3, <1>6 DEF Waits
    <3>2. reply'[r] = reply[r] /\ work'[r] = w[r]
      BY <3>1, <1>1, <1>3
    <3>3. w[r] = work[r] \/ w[r] = "reported"
      BY <2>3 DEF Hands
    <3> QED BY <2>1, <3>1, <3>2, <3>3 DEF True
  <2> QED BY <2>2, <2>3
<1>9. SlotHeld'
  <2>1. CASE inflight' = h /\ work' = w
    BY <2>1 DEF SlotHeld
  <2>2. CASE h = None /\ \E m \in Mutations : InSeq(m, q) /\ Started(m, w)
    BY <2>2, <1>2 DEF SlotHeld, Started
  <2> QED BY <1>1, <2>1, <2>2
<1> QED BY <1>4, <1>5, <1>7, <1>8, <1>9 DEF Traces, AnswersTrue

\* Taking over what has been received keeps the invariant.
LEMMA DeliverPreserves ==
    ASSUME Consistent, Deliver
    PROVE  Consistent'
<1> USE DEF Consistent
<1>1. /\ pump \in Requests /\ pump' = None /\ UNCHANGED <<mode, progress>>
      /\ UNCHANGED <<krang, handler, caller, expired, channel, effect>>
  BY DEF Deliver, TypeOK, humanVars, serverVars
<1>2. /\ queue \in Seq(Mutations) /\ inflight \in Mutations \cup {None}
      /\ work \in [Requests -> Stages] /\ mode \in Modals \cup {"Normal"}
      /\ progress \in Flows \cup {"none", "done"} /\ Distinct(queue)
  BY DEF TypeOK, OnePlace, Stages
<1>3. None \notin Requests /\ Pending(pump) /\ Untraced(pump)
  BY <1>1, RequestsAssumption DEF Pending, Traces
<1>4. \A r \in Requests : Pending(r) => work[r] = "none"
  BY DEF Traces, Untraced
<1>5. CASE pump \in ReadOnly /\ Settle(queue, inflight, [work EXCEPT ![pump] = "running"])
  <2> DEFINE w == [work EXCEPT ![pump] = "running"]
  <2>1. /\ w \in [Requests -> Stages] /\ w[pump] = "running"
        /\ \A r \in Requests : r # pump => w[r] = work[r]
    BY <1>1, <1>2 DEF Stages
  <2> HIDE DEF w
  <2>2. ASSUME NEW r \in Requests
        PROVE  /\ Waits(r, queue) => Pending(r) /\ w[r] = "none"
               /\ InSeq(r, queue) => pump' # r /\ ~InSeq(r, channel)
               /\ pump' = r => ~InSeq(r, channel)
               /\ Hands(r, queue, w)
    <3>1. r = pump => ~Waits(r, queue)
      BY <1>1, <1>3 DEF Waits, OnePlace
    <3>2. Waits(r, queue) => Pending(r)
      BY <1>1, <1>3 DEF Waits, Pending
    <3>3. Waits(r, queue) => w[r] = "none"
      BY <3>1, <3>2, <1>4, <2>1
    <3>4. Hands(r, queue, w)
      BY <3>1, <2>1, <1>3 DEF Hands
    <3> QED BY <3>2, <3>3, <3>4, <1>1, <1>3 DEF OnePlace
  <2>3. \A r \in Mutations : inflight = r <=> w[r] \in {"running", "done"}
    BY <1>5, <2>1 DEF SlotHeld, Mutations
  <2>4. Settle(queue, inflight, w) /\ pump' \in Requests \cup {None}
    BY <1>5, <1>1 DEF w
  <2> QED BY <1>1, <1>2, <2>1, <2>2, <2>3, <2>4, UpdatePreserves
<1>6. CASE pump \notin ReadOnly /\ Settle(Append(queue, pump), inflight, work)
  <2> DEFINE q == Append(queue, pump)
  <2>1. pump \in Mutations /\ ~InSeq(pump, queue)
    BY <1>6, <1>1 DEF Mutations, OnePlace
  <2>2. q \in Seq(Mutations) /\ Distinct(q) /\ \A x : InSeq(x, q) <=> InSeq(x, queue) \/ x = pump
    BY <2>1, <1>2, AppendMembers, AppendProperties
  <2>3. Settle(q, inflight, work)
    BY <1>6
  <2> HIDE DEF q
  <2>4. ASSUME NEW r \in Requests
        PROVE  /\ Waits(r, q) => Pending(r) /\ work[r] = "none"
               /\ InSeq(r, q) => pump' # r /\ ~InSeq(r, channel)
               /\ pump' = r => ~InSeq(r, channel)
               /\ Hands(r, q, work)
    <3>1. Waits(r, q) => Pending(r)
      BY <1>1, <1>3, <2>2 DEF Waits, Pending
    <3> QED BY <3>1, <1>1, <1>3, <1>4, <2>2 DEF OnePlace, Hands
  <2>5. \A r \in Mutations : inflight = r <=> work[r] \in {"running", "done"}
    BY DEF SlotHeld
  <2>6. pump' \in Requests \cup {None}
    BY <1>1
  <2> QED BY <1>1, <1>2, <2>2, <2>3, <2>4, <2>5, <2>6, UpdatePreserves
<1> QED BY <1>5, <1>6 DEF Deliver

\* The report of a goroutine keeps the invariant.
LEMMA HandleDonePreserves ==
    ASSUME Consistent, NEW r \in Requests, HandleDone(r)
    PROVE  Consistent'
<1> USE DEF Consistent
<1> DEFINE w == [work EXCEPT ![r] = "reported"]
           h == IF r \in ReadOnly THEN inflight ELSE None
<1>1. /\ work[r] = "done" /\ Settle(queue, h, w) /\ UNCHANGED <<mode, progress, pump>>
      /\ UNCHANGED <<krang, handler, caller, expired, channel, effect>>
  BY DEF HandleDone, humanVars, serverVars
<1>2. /\ queue \in Seq(Mutations) /\ h \in Mutations \cup {None} /\ Distinct(queue)
      /\ mode \in Modals \cup {"Normal"} /\ progress \in Flows \cup {"none", "done"}
      /\ pump \in Requests \cup {None}
  BY DEF TypeOK, OnePlace
<1>3. /\ w \in [Requests -> Stages] /\ w[r] = "reported"
      /\ \A s \in Requests : s # r => w[s] = work[s]
  BY DEF TypeOK, Stages
<1>4. ASSUME NEW s \in Mutations
      PROVE  h = s <=> w[s] \in {"running", "done"}
  <2>1. inflight = s <=> work[s] \in {"running", "done"}
    BY DEF SlotHeld
  <2>2. s \in Requests /\ s \notin ReadOnly /\ s # None
    BY RequestsAssumption DEF Mutations
  <2>3. CASE r \in ReadOnly
    BY <2>1, <2>2, <2>3, <1>3
  <2>4. CASE r \notin ReadOnly
    <3>1. r \in Mutations /\ inflight = r
      BY <2>4, <1>1 DEF Mutations, SlotHeld
    <3> QED BY <2>1, <2>2, <2>4, <3>1, <1>3
  <2> QED BY <2>3, <2>4
<1> HIDE DEF w, h
<1>5. ASSUME NEW s \in Requests
      PROVE  /\ Waits(s, queue) => Pending(s) /\ w[s] = "none"
             /\ InSeq(s, queue) => pump' # s /\ ~InSeq(s, channel)
             /\ pump' = s => ~InSeq(s, channel)
             /\ Hands(s, queue, w)
  <2>1. Waits(s, queue) => Pending(s)
    BY <1>1 DEF Waits, Pending
  <2>2. Waits(s, queue) => work[s] = "none" /\ s # r
    BY <2>1, <1>1 DEF Traces, Untraced
  <2>3. Hands(s, queue, w)
    BY <1>1, <1>3 DEF Hands
  <2> QED BY <2>1, <2>2, <2>3, <1>1, <1>3 DEF OnePlace
<1> QED BY <1>1, <1>2, <1>3, <1>4, <1>5, UpdatePreserves

\* Every key, and every end of a flow, is an Update of mode and progress.
LEMMA KeyPreserves ==
    ASSUME Consistent, NEW m \in Modals \cup {"Normal"}, NEW p \in Flows \cup {"none", "done"}, Key(m, p)
    PROVE  Consistent'
<1> USE DEF Consistent
<1>1. /\ mode' = m /\ progress' = p /\ Settle(queue, inflight, work) /\ UNCHANGED pump
      /\ UNCHANGED <<krang, handler, caller, expired, channel, effect>>
  BY DEF Key, serverVars
<1>2. /\ queue \in Seq(Mutations) /\ inflight \in Mutations \cup {None} /\ Distinct(queue)
      /\ work \in [Requests -> Stages] /\ pump \in Requests \cup {None}
  BY DEF TypeOK, OnePlace, Stages
<1>3. ASSUME NEW s \in Requests
      PROVE  /\ Waits(s, queue) => Pending(s) /\ work[s] = "none"
             /\ InSeq(s, queue) => pump' # s /\ ~InSeq(s, channel)
             /\ pump' = s => ~InSeq(s, channel)
             /\ Hands(s, queue, work)
  BY <1>1 DEF Waits, Pending, Traces, Untraced, OnePlace, Hands
<1>4. \A r \in Mutations : inflight = r <=> work[r] \in {"running", "done"}
  BY DEF SlotHeld
<1> QED BY <1>1, <1>2, <1>3, <1>4, UpdatePreserves

\* What the keyboard does is one key, with a modal and a flow it leads to.
LEMMA KeyboardIsKeys ==
    ASSUME TypeOK, Keyboard
    PROVE  \E m \in Modals \cup {"Normal"}, p \in Flows \cup {"none", "done"} : Key(m, p)
<1>1. /\ mode \in Modals \cup {"Normal"} /\ progress \in Flows \cup {"none", "done"}
      /\ {"TaskWizard", "ForkDialog", "ConfirmComplete", "WorkspaceProgress"} \subseteq Modals
      /\ {"build", "fork", "complete"} \subseteq Flows
  BY DEF TypeOK, Modals, Flows
<1>2. CASE OpenWizard \/ OpenFork \/ CancelModal \/ \E t \in Tasks : OpenComplete(t)
  BY <1>1, <1>2 DEF OpenWizard, OpenFork, CancelModal, OpenComplete
<1>3. CASE SubmitWizard \/ SubmitNoCopies \/ CloneRemote \/ CloneRemoteDone \/ StartFork
  BY <1>1, <1>3 DEF SubmitWizard, SubmitNoCopies, CloneRemote, CloneRemoteDone, StartFork
<1>4. CASE FlowDone \/ CloseFlow \/ \E t \in Tasks : ConfirmComplete(t)
  BY <1>1, <1>4 DEF FlowDone, CloseFlow, ConfirmComplete
<1> QED BY <1>2, <1>3, <1>4 DEF Keyboard

--------------------------------------------------------------------------------
(* The goroutines and the end of the process.                              *)

\* The first effect of a goroutine keeps the invariant.
LEMMA TouchPreserves ==
    ASSUME Consistent, NEW r \in Requests, Touch(r)
    PROVE  Consistent'
<1> USE DEF Consistent
<1>1. /\ work[r] = "running" /\ effect[r] = "none"
      /\ effect' = [effect EXCEPT ![r] = "touched"]
      /\ UNCHANGED <<krang, handler, caller, expired, channel, pump, queue, inflight, work,
                     reply, mode, progress>>
  BY DEF Touch, serverVars, queueVars, humanVars
<1>2. TypeOK' /\ OnePlace' /\ SlotHeld' /\ \A s \in Requests : Pending(s)' = Pending(s)
  BY <1>1 DEF TypeOK, OnePlace, SlotHeld, Distinct, InSeq, Pending
<1>3. Traces'
  BY <1>1, <1>2 DEF Traces, Untraced, TypeOK
<1>4. AnswersTrue'
  BY <1>1, <1>2 DEF AnswersTrue, True, Denied, TypeOK
<1> QED BY <1>2, <1>3, <1>4

\* The end of a goroutine keeps the invariant.
LEMMA FinishPreserves ==
    ASSUME Consistent, NEW r \in Requests, Finish(r)
    PROVE  Consistent'
<1> USE DEF Consistent
<1>1. PICK a \in IF r \in ReadOnly THEN {Answer("ok", "yes"), Answer("rejected", "no")}
                                   ELSE Outcomes(effect[r]) :
         /\ reply' = [reply EXCEPT ![r] = Replied(r, a)]
         /\ effect' = [effect EXCEPT ![r] =
                         IF r \in Mutations /\ a.applied = "yes" THEN "applied" ELSE @]
  BY DEF Finish
<1>2. /\ work[r] = "running" /\ work' = [work EXCEPT ![r] = "done"]
      /\ UNCHANGED <<krang, handler, caller, expired, channel, pump, queue, inflight,
                     mode, progress>>
  BY DEF Finish, serverVars, humanVars
<1>3. /\ a \in Answers
      /\ r \in Mutations /\ a.applied = "no" => effect[r] \in Denied(a)
  <2>1. effect[r] \in {"none", "touched"}
    BY <1>2 DEF Traces, TypeOK
  <2> QED BY <1>1, <2>1 DEF Outcomes, Denied, Answer, Answers, Reasons, Applied, Mutations
<1>4. ~Pending(r) /\ \A s \in Requests : Pending(s)' = Pending(s)
  BY <1>2 DEF Traces, Untraced, Pending, InSeq
<1>5. TypeOK'
  <2>1. Replied(r, a) \in Answers
    BY <1>3 DEF Replied, TypeOK
  <2>2. reply' \in [Requests -> Answers]
    BY <1>1, <2>1 DEF TypeOK
  <2>3. effect' \in [Requests -> {"none", "touched", "applied"}]
    BY <1>1 DEF TypeOK
  <2>4. work' \in [Requests -> {"none", "running", "done", "reported"}]
    BY <1>2 DEF TypeOK
  <2>5. UNCHANGED <<krang, handler, caller, expired, channel, pump, queue, inflight, mode, progress>>
    BY <1>2
  <2> QED BY <2>2, <2>3, <2>4, <2>5 DEF TypeOK
<1>6. OnePlace' /\ SlotHeld'
  <2>1. OnePlace'
    BY <1>2 DEF OnePlace, Distinct, InSeq
  <2>2. \A s \in Requests : work'[s] = work[s] \/ (work[s] = "running" /\ work'[s] = "done")
    BY <1>2 DEF TypeOK
  <2>3. inflight' = inflight
    BY <1>2
  <2>4. SlotHeld'
    BY <2>2, <2>3 DEF SlotHeld, Mutations
  <2> QED BY <2>1, <2>4
<1>7. ASSUME NEW s \in Requests
      PROVE  /\ handler'[s] # "closed" => caller'[s] = NoAnswer
             /\ handler'[s] \in {"idle", "offering"} => Untraced(s)' /\ ~Pending(s)'
             /\ Pending(s)' => Untraced(s)' /\ caller'[s].applied \notin {"yes", "no"}
             /\ effect'[s] = "applied" => work'[s] # "running"
  <2>1. s = r => work[s] # "none"
    BY <1>2
  <2> QED BY <2>1, <1>1, <1>2, <1>4 DEF Traces, Untraced, TypeOK
<1>8. ASSUME NEW s \in Requests
      PROVE  True(s, caller[s])' /\ True(s, reply[s])'
  <2>1. True(s, caller[s]) /\ True(s, reply[s])
    BY DEF AnswersTrue
  <2>2. CASE s # r
    BY <2>1, <2>2, <1>1, <1>2, <1>4 DEF True, TypeOK
  <2>3. CASE s = r
    <3>1. caller[r].applied # "no" /\ reply[r].applied # "no"
      BY <2>1, <2>3, <1>2 DEF True
    <3>2. reply'[r] = reply[r] \/ reply'[r] = a
      BY <1>1 DEF Replied, TypeOK
    <3>3. /\ work'[r] = "done" /\ caller'[r] = caller[r]
          /\ effect'[r] = IF r \in Mutations /\ a.applied = "yes" THEN "applied" ELSE effect[r]
      BY <1>1, <1>2 DEF TypeOK
    <3> QED BY <2>1, <2>3, <3>1, <3>2, <3>3, <1>3, <1>4 DEF True
  <2> QED BY <2>2, <2>3
<1> QED BY <1>5, <1>6, <1>7, <1>8 DEF Traces, AnswersTrue


\* The end of krang keeps the invariant.
LEMMA EndPreserves ==
    ASSUME Consistent, Quit \/ Exit \/ Crash
    PROVE  Consistent'
<1> USE DEF Consistent
<1>1. CASE Quit
  <2>1. /\ krang' = "stopping"
        /\ UNCHANGED <<handler, caller, expired, channel, pump, queue, inflight, work, reply,
                       effect, mode, progress>>
    BY <1>1 DEF Quit, serverVars, queueVars, humanVars
  <2>2. TypeOK' /\ OnePlace' /\ SlotHeld' /\ \A s \in Requests : Pending(s)' = Pending(s)
    BY <2>1 DEF TypeOK, OnePlace, SlotHeld, Distinct, InSeq, Pending
  <2> QED BY <2>1, <2>2 DEF Traces, AnswersTrue, True, Untraced
<1>2. CASE Exit \/ Crash
  <2>1. /\ krang' \in {"exited", "crashed"} /\ Vanish
        /\ \A r \in Requests :
              \/ handler'[r] = handler[r] /\ caller'[r] = caller[r]
              \/ r \in Open /\ handler'[r] = "closed" /\ caller'[r] = Transport
        /\ handler' \in [Requests -> {"idle", "offering", "waiting", "closed"}]
        /\ caller' \in [Requests -> Answers]
    <3>1. Transport \in Answers
      BY DEF Transport, Answer, Answers, Reasons, Applied
    <3> QED BY <3>1, <1>2 DEF Exit, Crash, TypeOK
  <2>2. /\ expired' = [r \in Requests |-> FALSE]
        /\ channel' = <<>> /\ pump' = None /\ queue' = <<>> /\ inflight' = None
        /\ work' = [r \in Requests |-> "none"] /\ reply' = [r \in Requests |-> NoAnswer]
        /\ mode' = "Normal" /\ progress' = "none" /\ effect' = effect
    BY <2>1 DEF Vanish
  <2>3. NoAnswer \in Answers /\ NoAnswer.applied = "unstated" /\ Transport.applied = "unstated"
    BY DEF NoAnswer, Transport, Answer, Answers, Reasons, Applied
  <2>4. /\ channel' \in Seq(Requests) /\ queue' \in Seq(Mutations)
        /\ Len(channel') = 0 /\ Len(queue') = 0
    BY <2>2, EmptySeq
  <2>5. TypeOK'
    BY <2>1, <2>2, <2>3, <2>4, CapAssumption DEF TypeOK
  <2>6. \A s \in Requests : ~Pending(s)'
    BY <2>2, <2>4, RequestsAssumption DEF Pending, InSeq
  <2>7. OnePlace' /\ SlotHeld'
    BY <2>2, <2>4, RequestsAssumption DEF OnePlace, SlotHeld, Distinct, InSeq, Mutations
  <2>8. Traces'
    BY <2>1, <2>2, <2>6 DEF Traces, Untraced, Open
  <2>9. AnswersTrue'
    BY <2>1, <2>2, <2>3, <2>6 DEF AnswersTrue, True
  <2> QED BY <2>5, <2>7, <2>8, <2>9
<1> QED BY <1>1, <1>2

--------------------------------------------------------------------------------
(* The theorems.                                                           *)

\* The invariant holds at the start.
LEMMA InitEstablishes == Init => Consistent
<1> SUFFICES ASSUME Init PROVE Consistent
  OBVIOUS
<1>1. NoAnswer \in Answers /\ NoAnswer.applied = "unstated"
  BY DEF NoAnswer, Answer, Answers, Reasons, Applied
<1>2. channel \in Seq(Requests) /\ queue \in Seq(Mutations) /\ Len(channel) = 0 /\ Len(queue) = 0
  BY EmptySeq DEF Init
<1>3. \A s \in Requests : ~Pending(s)
  BY <1>2, RequestsAssumption DEF Init, Pending, InSeq
<1>4. TypeOK
  BY <1>1, <1>2, CapAssumption DEF Init, TypeOK
<1>5. OnePlace /\ SlotHeld
  BY <1>2, RequestsAssumption DEF Init, OnePlace, SlotHeld, Distinct, InSeq, Mutations
<1>6. Traces /\ AnswersTrue
  BY <1>1, <1>3 DEF Init, Traces, Untraced, AnswersTrue, True
<1> QED BY <1>4, <1>5, <1>6 DEF Consistent

\* Every step keeps the invariant.
LEMMA StepPreserves == Consistent /\ [Next]_vars => Consistent'
<1> SUFFICES ASSUME Consistent, [Next]_vars PROVE Consistent'
  OBVIOUS
<1>1. ASSUME NEW r \in Requests, Handler(r) PROVE Consistent'
  BY <1>1, HandlerCloses, HandlerWaits DEF Handler
<1>2. ASSUME NEW r \in Requests, HandleDone(r) \/ Touch(r) \/ Finish(r) PROVE Consistent'
  BY <1>2, HandleDonePreserves, TouchPreserves, FinishPreserves
<1>3. CASE Receive \/ Deliver
  BY <1>3, ReceivePreserves, DeliverPreserves
<1>4. CASE Keyboard
  <2>1. \E m \in Modals \cup {"Normal"}, p \in Flows \cup {"none", "done"} : Key(m, p)
    BY <1>4, KeyboardIsKeys DEF Consistent
  <2> QED BY <2>1, KeyPreserves
<1>5. CASE Quit \/ Exit \/ Crash
  BY <1>5, EndPreserves
<1>6. CASE UNCHANGED vars
  <2>1. UNCHANGED <<krang, handler, caller, expired, channel, pump, queue, inflight, work, reply,
                    effect, mode, progress>>
    BY <1>6 DEF vars, serverVars, queueVars, humanVars
  <2> QED BY <2>1 DEF Consistent, TypeOK, OnePlace, Traces, AnswersTrue, SlotHeld, True, Untraced,
                      Pending, Distinct, InSeq
<1> QED BY <1>1, <1>2, <1>3, <1>4, <1>5, <1>6 DEF Next

\* Consistent is an invariant of every behaviour, with or without fairness.
LEMMA StaysConsistent == Spec => []Consistent
<1>1. Init /\ [][Next]_vars => []Consistent
  BY InitEstablishes, StepPreserves, PTL
<1> QED BY <1>1, PTL DEF Spec

\* The type invariant, for any number of requests and any channel capacity.
THEOREM TypeCorrect == Spec => []TypeOK
<1>1. Consistent => TypeOK
  BY DEF Consistent
<1> QED BY <1>1, StaysConsistent, PTL

\* API mutations run one at a time, each holding the in-flight slot until its
\* end is reported, however many requests, reads and modals there are.
THEOREM MutationsRunAlone == Spec => []OneMutation
<1>1. Consistent => OneMutation
  BY DEF Consistent, SlotHeld, OneMutation
<1> QED BY <1>1, StaysConsistent, PTL

\* The "applied" of every answer is true when it is given and stays true.
THEOREM AnswersAreHonest == Spec => []HonestAnswers
<1>1. Consistent => HonestAnswers
  BY DEF Consistent, AnswersTrue, True, HonestAnswers, Mutations
<1> QED BY <1>1, StaysConsistent, PTL

--------------------------------------------------------------------------------
(* WorkspaceRequests implements SerialMutator.                             *)

Runner  == IF inflight # None /\ Working(inflight) THEN inflight ELSE None
Begun   == {r \in Mutations : work[r] # "none"}
Changed == [r \in Mutations |-> effect[r]]
ToldAll == [r \in Mutations |-> Told(r)]

\* A mutation at work is the runner.
LEMMA RunnerWorks ==
    ASSUME Consistent
    PROVE  /\ \A m \in Mutations : work[m] = "running" <=> Runner = m
           /\ Runner \in Mutations \cup {None} /\ None \notin Mutations
<1>1. None \notin Mutations /\ inflight \in Mutations \cup {None}
  BY RequestsAssumption DEF Consistent, TypeOK, Mutations
<1>2. \A m \in Mutations : inflight = m <=> work[m] \in {"running", "done"}
  BY DEF Consistent, SlotHeld
<1> QED BY <1>1, <1>2 DEF Runner, Working

\* An answer is news to its caller, and true.
LEMMA CloseTells ==
    ASSUME Consistent, NEW r \in Requests, NEW a \in Answers, Close(r, a), handler[r] # "closed",
           True(r, a)
    PROVE  [Promise!Next]_(Promise!vars)
<1>1. /\ caller' = [caller EXCEPT ![r] = a]
      /\ UNCHANGED <<krang, inflight, work, effect>>
  BY DEF Close
<1>2. UNCHANGED <<krang \in {"running", "stopping"}, Runner, Begun, Changed>>
  BY <1>1 DEF Runner, Working, Begun, Changed
<1> DEFINE news == IF a.applied = "no" /\ a.reason = "failed" THEN "failed" ELSE a.applied
<1>3. caller[r] = NoAnswer /\ Told(r) = "unknown" /\ caller \in [Requests -> Answers]
  BY DEF Consistent, Traces, TypeOK, Told, NoAnswer, Answer
<1>4. \A m \in Mutations : Told(m)' = IF m = r /\ a.applied \in {"yes", "no"}
                                     THEN news ELSE Told(m)
  BY <1>1, <1>3 DEF Told, Mutations
<1>5. CASE r \in Mutations /\ a.applied \in {"yes", "no"}
  <2>1. ToldAll[r] = "unknown" /\ ToldAll' = [ToldAll EXCEPT ![r] = news]
    BY <1>3, <1>4, <1>5 DEF ToldAll
  <2>2. \/ news = "yes" /\ Changed[r] = "applied"
        \/ news = "failed" /\ Changed[r] # "applied" /\ Runner # r
        \/ news = "no" /\ Changed[r] = "none" /\ Runner # r
    <3>1. a.applied = "yes" => Changed[r] = "applied"
      BY <1>5 DEF True, Changed
    <3>2. a.applied = "no" => Runner # r /\ Changed[r] \in Denied(a)
      BY <1>5, RunnerWorks DEF True, Changed
    <3> QED BY <1>5, <3>1, <3>2 DEF Denied
  <2> HIDE DEF news
  <2>4. Promise!Tell(r)
    BY <1>2, <1>5, <2>1, <2>2
       DEF Promise!Tell, Runner, Begun, Changed, ToldAll
  <2> QED BY <1>5, <2>4 DEF Promise!Next
<1>6. CASE ~(r \in Mutations /\ a.applied \in {"yes", "no"})
  <2>1. ToldAll' = ToldAll
    BY <1>4, <1>6 DEF ToldAll
  <2> QED BY <1>2, <2>1 DEF Promise!vars, Runner, Begun, Changed, ToldAll
<1> QED BY <1>5, <1>6

\* What a handler tells its caller is a step of the abstract specification.
LEMMA HandlerTells ==
    ASSUME Consistent, NEW r \in Requests,
           \/ RejectBody(r) \/ Refused(r) \/ NotAccepted(r)
           \/ ReceiveReply(r) \/ TimeoutWait(r) \/ Disconnect(r)
    PROVE  [Promise!Next]_(Promise!vars)
<1>1. handler[r] # "closed"
  BY DEF RejectBody, Refused, NotAccepted, ReceiveReply, TimeoutWait, Disconnect
<1>2. CASE RejectBody(r) \/ NotAccepted(r)
  <2>1. Untraced(r) /\ ~Pending(r)
    BY <1>2 DEF RejectBody, NotAccepted, Consistent, Traces
  <2>2. PICK a \in {Answer("rejected", "no"), Answer("not_accepted", "no")} : Close(r, a)
    BY <1>2 DEF RejectBody, NotAccepted
  <2>3. a \in Answers /\ a.applied = "no"
    BY DEF Answer, Answers, Reasons, Applied
  <2> QED BY <1>1, <2>1, <2>2, <2>3, CloseTells DEF True, Denied, Untraced
<1>3. CASE Refused(r) \/ TimeoutWait(r) \/ Disconnect(r)
  <2>1. PICK a \in {Transport, Answer("timeout", "unknown"), NoAnswer} : Close(r, a)
    BY <1>3 DEF Refused, TimeoutWait, Disconnect
  <2>2. a \in Answers /\ a.applied \notin {"yes", "no"}
    BY DEF Transport, NoAnswer, Answer, Answers, Reasons, Applied
  <2> QED BY <1>1, <2>1, <2>2, CloseTells DEF True
<1>4. CASE ReceiveReply(r)
  <2>1. Close(r, reply[r]) /\ reply[r] \in Answers /\ True(r, reply[r])
    BY <1>4 DEF ReceiveReply, Consistent, TypeOK, AnswersTrue
  <2> QED BY <1>1, <2>1, CloseTells
<1> QED BY <1>2, <1>3, <1>4

\* An Update begins at most one mutation, and only when none is at work.
LEMMA UpdateBegins ==
    ASSUME Consistent, NEW q \in Seq(Mutations), Distinct(q),
           NEW h \in Mutations \cup {None}, NEW w \in [Requests -> Stages],
           Settle(q, h, w),
           UNCHANGED <<krang, caller, effect>>, krang = "running",
           \A m \in Mutations : /\ InSeq(m, q) => Pending(m)
                                /\ w[m] = work[m] \/ (w[m] = "reported" /\ work[m] = "done"),
           h = inflight \/ (h = None /\ Runner = None),
           \A m \in Mutations : h = m <=> w[m] \in {"running", "done"}
    PROVE  [Promise!Next]_(Promise!vars)
<1>1. UNCHANGED <<krang \in {"running", "stopping"}, Changed, ToldAll>>
  BY DEF Changed, ToldAll, Told
<1>2. Mutations \subseteq Requests /\ None \notin Mutations
  BY RequestsAssumption DEF Mutations
<1>3. TypeOK
  BY DEF Consistent
<1>4. CASE inflight' = h /\ work' = w
  <2>1. Begun' = Begun
    BY <1>4 DEF Begun
  <2>2. \A m \in Mutations : w[m] = "running" <=> work[m] = "running"
    OBVIOUS
  <2>3. Runner' = Runner
    BY <1>2, <1>4, <2>2, RunnerWorks DEF Runner, Working
  <2> QED BY <1>1, <2>1, <2>3 DEF Promise!vars, Runner, Begun, Changed, ToldAll
<1>5. ASSUME h = None, NEW m \in Mutations, InSeq(m, q), Started(m, w)
      PROVE  Promise!Begin(m)
  <2>1. inflight' = m /\ work' = [w EXCEPT ![m] = "running"]
    BY <1>5 DEF Started
  <2>2. Runner = None
    BY <1>5 DEF Runner
  <2>3. Runner' = m
    BY <1>2, <2>1 DEF Runner, Working
  <2>4. m \notin Begun /\ ToldAll[m] \notin {"no", "failed"}
    <3>1. Pending(m)
      BY <1>5
    <3>2. work[m] = "none" /\ caller[m].applied \notin {"yes", "no"}
      BY <3>1, <1>2 DEF Consistent, Traces, Untraced
    <3> QED BY <3>2 DEF Begun, ToldAll, Told
  <2>5. Begun' = Begun \cup {m}
    <3>1. \A n \in Mutations : work'[n] # "none" <=> work[n] # "none" \/ n = m
      BY <1>2, <2>1
    <3> QED BY <3>1 DEF Begun
  <2> QED BY <1>1, <2>2, <2>3, <2>4, <2>5
          DEF Promise!Begin, Runner, Begun, Changed, ToldAll
<1>6. CASE h = None /\ \E m \in Mutations : InSeq(m, q) /\ Started(m, w)
  BY <1>5, <1>6 DEF Promise!Next
<1>7. \/ inflight' = h /\ work' = w
      \/ h = None /\ \E m \in Mutations : InSeq(m, q) /\ Started(m, w)
  BY <1>3, Drain
<1> QED BY <1>4, <1>6, <1>7


\* What the Update loop starts is a step of the abstract specification.
LEMMA LoopBegins ==
    ASSUME Consistent, Deliver \/ (\E r \in Requests : HandleDone(r))
                 \/ (\E m \in Modals \cup {"Normal"}, p \in Flows \cup {"none", "done"} : Key(m, p))
    PROVE  [Promise!Next]_(Promise!vars)
<1> USE DEF Consistent
<1>1. /\ queue \in Seq(Mutations) /\ inflight \in Mutations \cup {None} /\ Distinct(queue)
      /\ work \in [Requests -> Stages] /\ pump \in Requests \cup {None}
  BY DEF TypeOK, OnePlace, Stages
<1>2. \A m \in Mutations : m \in Requests /\ m \notin ReadOnly /\ (InSeq(m, queue) => Pending(m))
  BY DEF Pending, Mutations
<1>3. \A m \in Mutations : inflight = m <=> work[m] \in {"running", "done"}
  BY DEF SlotHeld
<1>4. CASE Deliver
  <2>1. /\ pump \in Requests /\ krang = "running"
        /\ UNCHANGED <<krang, caller, effect>>
    BY <1>4, <1>1 DEF Deliver, serverVars
  <2>2. CASE pump \in ReadOnly /\ Settle(queue, inflight, [work EXCEPT ![pump] = "running"])
    <3> DEFINE w == [work EXCEPT ![pump] = "running"]
    <3>1. w \in [Requests -> Stages] /\ \A m \in Mutations : w[m] = work[m]
      BY <1>1, <1>2, <2>2 DEF Stages
    <3>2. Settle(queue, inflight, w)
      BY <2>2
    <3> HIDE DEF w
    <3> QED BY <1>1, <1>2, <1>3, <2>1, <3>1, <3>2, UpdateBegins
  <2>3. CASE pump \notin ReadOnly /\ Settle(Append(queue, pump), inflight, work)
    <3> DEFINE q == Append(queue, pump)
    <3>1. pump \in Mutations /\ ~InSeq(pump, queue) /\ Pending(pump)
      BY <2>1, <2>3, RequestsAssumption DEF Mutations, OnePlace, Pending
    <3>2. q \in Seq(Mutations) /\ Distinct(q) /\ \A x : InSeq(x, q) <=> InSeq(x, queue) \/ x = pump
      BY <1>1, <3>1, AppendMembers, AppendProperties
    <3>3. Settle(q, inflight, work)
      BY <2>3
    <3> HIDE DEF q
    <3> QED BY <1>1, <1>2, <1>3, <2>1, <3>1, <3>2, <3>3, UpdateBegins
  <2> QED BY <1>4, <2>2, <2>3 DEF Deliver
<1>5. ASSUME NEW r \in Requests, HandleDone(r)
      PROVE  [Promise!Next]_(Promise!vars)
  <2> DEFINE w == [work EXCEPT ![r] = "reported"]
             h == IF r \in ReadOnly THEN inflight ELSE None
  <2>1. /\ work[r] = "done" /\ Settle(queue, h, w) /\ krang = "running"
        /\ UNCHANGED <<krang, caller, effect>>
    BY <1>5 DEF HandleDone, serverVars
  <2>2. /\ w \in [Requests -> Stages] /\ h \in Mutations \cup {None} /\ w[r] = "reported"
        /\ \A s \in Requests : s # r => w[s] = work[s]
    BY <1>1 DEF Stages
  <2>3. r \notin ReadOnly => r \in Mutations /\ inflight = r
    BY <2>1 DEF Mutations, SlotHeld
  <2>4. h = inflight \/ (h = None /\ Runner = None)
    BY <2>1, <2>3 DEF Runner, Working
  <2>5. ASSUME NEW s \in Mutations
        PROVE  h = s <=> w[s] \in {"running", "done"}
    <3>1. inflight = s <=> work[s] \in {"running", "done"}
      BY <1>3
    <3>2. s \in Requests /\ s \notin ReadOnly /\ s # None
      BY RequestsAssumption DEF Mutations
    <3>3. CASE r \in ReadOnly
      BY <3>1, <3>2, <3>3, <2>2
    <3>4. CASE r \notin ReadOnly
      BY <3>1, <3>2, <3>4, <2>2, <2>3
    <3> QED BY <3>3, <3>4
  <2>6. \A m \in Mutations : w[m] = work[m] \/ (w[m] = "reported" /\ work[m] = "done")
    BY <1>2, <2>1, <2>2
  <2> HIDE DEF w, h
  <2> QED BY <1>1, <1>2, <2>1, <2>2, <2>4, <2>5, <2>6, UpdateBegins
<1>6. ASSUME NEW m \in Modals \cup {"Normal"}, NEW p \in Flows \cup {"none", "done"}, Key(m, p)
      PROVE  [Promise!Next]_(Promise!vars)
  <2>1. /\ Settle(queue, inflight, work) /\ krang = "running"
        /\ UNCHANGED <<krang, caller, effect>>
    BY <1>6 DEF Key, serverVars
  <2> QED BY <1>1, <1>2, <1>3, <2>1, UpdateBegins
<1> QED BY <1>4, <1>5, <1>6

\* The goroutine of the runner changes things and ends.
LEMMA WorkEnds ==
    ASSUME Consistent, NEW r \in Requests, Touch(r) \/ Finish(r)
    PROVE  [Promise!Next]_(Promise!vars)
<1> USE DEF Consistent
<1>1. CASE Touch(r)
  <2>1. /\ r \in Mutations /\ work[r] = "running" /\ effect[r] = "none"
        /\ effect' = [effect EXCEPT ![r] = "touched"]
        /\ UNCHANGED <<krang, caller, inflight, work>>
    BY <1>1 DEF Touch, serverVars, queueVars
  <2>2. Runner = r /\ Changed[r] = "none" /\ Changed' = [Changed EXCEPT ![r] = "touched"]
    BY <2>1, RunnerWorks DEF Changed, TypeOK, Mutations
  <2>3. UNCHANGED <<krang \in {"running", "stopping"}, Runner, Begun, ToldAll>>
    BY <2>1 DEF Runner, Working, Begun, ToldAll, Told
  <2>4. Promise!Touch(r)
    BY <2>2, <2>3 DEF Promise!Touch, Runner, Begun, Changed, ToldAll
  <2> QED BY <2>1, <2>4 DEF Promise!Next
<1>2. CASE Finish(r)
  <2>1. /\ work[r] = "running" /\ work' = [work EXCEPT ![r] = "done"]
        /\ UNCHANGED <<krang, caller, inflight>> /\ work \in [Requests -> Stages]
    BY <1>2 DEF Finish, serverVars, TypeOK, Stages
  <2>2. UNCHANGED <<krang \in {"running", "stopping"}, ToldAll>>
    BY <2>1 DEF ToldAll, Told
  <2>3. Begun' = Begun
    <3>1. \A m \in Mutations : work'[m] # "none" <=> work[m] # "none"
      BY <2>1 DEF Mutations
    <3> QED BY <3>1 DEF Begun
  <2>4. PICK a \in IF r \in ReadOnly THEN {Answer("ok", "yes"), Answer("rejected", "no")}
                                     ELSE Outcomes(effect[r]) :
           effect' = [effect EXCEPT ![r] =
                         IF r \in Mutations /\ a.applied = "yes" THEN "applied" ELSE @]
    BY <1>2 DEF Finish
  <2>5. CASE r \in Mutations
    <3>1. Runner = r /\ r \notin ReadOnly
      BY <2>1, <2>5, RunnerWorks DEF Mutations
    <3>2. inflight = r /\ r # None
      BY <3>1, <2>5, RunnerWorks DEF Runner
    <3>3. Runner' = None
      BY <3>2, <2>1, <2>5 DEF Runner, Working
    <3>4. a.applied = "yes" => effect[r] # "none"
      BY <2>4, <3>1 DEF Outcomes, Answer
    <3>5. effect[r] \in {"none", "touched", "applied"} /\ Changed[r] = effect[r]
      BY <2>5 DEF TypeOK, Changed
    <3>6. \/ Changed' = Changed
          \/ Changed[r] = "touched" /\ Changed' = [Changed EXCEPT ![r] = "applied"]
      BY <2>4, <2>5, <3>4, <3>5 DEF Changed, TypeOK, Mutations
    <3>7. Promise!End(r)
      BY <2>2, <2>3, <3>1, <3>3, <3>6 DEF Promise!End, Runner, Begun, Changed, ToldAll
    <3> QED BY <2>5, <3>7 DEF Promise!Next
  <2>6. CASE r \notin Mutations
    <3>1. Changed' = Changed
      BY <2>4, <2>6 DEF Changed, TypeOK
    <3>2. \A m \in Mutations : work'[m] = work[m]
      BY <2>1, <2>6 DEF Mutations
    <3>3. Runner' = Runner
      BY <2>1, <3>2, RunnerWorks DEF Runner, Working
    <3> QED BY <2>2, <2>3, <3>1, <3>3 DEF Promise!vars, Runner, Begun, Changed, ToldAll
  <2> QED BY <2>5, <2>6
<1> QED BY <1>1, <1>2

\* The process ends.
LEMMA EndDies ==
    ASSUME Consistent, Exit \/ Crash
    PROVE  Promise!Die
<1>1. /\ krang \in {"running", "stopping"} /\ krang' \in {"exited", "crashed"} /\ Vanish
      /\ \A r \in Requests : \/ caller'[r] = caller[r]
                             \/ r \in Open /\ caller'[r] = Transport
  BY DEF Exit, Crash, Consistent, TypeOK
<1>2. /\ inflight' = None /\ work' = [r \in Requests |-> "none"] /\ effect' = effect
  BY <1>1 DEF Vanish
<1>3. Runner' = None /\ Begun' = {} /\ Changed' = Changed
  BY <1>2 DEF Runner, Begun, Changed, Mutations
<1>4. \A m \in Mutations : Told(m)' = Told(m)
  BY <1>1 DEF Open, Consistent, Traces, Told, Transport, NoAnswer, Answer, Mutations
<1>5. ToldAll' = ToldAll
  BY <1>4 DEF ToldAll
<1> QED BY <1>1, <1>3, <1>5 DEF Promise!Die, Runner, Begun, Changed, ToldAll

\* It starts as the abstract specification does.
LEMMA InitPromises == Init => Promise!Init
<1> SUFFICES ASSUME Init PROVE Promise!Init
  OBVIOUS
<1>1. Runner = None /\ Begun = {} /\ Changed = [m \in Mutations |-> "none"]
  BY DEF Init, Runner, Begun, Changed, Mutations
<1>2. \A m \in Mutations : Told(m) = "unknown"
  BY DEF Init, Told, NoAnswer, Answer, Mutations
<1>3. ToldAll = [m \in Mutations |-> "unknown"]
  BY <1>2 DEF ToldAll
<1>4. krang \in {"running", "stopping"}
  BY DEF Init
<1> QED BY <1>1, <1>3, <1>4 DEF Promise!Init, Runner, Begun, Changed, ToldAll

\* Every step is a step of the abstract specification or a stutter.
LEMMA StepPromises == Consistent /\ [Next]_vars => [Promise!Next]_(Promise!vars)
<1> SUFFICES ASSUME Consistent, [Next]_vars PROVE [Promise!Next]_(Promise!vars)
  OBVIOUS
<1> DEFINE Idle == UNCHANGED <<krang \in {"running", "stopping"}, caller, inflight, work, effect>>
<1>1. ASSUME Idle PROVE UNCHANGED Promise!vars
  BY <1>1 DEF Promise!vars, Working, Told
<1>2. ASSUME NEW r \in Requests, Handler(r) PROVE [Promise!Next]_(Promise!vars)
  <2>1. Submit(r) \/ Enqueue(r) \/ DeadlinePasses(r) => Idle
    BY DEF Submit, Enqueue, DeadlinePasses, queueVars
  <2> QED BY <1>1, <1>2, <2>1, HandlerTells DEF Handler
<1>3. ASSUME NEW r \in Requests, HandleDone(r) \/ Touch(r) \/ Finish(r)
      PROVE  [Promise!Next]_(Promise!vars)
  BY <1>3, LoopBegins, WorkEnds
<1>4. CASE Receive \/ Quit
  <2>1. Idle
    BY <1>4 DEF Receive, Quit, serverVars, queueVars
  <2> QED BY <1>1, <2>1
<1>5. CASE Deliver
  BY <1>5, LoopBegins
<1>6. CASE Keyboard
  <2>1. \E m \in Modals \cup {"Normal"}, p \in Flows \cup {"none", "done"} : Key(m, p)
    BY <1>6, KeyboardIsKeys DEF Consistent
  <2> QED BY <2>1, LoopBegins
<1>7. CASE Exit \/ Crash
  BY <1>7, EndDies DEF Promise!Next
<1>8. CASE UNCHANGED vars
  <2>1. Idle
    BY <1>8 DEF vars, serverVars, queueVars
  <2> QED BY <1>1, <2>1
<1> QED BY <1>2, <1>3, <1>4, <1>5, <1>6, <1>7, <1>8 DEF Next

\* krang keeps what SerialMutator promises: one change at a time, each at most
\* once, none after a "no", and no answer that is not true.
THEOREM PromiseKept == Spec => KeepsPromise
<1>1. Init /\ [][Next]_vars => []Consistent
  BY InitEstablishes, StepPreserves, PTL
<1>2. Init /\ [][Next]_vars => Promise!Init /\ [][Promise!Next]_(Promise!vars)
  BY <1>1, InitPromises, StepPromises, PTL
<1> QED BY <1>2, PTL DEF Spec, KeepsPromise, Promise!Spec

\* What the promise is worth: whatever keeps it answers honestly. A "no" is followed
\* by no change, for nothing begins after it and nobody at work hears it, and a "yes"
\* by none that takes the change back. This uses the abstract steps alone.
THEOREM PromiseIsHonest == KeepsPromise => []HonestAnswers
<1> DEFINE Honest(changed, told, runner) ==
              \A m \in Mutations : /\ changed[m] \in {"none", "touched", "applied"}
                                   /\ told[m] = "no"     => changed[m] = "none" /\ runner # m
                                   /\ told[m] = "failed" => changed[m] # "applied" /\ runner # m
                                   /\ told[m] = "yes"    => changed[m] = "applied"
           H == Honest(Changed, ToldAll, Runner)
<1>0. None \notin Mutations
  BY RequestsAssumption DEF Mutations
<1>1. Promise!Init => H
  BY DEF Promise!Init, Changed, ToldAll, Runner
<1>2. H /\ [Promise!Next]_(Promise!vars) => H'
  <2> SUFFICES ASSUME H, [Promise!Next]_(Promise!vars) PROVE H'
    OBVIOUS
  <2>0. /\ Changed = [r \in Mutations |-> Changed[r]] /\ Changed' = [r \in Mutations |-> Changed'[r]]
        /\ ToldAll = [r \in Mutations |-> ToldAll[r]] /\ ToldAll' = [r \in Mutations |-> ToldAll'[r]]
    BY DEF Changed, ToldAll
  <2>1. ASSUME NEW m \in Mutations, Promise!Begin(m) PROVE H'
    <3>1. Changed' = Changed /\ ToldAll' = ToldAll /\ Runner' = m /\ ToldAll[m] \notin {"no", "failed"}
      BY <2>1 DEF Promise!Begin, Changed, ToldAll, Runner
    <3> QED BY <3>1
  <2>2. ASSUME NEW m \in Mutations, Promise!Touch(m) PROVE H'
    <3>1. /\ ToldAll' = ToldAll /\ Runner' = Runner /\ Runner = m /\ Changed[m] = "none"
          /\ Changed' = [Changed EXCEPT ![m] = "touched"]
      BY <2>2 DEF Promise!Touch, Changed, ToldAll, Runner
    <3> QED BY <2>0, <3>1
  <2>3. ASSUME NEW m \in Mutations, Promise!End(m) PROVE H'
    <3>1. /\ ToldAll' = ToldAll /\ Runner = m /\ Runner' = None
          /\ \/ Changed' = Changed
             \/ Changed[m] = "touched" /\ Changed' = [Changed EXCEPT ![m] = "applied"]
      BY <2>3 DEF Promise!End, Changed, ToldAll, Runner
    <3> QED BY <1>0, <2>0, <3>1
  <2>4. ASSUME NEW m \in Mutations, Promise!Tell(m) PROVE H'
    <3>1. /\ Changed' = Changed /\ Runner' = Runner
          /\ \/ Changed[m] = "applied" /\ ToldAll' = [ToldAll EXCEPT ![m] = "yes"]
             \/ Changed[m] # "applied" /\ Runner # m /\ ToldAll' = [ToldAll EXCEPT ![m] = "failed"]
             \/ Changed[m] = "none" /\ Runner # m /\ ToldAll' = [ToldAll EXCEPT ![m] = "no"]
      BY <2>4 DEF Promise!Tell, Changed, ToldAll, Runner
    <3> QED BY <2>0, <3>1
  <2>5. CASE Promise!Die
    <3>1. Changed' = Changed /\ ToldAll' = ToldAll /\ Runner' = None
      BY <2>5 DEF Promise!Die, Changed, ToldAll, Runner
    <3> QED BY <1>0, <3>1
  <2>6. CASE UNCHANGED Promise!vars
    <3>1. Changed' = Changed /\ ToldAll' = ToldAll /\ Runner' = Runner
      BY <2>6 DEF Promise!vars, Changed, ToldAll, Runner
    <3> QED BY <3>1
  <2> QED BY <2>1, <2>2, <2>3, <2>4, <2>5, <2>6 DEF Promise!Next
<1>3. H => HonestAnswers
  <2>1. \A m \in Mutations : Changed[m] = effect[m] /\ ToldAll[m] = Told(m)
    BY DEF Changed, ToldAll
  <2>2. \A m \in Mutations :
           /\ caller[m].applied = "yes" => Told(m) = "yes"
           /\ caller[m].applied = "no"  => Told(m) = IF caller[m].reason = "failed" THEN "failed" ELSE "no"
    BY DEF Told
  <2>3. ASSUME H, NEW m \in Mutations
        PROVE  /\ Told(m) = "no"     => effect[m] = "none"
               /\ Told(m) = "failed" => effect[m] \in {"none", "touched"}
               /\ Told(m) = "yes"    => effect[m] = "applied"
    BY <2>1, <2>3
  <2> QED BY <2>2, <2>3 DEF HonestAnswers, Denied
<1> QED BY <1>1, <1>2, <1>3, PTL DEF KeepsPromise, Promise!Spec

--------------------------------------------------------------------------------
(* When a mutation may start, and what may be at work beside it.           *)

\* Only the drain starts a mutation.
LEMMA DrainStarts ==
    ASSUME Consistent, NEW q \in Seq(Mutations), Distinct(q),
           NEW h \in Mutations \cup {None}, NEW w \in [Requests -> Stages],
           Settle(q, h, w), NEW m \in Mutations, Starts(m), w[m] # "running"
    PROVE  mode' \notin Modals /\ progress' \notin Flows /\ ~expired[m]
<1>1. \/ inflight' = h /\ work' = w
      \/ h = None /\ \E n \in Mutations : InSeq(n, q) /\ Started(n, w)
  BY Drain DEF Consistent
<1>2. work'[m] = "running" /\ m \in Requests
  BY DEF Starts, Mutations
<1>3. PICK n \in Mutations : Started(n, w)
  BY <1>1, <1>2
<1>4. n = m
  BY <1>2, <1>3 DEF Started
<1> QED BY <1>3, <1>4 DEF Started

\* A mutation starts with no modal open and no flow running.
LEMMA StartIsFree ==
    ASSUME Consistent, [Next]_vars, NEW m \in Mutations, Starts(m)
    PROVE  mode' \notin Modals /\ progress' \notin Flows /\ ~expired[m]
<1> USE DEF Consistent
<1>1. /\ queue \in Seq(Mutations) /\ inflight \in Mutations \cup {None} /\ Distinct(queue)
      /\ work \in [Requests -> Stages] /\ pump \in Requests \cup {None}
  BY DEF TypeOK, OnePlace, Stages
<1>2. m \in Requests /\ m \notin ReadOnly /\ work[m] = "none" /\ work'[m] = "running"
  BY DEF Mutations, Starts
<1>3. ASSUME NEW r \in Requests, Handler(r) PROVE FALSE
  <2>1. UNCHANGED work
    BY <1>3 DEF Handler, Submit, RejectBody, Refused, Enqueue, DeadlinePasses, NotAccepted,
                ReceiveReply, TimeoutWait, Disconnect, Close, queueVars
  <2> QED BY <2>1, <1>2
<1>4. ASSUME NEW r \in Requests, Touch(r) \/ Finish(r) PROVE FALSE
  <2>1. work' = work \/ work' = [work EXCEPT ![r] = "done"]
    BY <1>4 DEF Touch, Finish, queueVars
  <2> QED BY <2>1, <1>1, <1>2
<1>5. CASE Receive \/ Quit \/ Exit \/ Crash \/ UNCHANGED vars
  <2>1. work' = work \/ work' = [r \in Requests |-> "none"]
    BY <1>5 DEF Receive, Quit, Exit, Crash, Vanish, vars, queueVars
  <2> QED BY <2>1, <1>2
<1>6. CASE Deliver
  <2>1. CASE pump \in ReadOnly /\ Settle(queue, inflight, [work EXCEPT ![pump] = "running"])
    <3> DEFINE w == [work EXCEPT ![pump] = "running"]
    <3>1. w \in [Requests -> Stages] /\ w[m] # "running"
      BY <1>1, <1>2, <2>1 DEF Stages
    <3>2. Settle(queue, inflight, w)
      BY <2>1
    <3> HIDE DEF w
    <3> QED BY <1>1, <3>1, <3>2, DrainStarts
  <2>2. CASE pump \notin ReadOnly /\ Settle(Append(queue, pump), inflight, work)
    <3>1. pump \in Mutations /\ ~InSeq(pump, queue)
      BY <1>1, <1>6, <2>2 DEF Deliver, Mutations, OnePlace
    <3>2. Append(queue, pump) \in Seq(Mutations) /\ Distinct(Append(queue, pump))
      BY <1>1, <3>1, AppendMembers, AppendProperties
    <3> QED BY <1>1, <1>2, <2>2, <3>2, DrainStarts
  <2> QED BY <1>6, <2>1, <2>2 DEF Deliver
<1>7. ASSUME NEW r \in Requests, HandleDone(r)
      PROVE  mode' \notin Modals /\ progress' \notin Flows /\ ~expired[m]
  <2> DEFINE w == [work EXCEPT ![r] = "reported"]
             h == IF r \in ReadOnly THEN inflight ELSE None
  <2>1. Settle(queue, h, w)
    BY <1>7 DEF HandleDone
  <2>2. w \in [Requests -> Stages] /\ h \in Mutations \cup {None} /\ w[m] # "running"
    BY <1>1, <1>2 DEF Stages
  <2> HIDE DEF w, h
  <2> QED BY <1>1, <2>1, <2>2, DrainStarts
<1>8. CASE Keyboard
  <2>1. Settle(queue, inflight, work)
    BY <1>8, KeyboardIsKeys DEF Key
  <2> QED BY <1>1, <1>2, <2>1, DrainStarts
<1> QED BY <1>3, <1>4, <1>5, <1>6, <1>7, <1>8 DEF Next

\* A mutation starts in no step that leaves a modal open, a flow at work or
\* another mutation running, and never after its deadline.
THEOREM StartsWhenFree == Spec => StartsOnlyWhenFree
<1>1. ASSUME Consistent, Consistent', [Next]_vars, NEW m \in Mutations, Starts(m)
      PROVE  /\ mode' = "Normal" /\ progress' \notin Flows
             /\ \A s \in Requests \ {m} : ~Working(s)'
             /\ ~expired[m]
  <2>1. mode' \notin Modals /\ progress' \notin Flows /\ ~expired[m]
    BY <1>1, StartIsFree
  <2>2. mode' = "Normal"
    BY <1>1, <2>1 DEF Consistent, TypeOK
  <2>3. \A s \in Requests \ {m} : ~Working(s)'
    BY <1>1 DEF Consistent, SlotHeld, Working, Starts
  <2> QED BY <2>1, <2>2, <2>3
<1>2. Consistent /\ Consistent' /\ [Next]_vars =>
        [\A r \in Mutations : Starts(r) =>
            /\ mode' = "Normal" /\ progress' \notin Flows
            /\ \A s \in Requests \ {r} : ~Working(s)'
            /\ ~expired[r]]_vars
  BY <1>1
<1>3. Spec => []Consistent /\ [][Next]_vars
  BY StaysConsistent, PTL DEF Spec
<1> QED BY <1>2, <1>3, PTL DEF StartsOnlyWhenFree

\* The guards on n, f and e and the busy modals keep the slot empty from the
\* moment a wizard or a fork dialog opens until its flow is done.
FlowsGuarded ==
    /\ progress # "none" => mode = "WorkspaceProgress"
    /\ \/ mode \in {"TaskWizard", "ForkDialog"}
       \/ mode = "WorkspaceProgress" /\ progress \in {"none", "build", "fork"}
       => inflight = None

\* Every step keeps the flows guarded.
LEMMA GuardStep == Consistent /\ Consistent' /\ FlowsGuarded /\ [Next]_vars => FlowsGuarded'
<1> SUFFICES ASSUME Consistent, Consistent', FlowsGuarded, [Next]_vars PROVE FlowsGuarded'
  OBVIOUS
<1>0. mode \in Modals \cup {"Normal"} /\ progress \in Flows \cup {"none", "done"}
  BY DEF Consistent, TypeOK
<1>1. CASE UNCHANGED <<mode, progress, inflight>>
  BY <1>1 DEF FlowsGuarded
<1>2. ASSUME NEW q, NEW h, NEW w, Settle(q, h, w), h = inflight \/ h = None
      PROVE  mode' \in Modals /\ inflight = None => inflight' = None
  BY <1>2 DEF Settle, Busy
<1>3. CASE Deliver \/ \E r \in Requests : HandleDone(r)
  <2>1. UNCHANGED <<mode, progress>>
    BY <1>3 DEF Deliver, HandleDone, humanVars
  <2>2. \E q, w, h : Settle(q, h, w) /\ (h = inflight \/ h = None)
    BY <1>3 DEF Deliver, HandleDone
  <2>3. mode \in Modals /\ inflight = None => inflight' = None
    BY <1>2, <2>1, <2>2
  <2> QED BY <2>1, <2>3 DEF FlowsGuarded, Modals
<1>4. ASSUME NEW m, NEW p, Key(m, p)
      PROVE  mode' = m /\ progress' = p /\ (m \in Modals /\ inflight = None => inflight' = None)
  BY <1>2, <1>4 DEF Key
<1>5. CASE Keyboard
  <2>1. CASE OpenWizard \/ OpenFork \/ CancelModal \/ \E t \in Tasks : OpenComplete(t)
    BY <2>1, <1>0, <1>4 DEF OpenWizard, OpenFork, CancelModal, OpenComplete, FlowsGuarded, Modals, Flows
  <2>2. CASE SubmitWizard \/ SubmitNoCopies \/ CloneRemote \/ CloneRemoteDone \/ StartFork
    BY <2>2, <1>0, <1>4 DEF SubmitWizard, SubmitNoCopies, CloneRemote, CloneRemoteDone,
                            StartFork, FlowsGuarded, Modals, Flows
  <2>3. CASE FlowDone \/ CloseFlow \/ \E t \in Tasks : ConfirmComplete(t)
    BY <2>3, <1>0, <1>4 DEF FlowDone, CloseFlow, ConfirmComplete, FlowsGuarded, Modals, Flows
  <2> QED BY <1>5, <2>1, <2>2, <2>3 DEF Keyboard
<1>6. CASE Exit \/ Crash
  BY <1>6 DEF Exit, Crash, Vanish, FlowsGuarded
<1>7. CASE (\E r \in Requests : Handler(r) \/ Touch(r) \/ Finish(r)) \/ Receive \/ Quit
           \/ UNCHANGED vars
  <2>1. UNCHANGED <<mode, progress, inflight>>
    BY <1>7 DEF Handler, Submit, RejectBody, Refused, Enqueue, DeadlinePasses, NotAccepted,
                ReceiveReply, TimeoutWait, Disconnect, Close, Touch, Finish, Receive, Quit,
                vars, queueVars, humanVars
  <2> QED BY <1>1, <2>1
<1> QED BY <1>3, <1>5, <1>6, <1>7 DEF Next

\* Creating a task, adding repos to one and forking one never overlap an API
\* mutation; what the guards leave open is a completion alone.
THEOREM OverlapIsCompletion == Spec => []OnlyCompletionOverlaps
<1>1. Init => FlowsGuarded
  BY DEF Init, FlowsGuarded
<1>2. Init /\ [][Next]_vars => []Consistent
  BY InitEstablishes, StepPreserves, PTL
<1>3. Init /\ [][Next]_vars => []FlowsGuarded
  BY <1>1, <1>2, GuardStep, PTL
<1>4. Consistent /\ FlowsGuarded => OnlyCompletionOverlaps
  <2> SUFFICES ASSUME Consistent, FlowsGuarded, FlowWorking, NEW r \in Requests, Working(r)
               PROVE  progress = "complete"
    BY DEF OnlyCompletionOverlaps
  <2>1. inflight = r /\ r # None
    BY RequestsAssumption DEF Working, Consistent, SlotHeld, Mutations
  <2> QED BY <2>1 DEF FlowWorking, FlowsGuarded, Flows
<1> QED BY <1>2, <1>3, <1>4, PTL DEF Spec

--------------------------------------------------------------------------------
(* Reads, retries and the order of the queue.                              *)

\* A listing is begun by the Update that takes it over, whatever modal is open,
\* whatever flow or mutation is at work and however many wait.
THEOREM ReadsStart == Spec => ReadsNeverWait
<1>1. ASSUME Consistent, Next, NEW r \in ReadOnly, pump = r, pump' = None, krang' = "running"
      PROVE  Starts(r)
  <2>1. r \in Requests /\ r # None /\ r \notin Mutations /\ work[r] = "none"
    BY <1>1, RequestsAssumption DEF Consistent, Traces, Untraced, Pending, Mutations
  <2>2. Deliver
    BY <1>1, <2>1 DEF Next, Handler, Submit, RejectBody, Refused, Enqueue, DeadlinePasses, NotAccepted,
       ReceiveReply, TimeoutWait, Disconnect, Close, HandleDone, Touch, Finish, Receive, Keyboard, OpenWizard,
       OpenFork, OpenComplete, CancelModal, SubmitWizard, SubmitNoCopies, CloneRemote, CloneRemoteDone, StartFork,
       ConfirmComplete, FlowDone, CloseFlow, Key, Quit, Exit, Crash, Vanish
  <2> DEFINE w == [work EXCEPT ![r] = "running"]
  <2>3. Settle(queue, inflight, w)
    BY <1>1, <2>2 DEF Deliver
  <2>4. /\ w \in [Requests -> Stages] /\ w[r] = "running" /\ TypeOK
        /\ queue \in Seq(Mutations) /\ Distinct(queue) /\ inflight \in Mutations \cup {None}
    BY <1>1, <2>1 DEF Consistent, TypeOK, OnePlace, Stages
  <2> HIDE DEF w
  <2>5. work' = w \/ \E m \in Mutations : work' = [w EXCEPT ![m] = "running"]
    BY <2>3, <2>4, Drain DEF Started
  <2>6. work'[r] = "running"
    BY <2>1, <2>4, <2>5
  <2> QED BY <2>1, <2>6 DEF Starts
<1>2. Consistent /\ [Next]_vars =>
      [\A r \in ReadOnly : pump = r /\ pump' = None /\ krang' = "running" => Starts(r)]_vars
  BY <1>1
<1>3. Init /\ [][Next]_vars => []Consistent
  BY InitEstablishes, StepPreserves, PTL
<1> QED BY <1>2, <1>3, PTL DEF Spec, ReadsNeverWait

\* What a reason says of a change: who was refused, not accepted or dropped has
\* been told "no", and who found the connection closed, short of a crash, was
\* never listened to.
Spurned(r) == handler[r] = "closed" /\ work[r] = "none" /\ effect[r] = "none" /\ ~Pending(r)
Candid(a)  == a.reason \in {"refused", "not_accepted", "expired"} => a.applied = "no"
Reasoned   == \A r \in Requests :
                 /\ Candid(caller[r]) /\ Candid(reply[r]) /\ reply[r].reason # "transport"
                 /\ caller[r].reason = "transport" /\ krang # "crashed" => Spurned(r)

\* Nothing is done any more for a request whose handler has gone before it was
\* taken over.
LEMMA StaysSpurned ==
    ASSUME Consistent, Next, NEW r \in Requests, Spurned(r)
    PROVE  Spurned(r)'
<1>0. /\ TypeOK /\ OnePlace /\ queue \in Seq(Mutations) /\ Distinct(queue) /\ work \in [Requests -> Stages]
      /\ inflight \in Mutations \cup {None} /\ pump # r /\ ~InSeq(r, queue) /\ ~InSeq(r, channel)
      /\ None \notin Requests /\ Mutations \subseteq Requests
  BY RequestsAssumption DEF Consistent, TypeOK, Stages, OnePlace, Spurned, Pending, Mutations
<1>1. ASSUME NEW q \in Seq(Mutations), Distinct(q), NEW h \in Mutations \cup {None}, NEW w \in [Requests -> Stages],
             Settle(q, h, w), ~InSeq(r, q), w[r] = "none", UNCHANGED <<handler, channel, effect>>, pump' \in {None, pump}
      PROVE  Spurned(r)'
  <2>1. /\ ~InSeq(r, queue')
        /\ work' = w \/ \E m \in Mutations : InSeq(m, q) /\ work' = [w EXCEPT ![m] = "running"]
    BY <1>0, <1>1, Drain DEF Started
  <2>2. work'[r] = "none"
    BY <1>1, <2>1
  <2> QED BY <1>0, <1>1, <2>1, <2>2 DEF Spurned, Pending
<1>2. ASSUME NEW s \in Requests, Handler(s) PROVE Spurned(r)'
  <2>1. CASE Enqueue(s)
    <3>1. s # r /\ channel' = Append(channel, s) /\ channel \in Seq(Requests)
      BY <1>0, <2>1 DEF Enqueue, Spurned, TypeOK
    <3>2. ~InSeq(r, channel')
      BY <1>0, <3>1, AppendMembers
    <3>3. handler'[r] = "closed" /\ UNCHANGED <<pump, queue, work, effect>>
      BY <1>0, <2>1, <3>1 DEF Enqueue, Spurned, TypeOK, queueVars
    <3> QED BY <1>0, <3>2, <3>3 DEF Spurned, Pending
  <2>2. CASE ~Enqueue(s)
    <3>1. UNCHANGED <<channel, pump, queue, work, effect>>
      BY <1>2, <2>2 DEF Handler, Submit, RejectBody, Refused, DeadlinePasses, NotAccepted, ReceiveReply,
                        TimeoutWait, Disconnect, Close, queueVars
    <3>2. handler'[r] = "closed"
      BY <1>0, <1>2, <2>2 DEF Handler, Submit, RejectBody, Refused, DeadlinePasses, NotAccepted, ReceiveReply,
                        TimeoutWait, Disconnect, Close, Spurned, TypeOK
    <3> QED BY <3>1, <3>2 DEF Spurned, Pending
  <2> QED BY <2>1, <2>2
<1>3. CASE Receive
  <2>1. /\ pump' = Head(channel) /\ channel' = Tail(channel) /\ channel # <<>> /\ channel \in Seq(Requests)
        /\ UNCHANGED <<handler, queue, work, effect>>
    BY <1>0, <1>3 DEF Receive, TypeOK, serverVars, queueVars
  <2>2. InSeq(Head(channel), channel) /\ \A x : InSeq(x, channel') => InSeq(x, channel)
    BY <1>0, <2>1, TailMembers DEF OnePlace
  <2> QED BY <1>0, <2>1, <2>2 DEF Spurned, Pending
<1>4. CASE Deliver
  <2>1. pump \in Requests /\ UNCHANGED <<handler, channel, effect>> /\ pump' = None
    BY <1>0, <1>4 DEF Deliver, TypeOK, serverVars
  <2>2. CASE pump \in ReadOnly /\ Settle(queue, inflight, [work EXCEPT ![pump] = "running"])
    <3> DEFINE w == [work EXCEPT ![pump] = "running"]
    <3>1. w \in [Requests -> Stages] /\ w[r] = "none" /\ Settle(queue, inflight, w)
      BY <1>0, <2>1, <2>2 DEF Stages, Spurned
    <3> HIDE DEF w
    <3> QED BY <1>0, <1>1, <2>1, <3>1
  <2>3. CASE pump \notin ReadOnly /\ Settle(Append(queue, pump), inflight, work)
    <3>1. pump \in Mutations /\ ~InSeq(pump, queue)
      BY <2>1, <2>3, <1>0 DEF Mutations, OnePlace
    <3>2. /\ Append(queue, pump) \in Seq(Mutations) /\ Distinct(Append(queue, pump))
          /\ ~InSeq(r, Append(queue, pump))
      BY <1>0, <3>1, AppendMembers, AppendProperties
    <3> QED BY <1>0, <1>1, <2>1, <2>3, <3>2 DEF Spurned
  <2> QED BY <1>4, <2>2, <2>3 DEF Deliver
<1>5. ASSUME NEW s \in Requests, HandleDone(s) PROVE Spurned(r)'
  <2> DEFINE w == [work EXCEPT ![s] = "reported"]
             h == IF s \in ReadOnly THEN inflight ELSE None
  <2>1. /\ Settle(queue, h, w) /\ UNCHANGED <<handler, channel, effect>> /\ pump' = pump
        /\ w \in [Requests -> Stages] /\ h \in Mutations \cup {None} /\ w[r] = "none"
    BY <1>0, <1>5 DEF HandleDone, serverVars, Stages, Spurned
  <2> HIDE DEF w, h
  <2> QED BY <1>0, <1>1, <2>1
<1>6. CASE Keyboard
  <2>1. Settle(queue, inflight, work) /\ UNCHANGED <<handler, channel, effect>> /\ pump' = pump
    BY <1>0, <1>6, KeyboardIsKeys DEF Key, serverVars
  <2> QED BY <1>0, <1>1, <2>1 DEF Spurned
<1>7. ASSUME NEW s \in Requests, Touch(s) \/ Finish(s) PROVE Spurned(r)'
  <2>1. s # r /\ UNCHANGED <<handler, channel, pump, queue>>
    BY <1>7 DEF Touch, Finish, Spurned, serverVars, queueVars
  <2>2. work'[r] = "none" /\ effect'[r] = "none"
    BY <1>0, <1>7, <2>1 DEF Touch, Finish, Spurned, TypeOK, queueVars
  <2> QED BY <2>1, <2>2 DEF Spurned, Pending
<1>8. CASE Quit
  BY <1>8 DEF Quit, serverVars, queueVars, Spurned, Pending
<1>9. CASE Exit \/ Crash
  <2>1. /\ channel' = <<>> /\ pump' = None /\ queue' = <<>> /\ work' = [s \in Requests |-> "none"]
        /\ effect' = effect /\ handler'[r] = "closed"
    BY <1>9 DEF Exit, Crash, Vanish, Spurned
  <2> QED BY <1>0, <2>1, EmptySeq DEF Spurned, Pending, InSeq
<1> QED BY <1>2, <1>3, <1>4, <1>5, <1>6, <1>7, <1>8, <1>9 DEF Next

\* Answers keep being candid: a caller hears what its handler says, and the
\* handler what the Update loop or the goroutine has put in its reply channel.
LEMMA StaysCandid ==
    ASSUME Consistent, Reasoned, Next, NEW r \in Requests
    PROVE  /\ Candid(caller'[r]) /\ Candid(reply'[r]) /\ reply'[r].reason # "transport"
           /\ \/ caller'[r] = caller[r]
              \/ caller'[r].reason # "transport"
              \/ krang' = "crashed"
              \/ Refused(r)
<1> DEFINE Fine(a)  == Candid(a) /\ a.reason # "transport"
           Heard(a) == Candid(a) /\ (a = caller[r] \/ a.reason # "transport" \/ krang' = "crashed" \/ Refused(r))
<1>0. /\ caller \in [Requests -> Answers] /\ reply \in [Requests -> Answers] /\ Fine(reply[r]) /\ Heard(caller[r])
  BY DEF Consistent, TypeOK, Reasoned
<1>1. /\ Fine(NoAnswer) /\ Fine(Answer("rejected", "no")) /\ Fine(Answer("not_accepted", "no"))
      /\ Fine(Answer("timeout", "unknown")) /\ Fine(Answer("expired", "no")) /\ Fine(Answer("ok", "yes"))
      /\ Fine(Answer("refused", "no")) /\ Fine(Answer("failed", "yes")) /\ Fine(Answer("failed", "unknown"))
      /\ Fine(Answer("failed", "no"))
      /\ Candid(Transport) /\ \A a : Fine(a) => Heard(a)
  BY DEF Answer, NoAnswer, Transport, Candid
<1> HIDE DEF Fine, Heard
<1>2. ASSUME Heard(caller'[r]), Fine(reply'[r])
      PROVE  /\ Candid(caller'[r]) /\ Candid(reply'[r]) /\ reply'[r].reason # "transport"
             /\ \/ caller'[r] = caller[r]
                \/ caller'[r].reason # "transport"
                \/ krang' = "crashed"
                \/ Refused(r)
  BY <1>2 DEF Heard, Fine
<1>3. ASSUME NEW s \in Requests, NEW a, Close(s, a), Heard(a) \/ s # r PROVE Heard(caller'[r]) /\ Fine(reply'[r])
  <2>1. caller' = [caller EXCEPT ![s] = a] /\ reply' = [reply EXCEPT ![s] = NoAnswer]
    BY <1>3 DEF Close
  <2> QED BY <1>0, <1>1, <1>3, <2>1
<1>4. ASSUME NEW q, NEW h, NEW w, Settle(q, h, w) PROVE Fine(reply'[r])
  <2>1. reply'[r] \in {reply[r], Replied(r, Answer("expired", "no"))}
    BY <1>4, <1>0 DEF Settle
  <2> QED BY <1>0, <1>1, <2>1 DEF Replied
<1>5. ASSUME NEW s \in Requests, Handler(s) PROVE Heard(caller'[r]) /\ Fine(reply'[r])
  <2>1. CASE Submit(s) \/ Enqueue(s) \/ DeadlinePasses(s)
    BY <1>0, <2>1 DEF Submit, Enqueue, DeadlinePasses, queueVars
  <2>2. CASE RejectBody(s) \/ NotAccepted(s) \/ TimeoutWait(s) \/ Disconnect(s)
    BY <1>1, <1>3, <2>2 DEF RejectBody, NotAccepted, TimeoutWait, Disconnect
  <2>3. CASE ReceiveReply(s)
    BY <1>0, <1>1, <1>3, <2>3 DEF ReceiveReply
  <2>4. CASE Refused(s)
    <3>1. s = r => Heard(Transport)
      BY <1>1, <2>4 DEF Heard
    <3> QED BY <1>3, <2>4, <3>1 DEF Refused
  <2> QED BY <1>5, <2>1, <2>2, <2>3, <2>4 DEF Handler
<1>6. CASE Deliver \/ (\E s \in Requests : HandleDone(s)) \/ Keyboard
  <2>1. caller' = caller
    BY <1>6, KeyboardIsKeys DEF Deliver, HandleDone, Key, serverVars, Consistent
  <2>2. \E q, h, w : Settle(q, h, w)
    BY <1>6, KeyboardIsKeys DEF Deliver, HandleDone, Key, Consistent
  <2> QED BY <1>0, <1>2, <1>4, <2>1, <2>2
<1>7. ASSUME NEW s \in Requests, Touch(s) PROVE Heard(caller'[r]) /\ Fine(reply'[r])
  BY <1>0, <1>7 DEF Touch, serverVars, queueVars
<1>8. ASSUME NEW s \in Requests, Finish(s) PROVE Heard(caller'[r]) /\ Fine(reply'[r])
  <2>1. caller' = caller
    BY <1>8 DEF Finish, serverVars
  <2>2. \E a \in {Answer("ok", "yes"), Answer("rejected", "no"), Answer("refused", "no"), Answer("failed", "yes"),
                  Answer("failed", "unknown"), Answer("failed", "no")} : reply' = [reply EXCEPT ![s] = Replied(s, a)]
    BY <1>8 DEF Finish, Outcomes
  <2>3. PICK a : Fine(a) /\ reply' = [reply EXCEPT ![s] = Replied(s, a)]
    BY <1>1, <2>2
  <2> QED BY <1>0, <2>1, <2>3 DEF Replied
<1>9. CASE Receive \/ Quit
  BY <1>0, <1>2, <1>9 DEF Receive, Quit, serverVars, queueVars
<1>10. CASE Exit
  BY <1>0, <1>1, <1>2, <1>10 DEF Exit, Vanish
<1>11. CASE Crash
  <2>1. caller'[r] \in {Transport, caller[r]} /\ krang' = "crashed" /\ reply'[r] = NoAnswer
    BY <1>11 DEF Crash, Vanish
  <2>2. Heard(Transport)
    BY <1>1, <2>1 DEF Heard
  <2> QED BY <1>0, <1>1, <1>2, <2>1, <2>2
<1> QED BY <1>2, <1>5, <1>6, <1>7, <1>8, <1>9, <1>10, <1>11 DEF Next

\* A crash is for good.
LEMMA CrashedStays == ASSUME Next, krang = "crashed" PROVE krang' = "crashed"
BY DEF Next, Handler, Submit, RejectBody, Refused, Enqueue, DeadlinePasses, NotAccepted, ReceiveReply, TimeoutWait,
       Disconnect, Close, HandleDone, Touch, Finish, Receive, Deliver, Keyboard, OpenWizard, OpenFork, OpenComplete,
       CancelModal, SubmitWizard, SubmitNoCopies, CloneRemote, CloneRemoteDone, StartFork, ConfirmComplete, FlowDone,
       CloseFlow, Key, Quit, Exit, Crash

\* Exit codes 2 and 4 are kept: whoever was refused, never accepted or never let
\* in may call again, unless krang was killed at work.
THEOREM RetriesAreSafe == Spec => []RetryIsSafeUnlessKilled
<1>1. Init => Reasoned
  BY DEF Init, Reasoned, Candid, NoAnswer, Answer
<1>2. Consistent /\ Reasoned /\ [Next]_vars => Reasoned'
  <2> SUFFICES ASSUME Consistent, Reasoned, [Next]_vars PROVE Reasoned'
    OBVIOUS
  <2>1. CASE Next
    <3> SUFFICES ASSUME NEW r \in Requests, caller'[r].reason = "transport", krang' # "crashed" PROVE Spurned(r)'
      BY <2>1, StaysCandid DEF Reasoned
    <3>1. krang # "crashed"
      BY <2>1, CrashedStays
    <3>2. CASE caller'[r] = caller[r]
      BY <2>1, <3>1, <3>2, StaysSpurned DEF Reasoned
    <3>3. CASE Refused(r)
      <4>1. Untraced(r) /\ ~Pending(r) /\ handler \in [Requests -> {"idle", "offering", "waiting", "closed"}]
        BY <3>3 DEF Refused, Consistent, Traces, TypeOK
      <4>2. UNCHANGED <<work, effect, queue, pump, channel>> /\ handler'[r] = "closed"
        BY <3>3, <4>1 DEF Refused, Close
      <4> QED BY <4>1, <4>2 DEF Spurned, Pending, Untraced
    <3> QED BY <2>1, <3>2, <3>3, StaysCandid
  <2>2. CASE UNCHANGED vars
    BY <2>2 DEF vars, serverVars, queueVars, Reasoned, Spurned, Pending
  <2> QED BY <2>1, <2>2
<1>3. Consistent /\ Reasoned => RetryIsSafeUnlessKilled
  <2> SUFFICES ASSUME Consistent, Reasoned, krang # "crashed", NEW r \in Mutations, ExitCodeFor(caller[r]) \in {2, 4}
               PROVE  effect[r] = "none"
    BY DEF RetryIsSafeUnlessKilled, RetryIsSafe
  <2>1. r \in Requests
    BY DEF Mutations
  <2>2. caller[r].reason \in {"transport", "refused", "not_accepted", "expired"}
    BY DEF ExitCodeFor
  <2>3. CASE caller[r].reason = "transport"
    BY <2>1, <2>3 DEF Reasoned, Spurned
  <2>4. CASE caller[r].reason # "transport"
    BY <2>1, <2>2, <2>4 DEF Reasoned, Candid, Consistent, AnswersTrue, True, Denied
  <2> QED BY <2>3, <2>4
<1>4. Init /\ [][Next]_vars => []Consistent
  BY InitEstablishes, StepPreserves, PTL
<1>5. Init /\ [][Next]_vars => []Reasoned
  BY <1>1, <1>2, <1>4, PTL
<1> QED BY <1>3, <1>4, <1>5, PTL DEF Spec

--------------------------------------------------------------------------------
(* The order of the queue.                                                 *)

\* x stands before y in s.
Before(s, x, y) == \E i, j \in 1..Len(s) : i < j /\ s[i] = x /\ s[j] = y

\* x is ahead of y where q is queued, p received and c in the channel.
Order(q, p, c, x, y) ==
    \/ Before(q, x, y)
    \/ InSeq(x, q) /\ (y = p \/ InSeq(y, c))
    \/ x = p /\ InSeq(y, c)
    \/ Before(c, x, y)

\* Joining two sequences puts the first before the second.
LEMMA JoinOrder ==
    ASSUME NEW S, NEW a \in Seq(S), NEW b \in Seq(S)
    PROVE  /\ a \o b \in Seq(S)
           /\ \A x : InSeq(x, a \o b) <=> InSeq(x, a) \/ InSeq(x, b)
           /\ \A x, y : Before(a \o b, x, y) <=> Before(a, x, y) \/ Before(b, x, y) \/ (InSeq(x, a) /\ InSeq(y, b))
<1> DEFINE ab == a \o b
           A  == Len(a)
           B  == Len(b)
<1>1. /\ A \in Nat /\ B \in Nat /\ ab \in Seq(S) /\ Len(ab) = A + B
      /\ \A i \in 1..A + B : ab[i] = IF i <= A THEN a[i] ELSE b[i - A]
  BY LenProperties, ConcatProperties
<1>2. /\ \A i \in 1..A : i \in 1..Len(ab) /\ ab[i] = a[i]
      /\ \A i \in 1..B : A + i \in 1..Len(ab) /\ ab[A + i] = b[i]
      /\ \A i \in 1..Len(ab) : i \in 1..A \/ (i - A \in 1..B /\ i > A /\ A + (i - A) = i)
  BY <1>1
<1> HIDE DEF ab
<1>3. ASSUME NEW x PROVE InSeq(x, ab) <=> InSeq(x, a) \/ InSeq(x, b)
  BY <1>1, <1>2 DEF InSeq
<1>4. ASSUME NEW x, NEW y, Before(ab, x, y)
      PROVE  Before(a, x, y) \/ Before(b, x, y) \/ (InSeq(x, a) /\ InSeq(y, b))
  <2>1. PICK i \in 1..Len(ab), j \in 1..Len(ab) : i < j /\ ab[i] = x /\ ab[j] = y
    BY <1>4 DEF Before
  <2>2. CASE i \in 1..A /\ j \in 1..A
    BY <1>2, <2>1, <2>2 DEF Before
  <2>3. CASE i \in 1..A /\ j - A \in 1..B /\ j > A
    <3>1. a[i] = x /\ b[j - A] = y
      BY <1>1, <1>2, <2>1, <2>3
    <3> QED BY <2>3, <3>1 DEF InSeq
  <2>4. CASE i - A \in 1..B /\ i > A /\ j - A \in 1..B /\ j > A
    <3>1. b[i - A] = x /\ b[j - A] = y /\ i - A < j - A
      BY <1>1, <2>1, <2>4
    <3> QED BY <2>4, <3>1 DEF Before
  <2> QED BY <1>1, <1>2, <2>1, <2>2, <2>3, <2>4
<1>5. ASSUME NEW x, NEW y, Before(a, x, y) \/ Before(b, x, y) \/ (InSeq(x, a) /\ InSeq(y, b))
      PROVE  Before(ab, x, y)
  <2>1. CASE Before(a, x, y)
    BY <1>2, <2>1 DEF Before
  <2>2. CASE Before(b, x, y)
    <3>1. PICK i \in 1..B, j \in 1..B : i < j /\ b[i] = x /\ b[j] = y
      BY <2>2 DEF Before
    <3>2. A + i < A + j /\ ab[A + i] = x /\ ab[A + j] = y /\ A + i \in 1..Len(ab) /\ A + j \in 1..Len(ab)
      BY <1>1, <1>2, <3>1
    <3> QED BY <3>2 DEF Before
  <2>3. CASE InSeq(x, a) /\ InSeq(y, b)
    <3>1. PICK i \in 1..A, j \in 1..B : a[i] = x /\ b[j] = y
      BY <2>3 DEF InSeq
    <3>2. i < A + j /\ ab[i] = x /\ ab[A + j] = y /\ i \in 1..Len(ab) /\ A + j \in 1..Len(ab)
      BY <1>1, <1>2, <3>1
    <3> QED BY <3>2 DEF Before
  <2> QED BY <1>5, <2>1, <2>2, <2>3
<1> QED BY <1>1, <1>3, <1>4, <1>5 DEF ab

\* A sequence of one has one element, and nothing before it; the empty one none.
LEMMA ShortOrder ==
    ASSUME NEW e
    PROVE  /\ \A x : InSeq(x, <<e>>) <=> x = e
           /\ \A x : ~InSeq(x, <<>>)
           /\ \A x, y : ~Before(<<e>>, x, y) /\ ~Before(<<>>, x, y)
BY DEF InSeq, Before

\* What is appended stands behind all that was there.
LEMMA AppendOrder ==
    ASSUME NEW S, NEW q \in Seq(S), NEW e \in S
    PROVE  /\ \A x : InSeq(x, Append(q, e)) <=> InSeq(x, q) \/ x = e
           /\ \A x, y : Before(Append(q, e), x, y) <=> Before(q, x, y) \/ (InSeq(x, q) /\ y = e)
<1> DEFINE one == <<e>>
<1>1. one \in Seq(S) /\ Append(q, e) = q \o one
  BY AppendIsConcat
<1>2. /\ \A x : InSeq(x, one) <=> x = e
      /\ \A x, y : ~Before(one, x, y)
  BY ShortOrder
<1> HIDE DEF one
<1>3. /\ \A x : InSeq(x, q \o one) <=> InSeq(x, q) \/ InSeq(x, one)
      /\ \A x, y : Before(q \o one, x, y) <=> Before(q, x, y) \/ Before(one, x, y) \/ (InSeq(x, q) /\ InSeq(y, one))
  BY <1>1, JoinOrder
<1> QED BY <1>1, <1>2, <1>3, Zenon

\* The head stands before all that is left when it is taken.
LEMMA TailOrder ==
    ASSUME NEW S, NEW c \in Seq(S), c # <<>>
    PROVE  /\ \A x : InSeq(x, c) <=> x = Head(c) \/ InSeq(x, Tail(c))
           /\ \A x, y : Before(c, x, y) <=> Before(Tail(c), x, y) \/ (x = Head(c) /\ InSeq(y, Tail(c)))
<1> DEFINE one  == <<Head(c)>>
           rest == Tail(c)
<1>1. Head(c) \in S /\ rest \in Seq(S)
  BY HeadTailProperties
<1>2. c = one \o rest
  OBVIOUS
<1>3. one \in Seq(S)
  BY <1>1
<1>4. /\ \A x : InSeq(x, one) <=> x = Head(c)
      /\ \A x, y : ~Before(one, x, y)
  BY ShortOrder
<1> HIDE DEF one, rest
<1>5. /\ \A x : InSeq(x, one \o rest) <=> InSeq(x, one) \/ InSeq(x, rest)
      /\ \A x, y : Before(one \o rest, x, y) <=> Before(one, x, y) \/ Before(rest, x, y) \/ (InSeq(x, one) /\ InSeq(y, rest))
  BY <1>1, <1>3, JoinOrder
<1>6. /\ \A x : InSeq(x, c) <=> x = Head(c) \/ InSeq(x, rest)
      /\ \A x, y : Before(c, x, y) <=> Before(rest, x, y) \/ (x = Head(c) /\ InSeq(y, rest))
  BY <1>2, <1>4, <1>5, Zenon
<1> QED BY <1>6 DEF rest

\* The order in the pipeline is Order.
LEMMA PipeOrder ==
    ASSUME NEW S, NEW q \in Seq(S), NEW p \in S \cup {None}, NEW c \in Seq(S), None \notin S, NEW x \in S, NEW y \in S
    PROVE  Before(q \o (IF p = None THEN <<>> ELSE <<p>>) \o c, x, y) <=> Order(q, p, c, x, y)
<1> DEFINE m == IF p = None THEN <<>> ELSE <<p>>
<1>1. /\ m \in Seq(S) /\ \A z \in S : InSeq(z, m) <=> z = p
      /\ \A z, v : ~Before(m, z, v)
  <2>1. CASE p = None
    BY <2>1, ShortOrder, EmptySeq
  <2>2. CASE p # None
    <3>1. p \in S /\ m = <<p>>
      BY <2>2
    <3> QED BY <3>1, ShortOrder
  <2> QED BY <2>1, <2>2
<1> HIDE DEF m
<1>2. /\ q \o m \in Seq(S) /\ (InSeq(x, q \o m) <=> InSeq(x, q) \/ x = p)
      /\ Before(q \o m, x, y) <=> Before(q, x, y) \/ (InSeq(x, q) /\ y = p)
  BY <1>1, JoinOrder
<1>3. Before((q \o m) \o c, x, y) <=> Before(q \o m, x, y) \/ Before(c, x, y) \/ (InSeq(x, q \o m) /\ InSeq(y, c))
  BY <1>2, JoinOrder
<1> QED BY <1>2, <1>3 DEF Order, m

\* Of two requests in the pipeline one is ahead, and both are pending.
LEMMA OneAhead ==
    ASSUME Consistent, NEW x \in Requests, NEW y \in Requests, Order(queue, pump, channel, x, y)
    PROVE  /\ ~Order(queue, pump, channel, y, x)
           /\ Pending(x) /\ Pending(y)
<1>1. /\ Len(queue) \in Nat /\ Len(channel) \in Nat /\ Distinct(queue) /\ Distinct(channel)
      /\ \A r \in Requests : /\ InSeq(r, queue) => pump # r /\ ~InSeq(r, channel)
                             /\ pump = r => ~InSeq(r, channel)
  BY LenProperties DEF Consistent, TypeOK, OnePlace
<1>2. ASSUME NEW s, Len(s) \in Nat, Distinct(s), NEW v, NEW z, Before(s, v, z)
      PROVE  InSeq(v, s) /\ InSeq(z, s) /\ ~Before(s, z, v)
  BY <1>2 DEF Before, Distinct, InSeq
<1>3. /\ \A v, z : Before(queue, v, z) => InSeq(v, queue) /\ InSeq(z, queue) /\ ~Before(queue, z, v)
      /\ \A v, z : Before(channel, v, z) => InSeq(v, channel) /\ InSeq(z, channel) /\ ~Before(channel, z, v)
  BY <1>1, <1>2
<1> QED BY <1>1, <1>3 DEF Order, Pending

\* The drain takes from the front: who is left keeps the order, and who is started
\* has none before it but the expired.
LEMMA DrainOrder ==
    ASSUME TypeOK, NEW q \in Seq(Mutations), Distinct(q), NEW h \in Mutations \cup {None},
           NEW w \in [Requests -> Stages], Settle(q, h, w)
    PROVE  /\ \A x : InSeq(x, queue') => InSeq(x, q)
           /\ \A x, y : Before(queue', x, y) => Before(q, x, y)
           /\ \A m \in Mutations : w[m] # "running" /\ work'[m] = "running"
                => InSeq(m, q) /\ \A x : Before(q, x, m) => expired[x]
<1>0. Len(q) \in Nat /\ Mutations \subseteq Requests
  BY LenProperties DEF Mutations
<1>1. CASE queue' = q /\ work' = w
  BY <1>1
<1>2. CASE queue' = <<>> /\ work' = w
  BY <1>2, ShortOrder
<1>3. ASSUME NEW k \in Live(q), \A i \in Live(q) : k <= i,
             queue' = SubSeq(q, k + 1, Len(q)), work' = [w EXCEPT ![q[k]] = "running"]
      PROVE  /\ \A x : InSeq(x, queue') => InSeq(x, q)
             /\ \A x, y : Before(queue', x, y) => Before(q, x, y)
             /\ \A m \in Mutations : w[m] # "running" /\ work'[m] = "running"
                  => InSeq(m, q) /\ \A x : Before(q, x, m) => expired[x]
  <2>1. k \in 1..Len(q) /\ k \in Nat /\ q[k] \in Mutations
    BY <1>0, ElementOfSeq DEF Live
  <2> DEFINE rest == SubSeq(q, k + 1, Len(q))
  <2>2. Len(rest) = Len(q) - k /\ \A i \in 1..Len(rest) : rest[i] = q[k + i]
    <3>1. k + 1 \in Int /\ Len(q) \in Int /\ \A i \in (k + 1)..Len(q) : q[i] \in Mutations
      BY <1>0, <2>1, ElementOfSeq
    <3>2. /\ Len(rest) = IF k + 1 <= Len(q) THEN Len(q) - (k + 1) + 1 ELSE 0
          /\ \A i \in 1..Len(q) - (k + 1) + 1 : rest[i] = q[k + 1 + i - 1]
      BY <3>1, SubSeqProperties
    <3> HIDE DEF rest
    <3> QED BY <1>0, <2>1, <3>2
  <2>3. queue' = rest
    BY <1>3
  <2> HIDE DEF rest
  <2>4. ASSUME NEW i \in 1..Len(rest) PROVE k + i \in 1..Len(q) /\ rest[i] = q[k + i]
    BY <1>0, <2>1, <2>2
  <2>5. \A x : InSeq(x, rest) => InSeq(x, q)
    BY <2>4 DEF InSeq
  <2>6. ASSUME NEW x, NEW y, Before(rest, x, y) PROVE Before(q, x, y)
    <3>1. PICK i \in 1..Len(rest), j \in 1..Len(rest) : i < j /\ rest[i] = x /\ rest[j] = y
      BY <2>6 DEF Before
    <3>2. k + i < k + j /\ q[k + i] = x /\ q[k + j] = y /\ k + i \in 1..Len(q) /\ k + j \in 1..Len(q)
      BY <2>1, <2>2, <2>4, <3>1
    <3> QED BY <3>2 DEF Before
  <2>7. ASSUME NEW m \in Mutations, w[m] # "running", work'[m] = "running"
        PROVE  InSeq(m, q) /\ \A x : Before(q, x, m) => expired[x]
    <3>1. m = q[k]
      BY <1>0, <1>3, <2>1, <2>7
    <3>2. ASSUME NEW x, Before(q, x, m) PROVE expired[x]
      <4>1. PICK i \in 1..Len(q), j \in 1..Len(q) : i < j /\ q[i] = x /\ q[j] = m
        BY <3>2 DEF Before
      <4>2. j = k
        BY <2>1, <3>1, <4>1 DEF Distinct
      <4>3. i \notin Live(q)
        BY <1>0, <1>3, <2>1, <4>1, <4>2 DEF Live
      <4> QED BY <4>1, <4>3 DEF Live
    <3> QED BY <2>1, <3>1, <3>2 DEF InSeq
  <2> QED BY <2>3, <2>5, <2>6, <2>7
<1> QED BY <1>1, <1>2, <1>3 DEF Settle

\* Each Update ends with a drain of the queue, or of the queue with what has been
\* received at its end, and starts no mutation itself.
LEMMA UpdatesDrain ==
    ASSUME Consistent, Deliver \/ (\E r \in Requests : HandleDone(r)) \/ Keyboard
    PROVE  /\ channel' = channel /\ pump' \in {None, pump}
           /\ \E q \in Seq(Mutations), h \in Mutations \cup {None}, w \in [Requests -> Stages] :
                 /\ Settle(q, h, w) /\ Distinct(q)
                 /\ \A m \in Mutations : w[m] = "running" => work[m] = "running"
                 /\ \/ q = queue
                    \/ q = Append(queue, pump) /\ pump \in Mutations /\ ~InSeq(pump, queue) /\ pump' = None
<1>0. /\ queue \in Seq(Mutations) /\ inflight \in Mutations \cup {None} /\ Distinct(queue)
      /\ work \in [Requests -> Stages] /\ pump \in Requests \cup {None} /\ Mutations = Requests \ ReadOnly /\ TypeOK
  BY DEF Consistent, TypeOK, OnePlace, Stages, Mutations
<1>1. CASE Deliver
  <2>1. channel' = channel /\ pump' = None /\ pump \in Requests
    BY <1>0, <1>1 DEF Deliver
  <2>2. CASE pump \in ReadOnly /\ Settle(queue, inflight, [work EXCEPT ![pump] = "running"])
    <3> DEFINE w == [work EXCEPT ![pump] = "running"]
    <3>1. w \in [Requests -> Stages] /\ \A m \in Mutations : w[m] = work[m]
      BY <1>0, <2>1, <2>2 DEF Stages
    <3>2. Settle(queue, inflight, w)
      BY <2>2
    <3> HIDE DEF w
    <3> QED BY <1>0, <2>1, <3>1, <3>2
  <2>3. CASE pump \notin ReadOnly /\ Settle(Append(queue, pump), inflight, work)
    <3>1. pump \in Mutations /\ ~InSeq(pump, queue)
      BY <1>0, <2>1, <2>3 DEF Consistent, OnePlace
    <3>2. Append(queue, pump) \in Seq(Mutations) /\ Distinct(Append(queue, pump))
      BY <1>0, <3>1, AppendMembers, AppendProperties
    <3> QED BY <1>0, <2>1, <2>3, <3>1, <3>2
  <2> QED BY <1>1, <2>2, <2>3 DEF Deliver
<1>2. ASSUME NEW r \in Requests, HandleDone(r)
      PROVE  /\ channel' = channel /\ pump' = pump
             /\ \E h \in Mutations \cup {None}, w \in [Requests -> Stages] :
                   Settle(queue, h, w) /\ \A m \in Mutations : w[m] = "running" => work[m] = "running"
  <2> DEFINE w == [work EXCEPT ![r] = "reported"]
             h == IF r \in ReadOnly THEN inflight ELSE None
  <2>1. Settle(queue, h, w) /\ channel' = channel /\ pump' = pump
    BY <1>2 DEF HandleDone
  <2>2. w \in [Requests -> Stages] /\ h \in Mutations \cup {None}
    BY <1>0 DEF Stages
  <2>3. \A m \in Mutations : w[m] = "running" => work[m] = "running"
    BY <1>0
  <2> HIDE DEF w, h
  <2> QED BY <2>1, <2>2, <2>3
<1>3. CASE Keyboard
  <2>1. Settle(queue, inflight, work) /\ channel' = channel /\ pump' = pump
    BY <1>0, <1>3, KeyboardIsKeys DEF Key
  <2> QED BY <1>0, <2>1
<1> QED BY <1>0, <1>1, <1>2, <1>3

\* Everything but an Update leaves the goroutines of what is pending alone.
LEMMA OthersStartNothing ==
    ASSUME Consistent, Next, ~Deliver, \A r \in Requests : ~HandleDone(r), ~Keyboard, NEW m \in Requests
    PROVE  ~Starts(m)
<1>0. work \in [Requests -> Stages]
  BY DEF Consistent, TypeOK, Stages
<1>1. ASSUME NEW r \in Requests, Handler(r) PROVE work' = work
  BY <1>1 DEF Handler, Submit, RejectBody, Refused, Enqueue, DeadlinePasses, NotAccepted,
              ReceiveReply, TimeoutWait, Disconnect, Close, queueVars
<1>2. ASSUME NEW r \in Requests, Touch(r) \/ Finish(r) PROVE work' = work \/ work' = [work EXCEPT ![r] = "done"]
  BY <1>2 DEF Touch, Finish, queueVars
<1>3. CASE Receive \/ Quit \/ Exit \/ Crash
  <2>1. work' = work \/ work' = [r \in Requests |-> "none"]
    BY <1>3 DEF Receive, Quit, Exit, Crash, Vanish, queueVars
  <2> QED BY <2>1 DEF Starts
<1> QED BY <1>0, <1>1, <1>2, <1>3 DEF Next, Starts

\* The order of those who were pending before a step is the order after it.
LEMMA OrderStays ==
    ASSUME Consistent, Next, NEW x \in Requests, NEW y \in Requests, Pending(y),
           Order(queue', pump', channel', x, y)
    PROVE  Order(queue, pump, channel, x, y)
<1>0. /\ TypeOK /\ channel \in Seq(Requests) /\ queue \in Seq(Mutations) /\ Distinct(channel) /\ None \notin Requests
  BY RequestsAssumption DEF Consistent, TypeOK, OnePlace
<1>1. CASE Deliver \/ (\E r \in Requests : HandleDone(r)) \/ Keyboard
  <2>1. channel' = channel /\ pump' \in {None, pump}
    BY <1>1, UpdatesDrain
  <2>2. PICK q \in Seq(Mutations), h \in Mutations \cup {None}, w \in [Requests -> Stages] :
           /\ Settle(q, h, w) /\ Distinct(q)
           /\ \/ q = queue
              \/ q = Append(queue, pump) /\ pump \in Mutations /\ ~InSeq(pump, queue) /\ pump' = None
    BY <1>1, UpdatesDrain
  <2>3. (\A v : InSeq(v, queue') => InSeq(v, q)) /\ (\A v, z : Before(queue', v, z) => Before(q, v, z))
    BY <1>0, <2>2, DrainOrder
  <2>4. CASE q = queue
    BY <1>0, <2>1, <2>3, <2>4 DEF Order
  <2>5. CASE q = Append(queue, pump) /\ pump \in Mutations /\ pump' = None
    <3>1. /\ \A v : InSeq(v, q) <=> InSeq(v, queue) \/ v = pump
          /\ \A v, z : Before(q, v, z) <=> Before(queue, v, z) \/ (InSeq(v, queue) /\ z = pump)
      BY <1>0, <2>5, AppendOrder
    <3> QED BY <1>0, <2>1, <2>3, <2>5, <3>1 DEF Order
  <2> QED BY <2>2, <2>4, <2>5
<1>2. ASSUME NEW r \in Requests, Enqueue(r) PROVE Order(queue, pump, channel, x, y)
  <2>1. queue' = queue /\ pump' = pump /\ channel' = Append(channel, r) /\ y # r
    BY <1>2 DEF Enqueue, queueVars, Consistent, Traces
  <2>2. /\ \A v : InSeq(v, channel') <=> InSeq(v, channel) \/ v = r
        /\ \A v, z : Before(channel', v, z) <=> Before(channel, v, z) \/ (InSeq(v, channel) /\ z = r)
    BY <1>0, <2>1, AppendOrder
  <2> QED BY <2>1, <2>2 DEF Order
<1>3. CASE Receive
  <2>1. /\ queue' = queue /\ pump = None /\ pump' = Head(channel) /\ channel' = Tail(channel) /\ channel # <<>>
    BY <1>3 DEF Receive, queueVars
  <2>2. /\ \A v : InSeq(v, channel) <=> v = Head(channel) \/ InSeq(v, channel')
        /\ \A v, z : Before(channel, v, z) <=> Before(channel', v, z) \/ (v = Head(channel) /\ InSeq(z, channel'))
    BY <1>0, <2>1, TailOrder
  <2> QED BY <2>1, <2>2 DEF Order
<1>4. CASE Exit \/ Crash
  <2>1. queue' = <<>> /\ pump' = None /\ channel' = <<>>
    BY <1>4 DEF Exit, Crash, Vanish
  <2> QED BY <1>0, <2>1, ShortOrder DEF Order
<1>5. ASSUME UNCHANGED <<queue, pump, channel>> PROVE Order(queue, pump, channel, x, y)
  BY <1>5
<1>6. ASSUME NEW r \in Requests, (Handler(r) /\ ~Enqueue(r)) \/ Touch(r) \/ Finish(r)
      PROVE  UNCHANGED <<queue, pump, channel>>
  BY <1>6 DEF Handler, Submit, RejectBody, Refused, DeadlinePasses, NotAccepted, ReceiveReply, TimeoutWait,
              Disconnect, Close, Touch, Finish, queueVars
<1>7. Quit => UNCHANGED <<queue, pump, channel>>
  BY DEF Quit, queueVars
<1> QED BY <1>1, <1>2, <1>3, <1>4, <1>5, <1>6, <1>7 DEF Next

\* Agents are served in the order in which their requests were received: nobody
\* is overtaken on the way, and a mutation is started before another that is ahead
\* of it only if that one has expired.
THEOREM ServedInOrder == Spec => StartsInOrder
<1>1. ASSUME TypeOK PROVE \A x, y \in Requests : Ahead(x, y) <=> Order(queue, pump, channel, x, y)
  <2>1. /\ queue \in Seq(Requests) /\ channel \in Seq(Requests) /\ pump \in Requests \cup {None} /\ None \notin Requests
    BY <1>1, RequestsAssumption DEF TypeOK, Mutations
  <2> QED BY <2>1, PipeOrder DEF Ahead, Pipeline, Before
<1>2. ASSUME TypeOK' PROVE \A x, y \in Requests : Ahead(x, y)' <=> Order(queue', pump', channel', x, y)
  <2>1. /\ queue' \in Seq(Requests) /\ channel' \in Seq(Requests) /\ pump' \in Requests \cup {None} /\ None \notin Requests
    BY <1>2, RequestsAssumption DEF TypeOK, Mutations
  <2> QED BY <2>1, PipeOrder DEF Ahead, Pipeline, Before
<1>3. ASSUME Consistent, Consistent', Next, NEW q \in Mutations, NEW r \in Mutations, Ahead(q, r)
      PROVE  (Starts(r) => expired[q]) /\ ~Ahead(r, q)'
  <2>0. q \in Requests /\ r \in Requests /\ TypeOK /\ TypeOK'
    BY <1>3 DEF Mutations, Consistent
  <2>1. /\ Order(queue, pump, channel, q, r) /\ ~Order(queue, pump, channel, r, q)
        /\ Pending(q) /\ Pending(r)
    BY <1>1, <1>3, <2>0, OneAhead
  <2>2. ~Ahead(r, q)'
    BY <1>2, <1>3, <2>0, <2>1, OrderStays
  <2>3. ASSUME Starts(r) PROVE expired[q]
    <3>1. Deliver \/ (\E s \in Requests : HandleDone(s)) \/ Keyboard
      BY <1>3, <2>0, <2>3, OthersStartNothing
    <3>2. PICK z \in Seq(Mutations), h \in Mutations \cup {None}, w \in [Requests -> Stages] :
             /\ Settle(z, h, w) /\ Distinct(z)
             /\ \A m \in Mutations : w[m] = "running" => work[m] = "running"
             /\ \/ z = queue
                \/ z = Append(queue, pump) /\ pump \in Mutations /\ ~InSeq(pump, queue) /\ pump' = None
      BY <1>3, <3>1, UpdatesDrain
    <3>3. InSeq(r, z) /\ \A x : Before(z, x, r) => expired[x]
      BY <2>0, <2>3, <3>2, DrainOrder DEF Starts
    <3>4. /\ queue \in Seq(Mutations) /\ \A x : Before(queue, x, r) => InSeq(r, queue)
          /\ \A x : Before(channel, x, r) => InSeq(r, channel)
          /\ InSeq(r, queue) => pump # r /\ ~InSeq(r, channel)
          /\ pump = r => ~InSeq(r, channel)
      BY <1>3, <2>0 DEF Consistent, TypeOK, OnePlace, Before, InSeq
    <3>5. CASE z = queue
      BY <2>1, <3>3, <3>4, <3>5 DEF Order
    <3>6. CASE z = Append(queue, pump) /\ pump \in Mutations
      <4>1. /\ \A v : InSeq(v, z) <=> InSeq(v, queue) \/ v = pump
            /\ \A v, u : Before(z, v, u) <=> Before(queue, v, u) \/ (InSeq(v, queue) /\ u = pump)
        BY <3>4, <3>6, AppendOrder
      <4> QED BY <2>1, <3>3, <3>4, <4>1 DEF Order
    <3> QED BY <3>2, <3>5, <3>6
  <2> QED BY <2>2, <2>3
<1>4. Consistent /\ Consistent' /\ [Next]_vars =>
      [\A q, r \in Mutations : Ahead(q, r) => /\ Starts(r) => expired[q]
                                             /\ ~Ahead(r, q)']_vars
  BY <1>3
<1>5. Init /\ [][Next]_vars => []Consistent
  BY InitEstablishes, StepPreserves, PTL
<1> QED BY <1>4, <1>5, PTL DEF Spec, StartsInOrder

--------------------------------------------------------------------------------
(* Nobody is forgotten, and nobody waits for nothing.                      *)

\* What is left of a sequence behind its k-th element holds all that was there.
LEMMA RestKeeps ==
    ASSUME NEW S, NEW q \in Seq(S), NEW k \in 1..Len(q), NEW i \in (k + 1)..Len(q)
    PROVE  InSeq(q[i], SubSeq(q, k + 1, Len(q)))
<1> DEFINE rest == SubSeq(q, k + 1, Len(q))
<1>1. Len(q) \in Nat /\ \A j \in 1..Len(q) : q[j] \in S
  BY LenProperties, ElementOfSeq
<1>2. k + 1 \in Int /\ Len(q) \in Int /\ \A j \in (k + 1)..Len(q) : q[j] \in S
  BY <1>1
<1>3. /\ Len(rest) = IF k + 1 <= Len(q) THEN Len(q) - (k + 1) + 1 ELSE 0
      /\ \A j \in 1..Len(q) - (k + 1) + 1 : rest[j] = q[k + 1 + j - 1]
  BY <1>2, SubSeqProperties
<1> HIDE DEF rest
<1>4. i - k \in 1..Len(rest) /\ rest[i - k] = q[i]
  BY <1>1, <1>3
<1> QED BY <1>4 DEF InSeq, rest

\* A drain answers whom it drops, starts or keeps the others, and leaves no queue
\* behind that has nothing to wait for.
LEMMA DrainForgetsNobody ==
    ASSUME Consistent, Consistent', NEW q \in Seq(Mutations), NEW h \in Mutations \cup {None},
           NEW w \in [Requests -> Stages], Settle(q, h, w)
    PROVE  /\ QueueAwaits'
           /\ \A r \in Requests :
                 /\ w[r] = "running" => work'[r] = "running"
                 /\ handler[r] = "waiting" /\ reply'[r] = NoAnswer =>
                       reply[r] = NoAnswer /\ (InSeq(r, q) => InSeq(r, queue') \/ work'[r] = "running")
<1> DEFINE dropped(n) == [r \in Requests |-> IF InSeq(r, SubSeq(q, 1, n))
                                             THEN Replied(r, Answer("expired", "no"))
                                             ELSE reply[r]]
           Kept(r) == handler[r] = "waiting" /\ reply'[r] = NoAnswer =>
                         reply[r] = NoAnswer /\ (InSeq(r, q) => InSeq(r, queue') \/ work'[r] = "running")
<1>0. /\ Len(q) \in Nat /\ \A i \in 1..Len(q) : q[i] \in Mutations
      /\ None \notin Mutations /\ Mutations \subseteq Requests
      /\ \A r \in Mutations : inflight' = r => work'[r] \in {"running", "done"}
      /\ Answer("expired", "no") # NoAnswer
  <2>1. Answer("expired", "no").applied = "no" /\ NoAnswer.applied = "unstated"
    BY DEF NoAnswer, Answer
  <2> QED BY <2>1, LenProperties, ElementOfSeq, RequestsAssumption DEF Mutations, Consistent, SlotHeld
<1>1. ASSUME NEW n \in 0..Len(q), reply' = dropped(n), NEW r \in Requests,
             handler[r] = "waiting", reply'[r] = NoAnswer
      PROVE  reply[r] = NoAnswer /\ ~InSeq(r, SubSeq(q, 1, n))
  BY <1>0, <1>1 DEF Replied
<1>2. CASE Busy(h, mode', progress') /\ queue' = q /\ inflight' = h /\ work' = w /\ reply' = reply
  <2>1. QueueAwaits'
    BY <1>0, <1>2 DEF QueueAwaits, Busy
  <2> QED BY <1>2, <2>1
<1>3. CASE /\ queue' = <<>> /\ inflight' = None /\ work' = w /\ reply' = dropped(Len(q))
  <2>1. QueueAwaits'
    BY <1>3 DEF QueueAwaits
  <2>2. \A x : InSeq(x, SubSeq(q, 1, Len(q))) <=> InSeq(x, q)
    <3>1. Len(q) \in 0..Len(q)
      BY <1>0
    <3> QED BY <3>1, FrontMembers DEF InSeq
  <2>3. \A r \in Requests : Kept(r)
    <3>1. Len(q) \in 0..Len(q)
      BY <1>0
    <3> QED BY <1>1, <1>3, <2>2, <3>1
  <2> QED BY <1>3, <2>1, <2>3
<1>4. CASE \E k \in Live(q) :
              /\ queue' = SubSeq(q, k + 1, Len(q)) /\ inflight' = q[k]
              /\ work' = [w EXCEPT ![q[k]] = "running"] /\ reply' = dropped(k - 1)
  <2>1. PICK k \in Live(q) :
           /\ queue' = SubSeq(q, k + 1, Len(q)) /\ inflight' = q[k]
           /\ work' = [w EXCEPT ![q[k]] = "running"] /\ reply' = dropped(k - 1)
    BY <1>4
  <2>2. k \in 1..Len(q) /\ k - 1 \in 0..Len(q) /\ q[k] \in Mutations /\ q[k] \in Requests
    BY <1>0 DEF Live
  <2>3. QueueAwaits'
    BY <1>0, <2>1, <2>2 DEF QueueAwaits
  <2>4. work'[q[k]] = "running" /\ \A r \in Requests : w[r] = "running" => work'[r] = "running"
    BY <2>1, <2>2
  <2>5. ASSUME NEW r \in Requests, handler[r] = "waiting", reply'[r] = NoAnswer, InSeq(r, q)
        PROVE  InSeq(r, queue') \/ work'[r] = "running"
    <3>1. PICK i \in 1..Len(q) : q[i] = r
      BY <2>5 DEF InSeq
    <3>2. ~InSeq(r, SubSeq(q, 1, k - 1))
      BY <1>1, <2>1, <2>2, <2>5
    <3>3. ~(i \in 1..k - 1)
      BY <2>2, <3>1, <3>2, FrontMembers
    <3>4. i = k \/ i \in (k + 1)..Len(q)
      BY <1>0, <2>2, <3>1, <3>3
    <3>5. CASE i \in (k + 1)..Len(q)
      <4>1. InSeq(q[i], SubSeq(q, k + 1, Len(q)))
        BY <2>2, <3>5, RestKeeps
      <4> QED BY <2>1, <3>1, <4>1
    <3> QED BY <2>4, <3>1, <3>4, <3>5
  <2>6. \A r \in Requests : handler[r] = "waiting" /\ reply'[r] = NoAnswer => reply[r] = NoAnswer
    BY <1>1, <2>1, <2>2
  <2> QED BY <2>3, <2>4, <2>5, <2>6
<1> QED BY <1>2, <1>3, <1>4 DEF Settle

\* The end of every Update: whoever waits still has a place.
LEMMA UpdateForgetsNobody ==
    ASSUME Consistent, Consistent', NobodyForgotten,
           Deliver \/ (\E r \in Requests : HandleDone(r)) \/ Keyboard
    PROVE  NobodyForgotten' /\ QueueAwaits'
<1>0. /\ queue \in Seq(Mutations) /\ inflight \in Mutations \cup {None}
      /\ work \in [Requests -> Stages] /\ pump \in Requests \cup {None} /\ Mutations = Requests \ ReadOnly
  BY DEF Consistent, TypeOK, Stages, Mutations
<1>1. ASSUME NEW q \in Seq(Mutations), NEW h \in Mutations \cup {None}, NEW w \in [Requests -> Stages],
             Settle(q, h, w), handler' = handler, channel' = channel,
             \A r \in Requests : /\ InSeq(r, queue) => InSeq(r, q)
                                 /\ pump = r => pump' = r \/ InSeq(r, q) \/ w[r] = "running"
                                 /\ work[r] = "running" => w[r] = "running"
      PROVE  NobodyForgotten' /\ QueueAwaits'
  <2>1. /\ QueueAwaits'
        /\ \A r \in Requests :
              /\ w[r] = "running" => work'[r] = "running"
              /\ handler[r] = "waiting" /\ reply'[r] = NoAnswer =>
                    reply[r] = NoAnswer /\ (InSeq(r, q) => InSeq(r, queue') \/ work'[r] = "running")
    BY <1>1, DrainForgetsNobody
  <2>2. ASSUME NEW r \in Requests, handler'[r] = "waiting", reply'[r] = NoAnswer
        PROVE  Pending(r)' \/ work'[r] = "running"
    <3>1. Pending(r) \/ work[r] = "running"
      BY <1>1, <2>1, <2>2 DEF NobodyForgotten
    <3>2. Pending(r)' <=> InSeq(r, queue') \/ pump' = r \/ InSeq(r, channel)
      BY <1>1 DEF Pending, InSeq
    <3> QED BY <1>1, <2>1, <2>2, <3>1, <3>2 DEF Pending
  <2> QED BY <2>1, <2>2 DEF NobodyForgotten
<1>2. CASE Deliver
  <2>1. channel' = channel /\ pump' = None /\ pump \in Requests /\ handler' = handler
    BY <1>0, <1>2 DEF Deliver, serverVars
  <2>2. CASE pump \in ReadOnly /\ Settle(queue, inflight, [work EXCEPT ![pump] = "running"])
    <3> DEFINE w == [work EXCEPT ![pump] = "running"]
    <3>1. w \in [Requests -> Stages] /\ w[pump] = "running" /\ \A r \in Requests : work[r] = "running" => w[r] = "running"
      BY <1>0, <2>1, <2>2 DEF Stages
    <3>2. Settle(queue, inflight, w)
      BY <2>2
    <3> HIDE DEF w
    <3> QED BY <1>0, <1>1, <2>1, <3>1, <3>2
  <2>3. CASE pump \notin ReadOnly /\ Settle(Append(queue, pump), inflight, work)
    <3>1. pump \in Mutations
      BY <1>0, <2>1, <2>3
    <3>2. Append(queue, pump) \in Seq(Mutations) /\ \A x : InSeq(x, Append(queue, pump)) <=> InSeq(x, queue) \/ x = pump
      BY <1>0, <3>1, AppendMembers, AppendProperties
    <3> QED BY <1>0, <1>1, <2>1, <2>3, <3>2
  <2> QED BY <1>2, <2>2, <2>3 DEF Deliver
<1>3. ASSUME NEW r \in Requests, HandleDone(r) PROVE NobodyForgotten' /\ QueueAwaits'
  <2> DEFINE w == [work EXCEPT ![r] = "reported"]
             h == IF r \in ReadOnly THEN inflight ELSE None
  <2>1. Settle(queue, h, w) /\ channel' = channel /\ pump' = pump /\ handler' = handler /\ work[r] = "done"
    BY <1>3 DEF HandleDone, serverVars
  <2>2. w \in [Requests -> Stages] /\ h \in Mutations \cup {None}
    BY <1>0 DEF Stages
  <2>3. \A m \in Requests : work[m] = "running" => w[m] = "running"
    BY <1>0, <2>1
  <2> HIDE DEF w, h
  <2> QED BY <1>0, <1>1, <2>1, <2>2, <2>3
<1>4. CASE Keyboard
  <2>1. Settle(queue, inflight, work) /\ channel' = channel /\ pump' = pump /\ handler' = handler
    BY <1>4, KeyboardIsKeys DEF Key, Consistent, serverVars
  <2> QED BY <1>0, <1>1, <2>1
<1> QED BY <1>2, <1>3, <1>4

\* A handler forgets only its own request.
LEMMA HandlerForgetsNobody ==
    ASSUME Consistent, NobodyForgotten, QueueAwaits, NEW r \in Requests, Handler(r)
    PROVE  NobodyForgotten' /\ QueueAwaits'
<1>0. /\ handler \in [Requests -> {"idle", "offering", "waiting", "closed"}]
      /\ reply \in [Requests -> Answers] /\ channel \in Seq(Requests)
  BY DEF Consistent, TypeOK
<1>1. UNCHANGED <<krang, pump, queue, inflight, work, mode, progress>>
  BY DEF Handler, Submit, RejectBody, Refused, Enqueue, DeadlinePasses, NotAccepted,
         ReceiveReply, TimeoutWait, Disconnect, Close, queueVars, humanVars
<1>2. QueueAwaits'
  BY <1>1 DEF QueueAwaits
<1>3. /\ channel' = channel \/ channel' = Append(channel, r)
      /\ \A s \in Requests \ {r} : handler'[s] = handler[s] /\ reply'[s] = reply[s]
      /\ handler'[r] = "waiting" => Enqueue(r) \/ (handler' = handler /\ reply' = reply)
  BY <1>0 DEF Handler, Submit, RejectBody, Refused, Enqueue, DeadlinePasses, NotAccepted,
         ReceiveReply, TimeoutWait, Disconnect, Close, queueVars, humanVars
<1>4. \A x : InSeq(x, channel) => InSeq(x, channel')
  <2>1. \A x : InSeq(x, channel) => InSeq(x, Append(channel, r))
    BY <1>0, AppendMembers
  <2>2. CASE channel' = channel
    BY <2>2, Zenon
  <2>3. CASE channel' = Append(channel, r)
    BY <2>1, <2>3, Zenon
  <2> QED BY <1>3, <2>2, <2>3
<1>5. \A s \in Requests : Pending(s) => Pending(s)'
  BY <1>1, <1>4 DEF Pending, InSeq
<1>6. Enqueue(r) => Pending(r)'
  <2>1. ASSUME Enqueue(r) PROVE InSeq(r, channel')
    BY <1>0, <2>1, AppendMembers DEF Enqueue
  <2> QED BY <2>1 DEF Pending
<1>7. NobodyForgotten'
  BY <1>1, <1>3, <1>5, <1>6 DEF NobodyForgotten
<1> QED BY <1>2, <1>7

\* Neither do the channel, the goroutines and the end of the process.
LEMMA OthersForgetNobody ==
    ASSUME Consistent, NobodyForgotten, QueueAwaits,
           \/ Receive \/ Quit \/ Exit \/ Crash
           \/ \E r \in Requests : Touch(r) \/ Finish(r)
    PROVE  NobodyForgotten' /\ QueueAwaits'
<1>0. /\ handler \in [Requests -> {"idle", "offering", "waiting", "closed"}]
      /\ reply \in [Requests -> Answers] /\ channel \in Seq(Requests) /\ queue \in Seq(Mutations)
      /\ work \in [Requests -> Stages] /\ None \notin Requests /\ Distinct(channel)
  BY RequestsAssumption DEF Consistent, TypeOK, Stages, OnePlace
<1>1. CASE Receive
  <2>1. /\ UNCHANGED <<krang, handler, queue, inflight, work, reply, mode, progress>>
        /\ pump = None /\ pump' = Head(channel) /\ channel' = Tail(channel) /\ channel # <<>>
    BY <1>1 DEF Receive, serverVars, queueVars, humanVars
  <2>2. \A s \in Requests : Pending(s) => Pending(s)'
    BY <1>0, <2>1, TailMembers DEF Pending, InSeq
  <2> QED BY <2>1, <2>2 DEF NobodyForgotten, QueueAwaits
<1>2. ASSUME NEW r \in Requests, Touch(r) \/ Finish(r) PROVE NobodyForgotten' /\ QueueAwaits'
  <2>1. /\ UNCHANGED <<krang, handler, channel, pump, queue, inflight, mode, progress>>
        /\ \A s \in Requests \ {r} : work'[s] = work[s] /\ reply'[s] = reply[s]
        /\ work[r] = "running"
    BY <1>0, <1>2 DEF Touch, Finish, queueVars, serverVars, humanVars
  <2>2. work'[r] = "running" \/ (work'[r] = "done" /\ (handler[r] = "waiting" => reply'[r] # NoAnswer))
    <3>1. CASE Touch(r)
      BY <2>1, <3>1 DEF Touch, queueVars
    <3>2. CASE Finish(r)
      <4>1. PICK a \in Answers :
               a # NoAnswer /\ reply' = [reply EXCEPT ![r] = Replied(r, a)] /\ work' = [work EXCEPT ![r] = "done"]
        <5>1. \A x, y : Answer(x, y).reason = x /\ Answer(x, y).applied = y
          BY DEF Answer
        <5>2. PICK a : /\ a \in (IF r \in ReadOnly THEN {Answer("ok", "yes"), Answer("rejected", "no")}
                                                   ELSE Outcomes(effect[r]))
                       /\ reply' = [reply EXCEPT ![r] = Replied(r, a)]
          BY <3>2 DEF Finish
        <5>3. a \in {Answer("ok", "yes"), Answer("rejected", "no"), Answer("refused", "no"),
                     Answer("failed", "yes"), Answer("failed", "unknown"), Answer("failed", "no")}
          BY <5>2 DEF Outcomes
        <5>4. a \in Answers /\ a # NoAnswer
          BY <5>1, <5>3 DEF Answers, Answer, NoAnswer, Reasons, Applied
        <5> QED BY <3>2, <5>2, <5>4 DEF Finish
      <4> QED BY <1>0, <4>1 DEF Replied
    <3> QED BY <1>2, <3>1, <3>2
  <2>3. \A s \in Requests : Pending(s)' = Pending(s)
    BY <2>1 DEF Pending, InSeq
  <2>4. NobodyForgotten'
    BY <2>1, <2>2, <2>3 DEF NobodyForgotten
  <2>5. QueueAwaits'
    BY <2>1, <2>2 DEF QueueAwaits, Mutations
  <2> QED BY <2>4, <2>5
<1>3. CASE Quit
  <2>1. UNCHANGED <<handler, channel, pump, queue, work, reply>> /\ krang' = "stopping"
    BY <1>3 DEF Quit, serverVars, queueVars
  <2>2. \A s \in Requests : Pending(s)' = Pending(s)
    BY <2>1 DEF Pending, InSeq
  <2> QED BY <2>1, <2>2 DEF NobodyForgotten, QueueAwaits
<1>4. CASE Exit \/ Crash
  <2>1. krang' # "running"
    BY <1>4 DEF Exit, Crash
  <2>2. \A r \in Requests : handler'[r] # "waiting"
    BY <1>0, <1>4 DEF Exit, Crash, Open
  <2> QED BY <2>1, <2>2 DEF NobodyForgotten, QueueAwaits
<1> QED BY <1>1, <1>2, <1>3, <1>4

\* The inductive invariant holds in every behaviour, with or without fairness: what
\* is consistent, that no accepted call is forgotten, and that no Update leaves a
\* queue behind which nothing will move.
THEOREM Invariance == Spec => []IInv
<1>1. Init => IInv
  <2>1. Init => NobodyForgotten /\ QueueAwaits
    BY DEF Init, NobodyForgotten, QueueAwaits
  <2> QED BY <2>1, InitEstablishes DEF IInv
<1>2. IInv /\ [Next]_vars => IInv'
  <2> SUFFICES ASSUME IInv, [Next]_vars PROVE NobodyForgotten' /\ QueueAwaits'
    BY StepPreserves DEF IInv
  <2>0. Consistent /\ NobodyForgotten /\ QueueAwaits /\ Consistent'
    BY StepPreserves DEF IInv
  <2>1. CASE Deliver \/ (\E r \in Requests : HandleDone(r)) \/ Keyboard
    BY <2>0, <2>1, UpdateForgetsNobody
  <2>2. CASE \E r \in Requests : Handler(r)
    BY <2>0, <2>2, HandlerForgetsNobody
  <2>3. CASE \/ Receive \/ Quit \/ Exit \/ Crash
             \/ \E r \in Requests : Touch(r) \/ Finish(r)
    BY <2>0, <2>3, OthersForgetNobody
  <2>4. CASE UNCHANGED vars
    BY <2>0, <2>4 DEF vars, serverVars, queueVars, humanVars, NobodyForgotten, QueueAwaits, Pending, InSeq
  <2> QED BY <2>1, <2>2, <2>3, <2>4 DEF Next
<1>3. Init /\ [][Next]_vars => []IInv
  BY <1>1, <1>2, PTL
<1> QED BY <1>3, PTL DEF Spec
================================================================================
