--------------------------- MODULE MqttQueueProofs ---------------------------
(***************************************************************************)
(* Theorems about MqttQueue, for every set of configurations between which *)
(* settings change the queue, every threshold of failures and every set of *)
(* messages that are too long.                                             *)
(***************************************************************************)
EXTENDS MqttQueue, SequenceTheorems, TLAPS

-----------------------------------------------------------------------------
\* What pop_front() leaves.
LEMMA PopFront ==
    ASSUME NEW S, NEW q \in Seq(S), q # <<>>
    PROVE  /\ Head(q) = q[1] /\ Head(q) \in S
           /\ Len(q) \in Nat /\ Len(q) > 0
           /\ Tail(q) \in Seq(S)
           /\ Len(Tail(q)) = Len(q) - 1
           /\ \A i \in 1..Len(Tail(q)) : Tail(q)[i] = q[i + 1]
BY HeadTailProperties, SMT

\* What emplace_back() adds.
LEMMA PushBack ==
    ASSUME NEW S, NEW q \in Seq(S), NEW e \in S
    PROVE  /\ Append(q, e) \in Seq(S)
           /\ Append(q, e) # <<>>
           /\ Len(Append(q, e)) = Len(q) + 1
           /\ Append(q, e)[Len(q) + 1] = e
           /\ \A i \in 1..Len(q) : Append(q, e)[i] = q[i]
BY AppendProperties, SMT

-----------------------------------------------------------------------------
\* The queue and what was done with its messages, when n were handed over.
StateType ==
    [queue : Seq(Messages), attempt : Nat, published : SUBSET Messages,
     tries : [Messages -> Nat], netTries : Nat, gone : SUBSET Messages,
     heirs : SUBSET Messages, online : BOOLEAN, failures : 0..(Threshold + 1)]

\* Messages wait in order, behind those that were published.
InOrder(q, p, n) ==
    /\ \A i, j \in 1..Len(q) : i < j => q[i] < q[j]
    /\ \A i \in 1..Len(q) : q[i] <= n
    /\ \A m \in p : m <= n
    /\ \A m \in p : \A i \in 1..Len(q) : m < q[i]

\* attempt counts for the front message, unless eviction brought it there; the
\* others were not tried yet.
Counted(q, a, t, h, n) ==
    /\ q = <<>> => a = 0
    /\ q # <<>> => t[q[1]] = a \/ q[1] \in h
    /\ \A i \in 2..Len(q) : t[q[i]] = 0
    /\ \A m \in Messages : m > n => t[m] = 0

\* The bounds that some settings in use since have allowed.
Within(q, a) ==
    /\ \E c \in Configs : Len(q) <= c.depth
    /\ \E c \in Configs : a <= c.retries + 1

Good(s, n) ==
    /\ Within(s.queue, s.attempt)
    /\ InOrder(s.queue, s.published, n)
    /\ Counted(s.queue, s.attempt, s.tries, s.heirs, n)

\* No message has been given up but a front one that has used its retries.
GoneFrom(s, g) ==
    \A m \in g \ s.gone :
        s.queue # <<>> /\ m = s.queue[1] /\ s.attempt > cfg.retries

\* What one run publishes: nothing, or a message newer than all before it.
Sent(p, q, n) ==
    q = p \/ \E m \in 1..n : q = p \cup {m} /\ \A k \in p : k < m

-----------------------------------------------------------------------------
LEMMA InOrderPop ==
    ASSUME NEW q \in Seq(Messages), q # <<>>, NEW p \in SUBSET Messages,
           NEW n \in 0..MaxMessages, InOrder(q, p, n)
    PROVE  /\ InOrder(Tail(q), p, n)
           /\ InOrder(Tail(q), p \cup {Head(q)}, n)
           /\ Head(q) \in 1..n
           /\ \A m \in p : m < Head(q)
<1>1. /\ Head(q) = q[1] /\ Head(q) \in Messages
      /\ Len(q) \in Nat /\ Len(q) > 0
      /\ Len(Tail(q)) = Len(q) - 1
      /\ \A i \in 1..Len(Tail(q)) : Tail(q)[i] = q[i + 1]
  BY PopFront
<1>2. Head(q) \in 1..n
  BY <1>1, MqttQueueAssumption, SMT DEF InOrder, Messages
<1>3. \A m \in p : m < Head(q)
  BY <1>1, SMT DEF InOrder
<1>4. InOrder(Tail(q), p, n)
  BY <1>1, SMT DEF InOrder
<1>5. \A i \in 1..Len(Tail(q)) : Head(q) < Tail(q)[i]
  BY <1>1, SMT DEF InOrder
<1> QED
  BY <1>2, <1>3, <1>4, <1>5, SMT DEF InOrder

\* The front message leaves, and the next one has not been tried.
LEMMA CountedPop ==
    ASSUME NEW q \in Seq(Messages), q # <<>>, NEW a \in Nat,
           NEW t \in [Messages -> Nat], NEW h \in SUBSET Messages,
           NEW n \in 0..MaxMessages, Counted(q, a, t, h, n)
    PROVE  Counted(Tail(q), 0, t, h, n)
<1>1. /\ Len(q) \in Nat /\ Len(q) > 0
      /\ Tail(q) \in Seq(Messages)
      /\ Len(Tail(q)) = Len(q) - 1
      /\ \A i \in 1..Len(Tail(q)) : Tail(q)[i] = q[i + 1]
  BY PopFront
<1>2. \A i \in 1..Len(Tail(q)) : t[Tail(q)[i]] = 0
  BY <1>1, SMT DEF Counted
<1>3. Tail(q) # <<>> => t[Tail(q)[1]] = 0
  <2> SUFFICES ASSUME Tail(q) # <<>> PROVE t[Tail(q)[1]] = 0
    OBVIOUS
  <2>1. Len(Tail(q)) \in Nat /\ Len(Tail(q)) > 0
    BY <1>1, PopFront, Zenon
  <2>2. 1 \in 1..Len(Tail(q))
    BY <2>1, SMT
  <2> QED
    BY <1>2, <2>2, Zenon
<1>4. \A i \in 2..Len(Tail(q)) : t[Tail(q)[i]] = 0
  BY <1>1, <1>2, SMT
<1> QED
  BY <1>3, <1>4, Zenon DEF Counted

\* One more attempt for the front message.
LEMMA CountedRefused ==
    ASSUME NEW q \in Seq(Messages), q # <<>>, NEW a \in Nat,
           NEW t \in [Messages -> Nat], NEW h \in SUBSET Messages,
           NEW p \in SUBSET Messages,
           NEW n \in 0..MaxMessages, Counted(q, a, t, h, n), InOrder(q, p, n)
    PROVE  /\ OneMore(t, Head(q)) \in [Messages -> Nat]
           /\ Counted(q, a + 1, OneMore(t, Head(q)), h, n)
<1> DEFINE u == OneMore(t, Head(q))
<1>1. /\ Head(q) = q[1] /\ Head(q) \in Messages
      /\ Len(q) \in Nat /\ Len(q) > 0
  BY PopFront
<1>2. /\ u \in [Messages -> Nat]
      /\ u[Head(q)] = t[Head(q)] + 1
      /\ \A m \in Messages : m # Head(q) => u[m] = t[m]
  BY <1>1 DEF OneMore
<1> HIDE DEF u
<1>3. \A i \in 2..Len(q) : q[i] \in Messages /\ q[i] # Head(q)
  <2> SUFFICES ASSUME NEW i \in 2..Len(q)
               PROVE  q[i] \in Messages /\ q[i] # Head(q)
    OBVIOUS
  <2>1. i \in 1..Len(q) /\ 1 \in 1..Len(q) /\ 1 < i
    BY <1>1, SMT
  <2>2. q[i] \in Messages
    BY <2>1, ElementOfSeq
  <2>3. q[1] < q[i]
    BY <2>1, Zenon DEF InOrder
  <2> QED
    BY <1>1, <2>2, <2>3, SMT DEF Messages
<1>4. Head(q) <= n
  BY <1>1, SMT DEF InOrder
<1>5. \A i \in 2..Len(q) : u[q[i]] = 0
  BY <1>2, <1>3 DEF Counted
<1>6. \A m \in Messages : m > n => u[m] = 0
  BY <1>1, <1>2, <1>4, SMT DEF Counted, Messages
<1>7. u[q[1]] = a + 1 \/ q[1] \in h
  BY <1>1, <1>2 DEF Counted
<1>8. Counted(q, a + 1, u, h, n)
  BY <1>5, <1>6, <1>7, Zenon DEF Counted
<1> QED
  BY <1>2, <1>8 DEF u

-----------------------------------------------------------------------------
\* getNext()
LEMMA GetNextGood ==
    ASSUME NEW s \in StateType, NEW n \in 0..MaxMessages, Good(s, n),
           cfg \in Configs
    PROVE  /\ GetNext(s) \in StateType /\ Good(GetNext(s), n)
           /\ GetNext(s).published = s.published
           /\ GoneFrom(s, GetNext(s).gone)
           /\ GetNext(s).queue # <<>> => GetNext(s).attempt <= cfg.retries
<1>0. \A c \in Configs : c.retries \in Nat /\ c.depth \in Nat
  BY MqttQueueAssumption DEF ConfigType
<1>1. CASE s.queue # <<>> /\ s.attempt > cfg.retries
  <2> DEFINE t == [s EXCEPT !.queue = Tail(@), !.attempt = 0, !.netTries = 0,
                            !.gone = @ \cup {Head(s.queue)}]
  <2>1. GetNext(s) = t
    BY <1>1 DEF GetNext
  <2>2. s.queue \in Seq(Messages) /\ s.tries \in [Messages -> Nat]
          /\ s.attempt \in Nat /\ s.published \in SUBSET Messages
          /\ s.gone \in SUBSET Messages /\ s.heirs \in SUBSET Messages
    BY DEF StateType
  <2>3. /\ Head(s.queue) = s.queue[1] /\ Head(s.queue) \in Messages
        /\ Tail(s.queue) \in Seq(Messages)
        /\ Len(s.queue) \in Nat /\ Len(Tail(s.queue)) = Len(s.queue) - 1
    BY <1>1, <2>2, PopFront
  <2>4. /\ t.queue = Tail(s.queue) /\ t.attempt = 0
        /\ t.gone = s.gone \cup {Head(s.queue)} /\ t.heirs = s.heirs
        /\ t.published = s.published /\ t.tries = s.tries
    BY DEF StateType
  <2>5. t \in StateType
    BY <2>2, <2>3 DEF StateType
  <2> HIDE DEF t
  <2>6. InOrder(t.queue, t.published, n)
    BY <1>1, <2>2, <2>4, InOrderPop DEF Good
  <2>7. Counted(t.queue, t.attempt, t.tries, t.heirs, n)
    BY <1>1, <2>2, <2>4, CountedPop DEF Good
  <2>8. GoneFrom(s, t.gone)
    BY <1>1, <2>3, <2>4 DEF GoneFrom
  <2>9. Within(t.queue, t.attempt)
    BY <1>0, <2>3, <2>4, SMT DEF Good, Within
  <2> QED
    BY <1>0, <2>1, <2>4, <2>5, <2>6, <2>7, <2>8, <2>9, SMT DEF Good
<1>2. CASE ~(s.queue # <<>> /\ s.attempt > cfg.retries)
  <2>1. GetNext(s) = s
    BY <1>2 DEF GetNext
  <2>2. s.attempt \in Nat
    BY DEF StateType
  <2>3. GoneFrom(s, s.gone)
    BY DEF GoneFrom
  <2> QED
    BY <1>0, <1>2, <2>1, <2>2, <2>3, SMT
<1> QED
  BY <1>1, <1>2

\* markProcessed(true)
LEMMA PublishedGood ==
    ASSUME NEW s \in StateType, NEW n \in 0..MaxMessages, Good(s, n),
           s.queue # <<>>
    PROVE  /\ Published(s) \in StateType /\ Good(Published(s), n)
           /\ Published(s).gone = s.gone
           /\ Sent(s.published, Published(s).published, n)
<1>0. \A c \in Configs : c.retries \in Nat /\ c.depth \in Nat
  BY MqttQueueAssumption DEF ConfigType
<1> DEFINE f == IF s.failures > 0 THEN s.failures - 1 ELSE 0
           t == [s EXCEPT !.queue = Tail(@), !.attempt = 0, !.netTries = 0,
                          !.published = @ \cup {Head(s.queue)},
                          !.failures = f]
<1>1. Published(s) = t
  BY DEF Published
<1>2. s.queue \in Seq(Messages) /\ s.tries \in [Messages -> Nat]
        /\ s.attempt \in Nat /\ s.published \in SUBSET Messages
        /\ s.heirs \in SUBSET Messages
        /\ s.failures \in 0..(Threshold + 1)
  BY DEF StateType
<1>3. /\ Head(s.queue) \in Messages /\ Tail(s.queue) \in Seq(Messages)
      /\ Len(s.queue) \in Nat /\ Len(Tail(s.queue)) = Len(s.queue) - 1
  BY <1>2, PopFront
<1>4. /\ t.queue = Tail(s.queue) /\ t.attempt = 0 /\ t.gone = s.gone
      /\ t.published = s.published \cup {Head(s.queue)}
      /\ t.tries = s.tries /\ t.heirs = s.heirs
  BY DEF StateType
<1>5. f \in 0..(Threshold + 1)
  BY <1>2, MqttQueueAssumption, SMT
<1> HIDE DEF f
<1>6. t \in StateType
  BY <1>2, <1>3, <1>5 DEF StateType
<1> HIDE DEF t
<1>7. /\ InOrder(t.queue, t.published, n)
      /\ Head(s.queue) \in 1..n
      /\ \A m \in s.published : m < Head(s.queue)
  <2>1. InOrder(s.queue, s.published, n)
    BY DEF Good
  <2>2. /\ InOrder(Tail(s.queue), s.published \cup {Head(s.queue)}, n)
        /\ Head(s.queue) \in 1..n
        /\ \A m \in s.published : m < Head(s.queue)
    BY <1>2, <2>1, InOrderPop
  <2> QED
    BY <1>4, <2>2
<1>8. Counted(t.queue, t.attempt, t.tries, t.heirs, n)
  BY <1>2, <1>4, CountedPop DEF Good
<1>9. Within(t.queue, t.attempt)
  BY <1>0, <1>3, <1>4, SMT DEF Good, Within
<1>10. Good(t, n)
  BY <1>7, <1>8, <1>9, Zenon DEF Good
<1>11. Sent(s.published, t.published, n)
  BY <1>4, <1>7 DEF Sent
<1> QED
  BY <1>1, <1>4, <1>6, <1>10, <1>11

\* markProcessed(false)
LEMMA RefusedGood ==
    ASSUME NEW s \in StateType, NEW n \in 0..MaxMessages, Good(s, n),
           s.queue # <<>>, cfg \in Configs, s.attempt <= cfg.retries,
           NEW stays \in BOOLEAN
    PROVE  /\ Refused(s, stays) \in StateType
           /\ Good(Refused(s, stays), n)
           /\ Refused(s, stays).published = s.published
           /\ Refused(s, stays).gone = s.gone
<1> DEFINE h == Head(s.queue)
           u == OneMore(s.tries, h)
           o == IF net THEN s.netTries + 1 ELSE s.netTries
           t == [s EXCEPT !.attempt = @ + 1, !.tries = u,
                          !.netTries = o, !.online = stays]
<1>0. cfg.retries \in Nat
  BY MqttQueueAssumption DEF ConfigType
<1>1. Refused(s, stays) = t
  BY DEF Refused
<1>2. s.queue \in Seq(Messages) /\ s.tries \in [Messages -> Nat]
        /\ s.netTries \in Nat
        /\ s.attempt \in Nat /\ s.published \in SUBSET Messages
        /\ s.gone \in SUBSET Messages /\ s.heirs \in SUBSET Messages
  BY DEF StateType
<1>3. /\ u \in [Messages -> Nat]
      /\ Counted(s.queue, s.attempt + 1, u, s.heirs, n)
  BY <1>2, CountedRefused DEF Good
<1>4. o \in Nat
  BY <1>2, SMT
<1> HIDE DEF u, o
<1>5. s.attempt + 1 \in Nat /\ s.attempt + 1 <= cfg.retries + 1
  BY <1>0, <1>2, SMT
<1>6. /\ t.queue = s.queue /\ t.attempt = s.attempt + 1 /\ t.gone = s.gone
      /\ t.published = s.published /\ t.tries = u /\ t.heirs = s.heirs
  BY DEF StateType
<1>7. t \in StateType
  BY <1>2, <1>3, <1>4, <1>5 DEF StateType
<1> HIDE DEF t
<1>8. Within(t.queue, t.attempt)
  BY <1>5, <1>6 DEF Good, Within
<1>9. Good(t, n)
  BY <1>3, <1>6, <1>8, Zenon DEF Good
<1> QED
  BY <1>1, <1>6, <1>7, <1>9

\* Whatever a run does.
LEMMA ProcessedGood ==
    ASSUME NEW s \in StateType, NEW n \in 0..MaxMessages, Good(s, n),
           cfg \in Configs, NEW t \in Processed(s)
    PROVE  /\ t \in StateType /\ Good(t, n)
           /\ Sent(s.published, t.published, n)
           /\ GoneFrom(s, t.gone)
<1> DEFINE next == GetNext(s)
<1>1. /\ next \in StateType /\ Good(next, n)
      /\ next.published = s.published
      /\ GoneFrom(s, next.gone)
      /\ next.queue # <<>> => next.attempt <= cfg.retries
  BY GetNextGood
<1>2. next.online \in BOOLEAN
  BY <1>1 DEF StateType
<1>3. \/ t = next
      \/ /\ next.queue # <<>>
         /\ \E stays \in BOOLEAN : t = Refused(next, stays)
      \/ next.queue # <<>> /\ t = Published(next)
  BY <1>2, Zenon DEF Processed
<1> HIDE DEF next
<1>4. CASE t = next
  BY <1>1, <1>4 DEF Sent
<1>5. CASE /\ next.queue # <<>>
           /\ \E stays \in BOOLEAN : t = Refused(next, stays)
  <2>1. PICK stays \in BOOLEAN : t = Refused(next, stays)
    BY <1>5
  <2>2. /\ t \in StateType /\ Good(t, n)
        /\ t.published = next.published /\ t.gone = next.gone
    BY <1>1, <1>5, <2>1, RefusedGood
  <2> QED
    BY <1>1, <2>2 DEF Sent
<1>6. CASE next.queue # <<>> /\ t = Published(next)
  <2>1. /\ t \in StateType /\ Good(t, n) /\ t.gone = next.gone
        /\ Sent(next.published, t.published, n)
    BY <1>1, <1>6, PublishedGood
  <2> QED
    BY <1>1, <2>1
<1> QED
  BY <1>3, <1>4, <1>5, <1>6

-----------------------------------------------------------------------------
\* What is left when the k front messages are popped.
LEMMA DropFront ==
    ASSUME NEW S, NEW q \in Seq(S), NEW k \in 0..Len(q)
    PROVE  /\ SubSeq(q, k + 1, Len(q)) \in Seq(S)
           /\ Len(SubSeq(q, k + 1, Len(q))) = Len(q) - k
           /\ \A i \in 1..(Len(q) - k) : SubSeq(q, k + 1, Len(q))[i] = q[i + k]
<1>1. Len(q) \in Nat
  BY LenProperties
<1>2. \A i \in (k + 1)..Len(q) : q[i] \in S
  BY <1>1, ElementOfSeq, SMT
<1> QED
  BY <1>1, <1>2, SubSeqProperties, SMT

\* Where an element is found then.
LEMMA Shifted ==
    ASSUME NEW l \in Nat, NEW k \in 0..l,
           NEW i \in 1..(l - k + 1), i # l - k + 1
    PROVE  i \in 1..(l - k) /\ i + k \in 1..l /\ i < l - k + 1
BY SMT

\* r is q without its k front messages, and with the next one that is handed
\* over behind it; h says which messages inherit attempts.
LEMMA QueuedInOrder ==
    ASSUME NEW q \in Seq(Messages), NEW p \in SUBSET Messages,
           NEW n \in 0..MaxMessages, InOrder(q, p, n),
           NEW k \in 0..Len(q), NEW r \in Seq(Messages),
           Len(r) = Len(q) - k + 1, r[Len(q) - k + 1] = n + 1,
           \A i \in 1..(Len(q) - k) : r[i] = q[i + k]
    PROVE  InOrder(r, p, n + 1)
<1>1. Len(q) \in Nat /\ Len(r) \in Nat /\ k \in Nat
  BY LenProperties, SMT
<1>2. \A m \in Messages : m \in Int
  BY SMT DEF Messages
<1>3. \A i \in 1..Len(q) : q[i] \in Int /\ q[i] <= n
  BY <1>2, ElementOfSeq DEF InOrder
<1>4. \A i \in 1..Len(r) :
         \/ i = Len(r) /\ r[i] = n + 1
         \/ i < Len(r) /\ i + k \in 1..Len(q) /\ r[i] = q[i + k]
  <2> SUFFICES ASSUME NEW i \in 1..Len(r), i # Len(r)
               PROVE  i < Len(r) /\ i + k \in 1..Len(q) /\ r[i] = q[i + k]
    OBVIOUS
  <2>1. i \in 1..(Len(q) - k + 1) /\ i # Len(q) - k + 1
    OBVIOUS
  <2>2. i \in 1..(Len(q) - k) /\ i + k \in 1..Len(q) /\ i < Len(q) - k + 1
    BY <1>1, <2>1, Shifted
  <2> QED
    BY <2>2
<1>5. \A i, j \in 1..Len(r) : i < j => r[i] < r[j]
  <2> SUFFICES ASSUME NEW i \in 1..Len(r), NEW j \in 1..Len(r), i < j
               PROVE  r[i] < r[j]
    OBVIOUS
  <2>1. i + k \in 1..Len(q) /\ r[i] = q[i + k]
    BY <1>1, <1>4, SMT
  <2>2. CASE r[j] = n + 1
    BY <1>3, <2>1, <2>2, SMT
  <2>3. CASE j + k \in 1..Len(q) /\ r[j] = q[j + k]
    <3>1. i + k < j + k
      BY <1>1, SMT
    <3>2. q[i + k] < q[j + k]
      BY <2>1, <2>3, <3>1, Zenon DEF InOrder
    <3> QED
      BY <2>1, <2>3, <3>2
  <2> QED
    BY <1>4, <2>2, <2>3
<1>6. \A i \in 1..Len(r) : r[i] <= n + 1
  BY <1>3, <1>4, SMT
<1>7. \A m \in p : m \in Int /\ m <= n
  BY <1>2 DEF InOrder
<1>8. \A m \in p : m <= n + 1
  BY <1>7, SMT
<1>9. \A m \in p : \A i \in 1..Len(r) : m < r[i]
  <2> SUFFICES ASSUME NEW m \in p, NEW i \in 1..Len(r) PROVE m < r[i]
    OBVIOUS
  <2>1. CASE r[i] = n + 1
    BY <1>7, <2>1, SMT
  <2>2. CASE i + k \in 1..Len(q) /\ r[i] = q[i + k]
    BY <2>2 DEF InOrder
  <2> QED
    BY <1>4, <2>1, <2>2
<1> QED
  BY <1>5, <1>6, <1>8, <1>9, Zenon DEF InOrder

LEMMA QueuedCounted ==
    ASSUME NEW q \in Seq(Messages), NEW a \in Nat,
           NEW t \in [Messages -> Nat], NEW h \in SUBSET Messages,
           NEW n \in 0..MaxMessages, n < MaxMessages, Counted(q, a, t, h, n),
           NEW k \in 0..Len(q), NEW r \in Seq(Messages),
           Len(r) = Len(q) - k + 1, r[Len(q) - k + 1] = n + 1,
           \A i \in 1..(Len(q) - k) : r[i] = q[i + k],
           NEW g, h \subseteq g, k = 0 \/ a = 0 \/ r[1] \in g
    PROVE  Counted(r, a, t, g, n + 1)
<1>1. Len(q) \in Nat /\ Len(r) \in Nat /\ k \in Nat /\ Len(r) > 0
  BY LenProperties, SMT
<1>2. n + 1 \in Messages
  BY MqttQueueAssumption, SMT DEF Messages
<1>3. t[n + 1] = 0
  BY <1>2, SMT DEF Counted
<1>4. \A i \in 1..Len(r) :
         \/ i = Len(r) /\ r[i] = n + 1
         \/ i + k \in 1..Len(q) /\ r[i] = q[i + k]
  <2> SUFFICES ASSUME NEW i \in 1..Len(r), i # Len(r)
               PROVE  i + k \in 1..Len(q) /\ r[i] = q[i + k]
    OBVIOUS
  <2>1. i \in 1..(Len(q) - k + 1) /\ i # Len(q) - k + 1
    OBVIOUS
  <2>2. i \in 1..(Len(q) - k) /\ i + k \in 1..Len(q) /\ i < Len(q) - k + 1
    BY <1>1, <2>1, Shifted
  <2> QED
    BY <2>2
<1>5. \A i \in 1..Len(r) : i + k > 1 => t[r[i]] = 0
  <2> SUFFICES ASSUME NEW i \in 1..Len(r), i + k > 1 PROVE t[r[i]] = 0
    OBVIOUS
  <2>1. CASE r[i] = n + 1
    BY <1>3, <2>1
  <2>2. CASE i + k \in 1..Len(q) /\ r[i] = q[i + k]
    <3>1. i + k \in 2..Len(q)
      BY <1>1, <2>2, SMT
    <3> QED
      BY <2>2, <3>1 DEF Counted
  <2> QED
    BY <1>4, <2>1, <2>2
<1>6. \A i \in 2..Len(r) : t[r[i]] = 0
  <2> SUFFICES ASSUME NEW i \in 2..Len(r) PROVE t[r[i]] = 0
    OBVIOUS
  <2>1. i \in 1..Len(r) /\ i + k > 1
    BY <1>1, SMT
  <2> QED
    BY <1>5, <2>1
<1>7. t[r[1]] = a \/ r[1] \in g
  <2>1. 1 \in 1..Len(r)
    BY <1>1, SMT
  <2>2. CASE r[1] \in g
    BY <2>2
  <2>3. CASE k # 0 /\ a = 0
    <3>1. 1 + k > 1
      BY <1>1, <2>3, SMT
    <3> QED
      BY <1>5, <2>1, <2>3, <3>1
  <2>4. CASE k = 0
    <3>1. CASE q = <<>>
      <4>1. r[1] = n + 1
        BY <2>4, <3>1, EmptySeq, SMT
      <4> QED
        BY <1>3, <3>1, <4>1 DEF Counted
    <3>2. CASE q # <<>>
      <4>1. 1 \in 1..(Len(q) - k) /\ 1 + k = 1
        BY <2>4, <3>2, PopFront, SMT
      <4>2. r[1] = q[1]
        BY <4>1
      <4> QED
        BY <3>2, <4>2 DEF Counted
    <3> QED
      BY <3>1, <3>2
  <2> QED
    BY <2>2, <2>3, <2>4
<1>8. \A m \in Messages : m > n + 1 => t[m] = 0
  BY SMT DEF Counted, Messages
<1>9. r # <<>>
  BY <1>1, EmptySeq
<1> QED
  BY <1>6, <1>7, <1>8, <1>9, Zenon DEF Counted

\* A message that is handed over, but not queued.
LEMMA RefusedMessageGood ==
    ASSUME NEW s \in StateType, NEW n \in 0..MaxMessages, n < MaxMessages,
           Good(s, n)
    PROVE  Good(s, n + 1)
<1>1. s.queue \in Seq(Messages) /\ s.published \in SUBSET Messages
  BY DEF StateType
<1>2. \A m \in Messages : m \in Int
  BY SMT DEF Messages
<1>3. \A i \in 1..Len(s.queue) : s.queue[i] \in Int /\ s.queue[i] <= n
  BY <1>1, <1>2, ElementOfSeq DEF Good, InOrder
<1>4. \A m \in s.published : m \in Int /\ m <= n
  BY <1>1, <1>2 DEF Good, InOrder
<1>5. InOrder(s.queue, s.published, n + 1)
  BY <1>3, <1>4, SMT DEF Good, InOrder
<1>6. Counted(s.queue, s.attempt, s.tries, s.heirs, n + 1)
  BY <1>2, SMT DEF Good, Counted
<1> QED
  BY <1>5, <1>6, Zenon DEF Good

\* addToQueue(), whatever the settings in use.
LEMMA AddedGood ==
    ASSUME NEW s \in StateType, NEW n \in 0..MaxMessages, n < MaxMessages,
           Good(s, n), cfg \in Configs, NEW t \in AddedIfRoom(s, n + 1)
    PROVE  /\ t \in StateType /\ Good(t, n + 1)
           /\ t.published = s.published /\ t.gone = s.gone
           /\ t.online = s.online
<1>1. /\ s.queue \in Seq(Messages) /\ s.tries \in [Messages -> Nat]
      /\ s.attempt \in Nat /\ s.published \in SUBSET Messages
      /\ s.heirs \in SUBSET Messages /\ s.netTries \in Nat
  BY DEF StateType
<1>2. n + 1 \in Messages
  BY MqttQueueAssumption, SMT DEF Messages
<1>3. Len(s.queue) \in Nat /\ cfg.depth \in Nat
  BY <1>1, LenProperties, MqttQueueAssumption DEF ConfigType
<1>4. Len(s.queue) < cfg.depth /\ t \in AddToQueue(s, n + 1)
  BY DEF AddedIfRoom
<1>5. ASSUME NEW k \in 0..Len(s.queue), Len(s.queue) - k < cfg.depth,
             t = Evicted(s, k, n + 1)
      PROVE  /\ t \in StateType /\ Good(t, n + 1)
             /\ t.published = s.published /\ t.gone = s.gone
             /\ t.online = s.online
  <2> DEFINE kept == SubSeq(s.queue, k + 1, Len(s.queue))
             r == Append(kept, n + 1)
             g == IF k = 0 \/ s.attempt = 0 THEN s.heirs
                  ELSE s.heirs \cup {Head(r)}
             o == IF k = 0 THEN s.netTries ELSE 0
             u == [s EXCEPT !.queue = r, !.netTries = o, !.heirs = g]
  <2>1. t = u
    BY <1>5 DEF Evicted
  <2>2. /\ kept \in Seq(Messages) /\ Len(kept) = Len(s.queue) - k
        /\ \A i \in 1..(Len(s.queue) - k) : kept[i] = s.queue[i + k]
    BY <1>1, DropFront
  <2> HIDE DEF kept
  <2>13. kept \in Seq(Messages)
    BY <2>2
  <2>3. /\ r \in Seq(Messages) /\ r # <<>> /\ Len(r) = Len(s.queue) - k + 1
        /\ r[Len(s.queue) - k + 1] = n + 1
        /\ \A i \in 1..(Len(s.queue) - k) : r[i] = s.queue[i + k]
    <3>1. /\ r \in Seq(Messages) /\ r # <<>> /\ Len(r) = Len(kept) + 1
          /\ r[Len(kept) + 1] = n + 1
          /\ \A i \in 1..Len(kept) : r[i] = kept[i]
      BY <1>2, <2>13, PushBack
    <3> HIDE DEF r
    <3> QED
      BY <2>2, <3>1
  <2> HIDE DEF r
  <2>4. Head(r) = r[1] /\ Head(r) \in Messages
    BY <2>3, PopFront
  <2>5. /\ g \in SUBSET Messages /\ s.heirs \subseteq g
        /\ k = 0 \/ s.attempt = 0 \/ r[1] \in g
    BY <1>1, <2>4
  <2>6. o \in Nat
    BY <1>1
  <2> HIDE DEF g, o
  <2>7. /\ u.queue = r /\ u.heirs = g /\ u.attempt = s.attempt
        /\ u.tries = s.tries /\ u.published = s.published /\ u.gone = s.gone
        /\ u.online = s.online
    BY DEF StateType
  <2>8. u \in StateType
    BY <2>3, <2>5, <2>6 DEF StateType
  <2> HIDE DEF u
  <2>9. InOrder(r, s.published, n + 1)
    BY <1>1, <2>3, QueuedInOrder DEF Good
  <2>10. Counted(r, s.attempt, s.tries, g, n + 1)
    BY <1>1, <2>3, <2>5, QueuedCounted DEF Good
  <2>11. Len(r) <= cfg.depth
    BY <1>3, <1>5, <2>3, SMT
  <2>12. Within(r, s.attempt)
    BY <2>11 DEF Good, Within
  <2> QED
    BY <2>1, <2>7, <2>8, <2>9, <2>10, <2>12, Zenon DEF Good
<1>6. CASE t = s
  BY <1>6, RefusedMessageGood
<1>7. CASE t = [s EXCEPT !.queue = Append(@, n + 1)]
  <2> DEFINE r == Append(s.queue, n + 1)
             u == [s EXCEPT !.queue = r]
  <2>1. t = u
    BY <1>7
  <2>2. /\ r \in Seq(Messages) /\ Len(r) = Len(s.queue) + 1
        /\ r[Len(s.queue) + 1] = n + 1
        /\ \A i \in 1..Len(s.queue) : r[i] = s.queue[i]
    BY <1>1, <1>2, PushBack
  <2> HIDE DEF r
  <2>3. /\ u.queue = r /\ u.heirs = s.heirs /\ u.attempt = s.attempt
        /\ u.tries = s.tries /\ u.published = s.published /\ u.gone = s.gone
        /\ u.online = s.online
    BY DEF StateType
  <2>4. u \in StateType
    BY <2>2 DEF StateType
  <2> HIDE DEF u
  <2>5. /\ 0 \in 0..Len(s.queue) /\ Len(r) = Len(s.queue) - 0 + 1
        /\ r[Len(s.queue) - 0 + 1] = n + 1
        /\ \A i \in 1..(Len(s.queue) - 0) : r[i] = s.queue[i + 0]
    BY <1>3, <2>2, SMT
  <2>6. InOrder(r, s.published, n + 1)
    BY <1>1, <2>2, <2>5, QueuedInOrder DEF Good
  <2>7. Counted(r, s.attempt, s.tries, s.heirs, n + 1)
    BY <1>1, <2>2, <2>5, QueuedCounted DEF Good
  <2>8. Len(r) <= cfg.depth
    BY <1>3, <1>4, <2>2, SMT
  <2>9. Within(r, s.attempt)
    BY <2>8 DEF Good, Within
  <2> QED
    BY <2>1, <2>3, <2>4, <2>6, <2>7, <2>9, Zenon DEF Good
<1> QED
  BY <1>4, <1>5, <1>6, <1>7, Zenon DEF AddToQueue

\* What a run, or a message that is handed over, makes of the queue.
LEMMA BecomeGood ==
    ASSUME NEW s \in StateType, NEW n \in Nat, Good(s, n), Become(s)
    PROVE  State' \in StateType /\ Good(State', n)
<1> DEFINE t == [m \in Messages |->
                   IF m \in InQueue(s.queue) THEN s.tries[m] ELSE 0]
           h == s.heirs \cap InQueue(s.queue)
<1>1. /\ s.queue \in Seq(Messages) /\ s.tries \in [Messages -> Nat]
      /\ s.heirs \in SUBSET Messages
  BY DEF StateType
<1>2. t \in [Messages -> Nat] /\ h \in SUBSET Messages
  BY <1>1
<1>3. /\ queue' = s.queue /\ attempt' = s.attempt /\ published' = s.published
      /\ gone' = s.gone /\ tries' = t /\ netTries' = s.netTries /\ heirs' = h
      /\ online' = s.online /\ failures' = s.failures
  BY DEF Become
<1>4. \A i \in 1..Len(s.queue) :
         s.queue[i] \in Messages /\ s.queue[i] \in InQueue(s.queue)
  BY <1>1, ElementOfSeq DEF InQueue
<1>5. \A i \in 1..Len(s.queue) : t[s.queue[i]] = s.tries[s.queue[i]]
  BY <1>4
<1>6. \A m \in Messages : t[m] = s.tries[m] \/ t[m] = 0
  OBVIOUS
<1>7. \A i \in 1..Len(s.queue) : s.queue[i] \in s.heirs => s.queue[i] \in h
  BY <1>4
<1> HIDE DEF t, h
<1>8. State' \in StateType
  BY <1>2, <1>3 DEF State, StateType
<1>9. \A i \in 2..Len(s.queue) : i \in 1..Len(s.queue)
  BY <1>1, LenProperties, SMT
<1>10. s.queue # <<>> => 1 \in 1..Len(s.queue)
  BY <1>1, PopFront, SMT
<1>11. Counted(s.queue, s.attempt, t, h, n)
  BY <1>5, <1>6, <1>7, <1>9, <1>10, Zenon DEF Good, Counted
<1>12. /\ State'.queue = s.queue /\ State'.attempt = s.attempt
       /\ State'.published = s.published /\ State'.tries = t
       /\ State'.heirs = h
  BY <1>3 DEF State
<1> QED
  BY <1>8, <1>11, <1>12, Zenon DEF Good

-----------------------------------------------------------------------------
\* The connection.
ConnectionType ==
    [online : BOOLEAN, known : BOOLEAN, failures : 0..(Threshold + 1),
     connects : 0..MaxConnects, announced : Nat]

\* A connection that is there has been announced.
Sound(c) == c \in ConnectionType /\ (c.online => c.known)

\* The events between two states of the connection: see AnnouncedOnce.
Told(c, d) ==
    /\ d.announced - c.announced \in 0..(d.connects - c.connects)
    /\ d.online /\ ~c.online => d.announced = c.announced + 1

\* Nothing to tell, and no connection is made.
Quiet(c, d) ==
    /\ d.announced = c.announced /\ d.connects = c.connects
    /\ d.online => c.online

LEMMA QuietTold ==
    ASSUME NEW c \in ConnectionType, NEW d, Quiet(c, d) PROVE Told(c, d)
<1>1. c.announced \in Nat /\ c.connects \in Int
  BY MqttQueueAssumption, SMT DEF ConnectionType
<1>2. c.announced - c.announced \in 0..(c.connects - c.connects)
  BY <1>1, SMT
<1> QED
  BY <1>2, Zenon DEF Quiet, Told

\* updateMQTTclient_connected() has no more to tell when the connection that is
\* there was announced.
LEMMA UpdateSound ==
    ASSUME NEW c, Sound(c)
    PROVE  /\ Sound(Update(c)) /\ Quiet(c, Update(c))
           /\ Update(c).online = c.online
           /\ ~c.online => ~Update(c).known
<1>1. c \in ConnectionType /\ (c.online => c.known)
  BY DEF Sound
<1>2. CASE c.known = c.online
  BY <1>1, <1>2 DEF Update, Sound, Quiet
<1>3. CASE c.known # c.online
  <2>0. c.known \in BOOLEAN /\ c.online \in BOOLEAN
    BY <1>1 DEF ConnectionType
  <2>1. c.known /\ ~c.online
    <3>1. \/ c.known = TRUE /\ c.online = TRUE
          \/ c.known = TRUE /\ c.online = FALSE
          \/ c.known = FALSE /\ c.online = TRUE
          \/ c.known = FALSE /\ c.online = FALSE
      BY <2>0, Zenon
    <3>2. ~(c.known = TRUE /\ c.online = TRUE)
      BY <1>3, Zenon
    <3>3. ~(c.known = FALSE /\ c.online = FALSE)
      BY <1>3, Zenon
    <3>4. ~(c.known = FALSE /\ c.online = TRUE)
      BY <1>1, Zenon
    <3> QED
      BY <3>1, <3>2, <3>3, <3>4, Zenon
  <2>2. Update(c) = [c EXCEPT !.known = FALSE]
    BY <1>3, <2>1 DEF Update
  <2> QED
    BY <1>1, <2>1, <2>2 DEF ConnectionType, Sound, Quiet
<1> QED
  BY <1>2, <1>3

\* The connection is closed.
LEMMA OffSound ==
    ASSUME NEW c, Sound(c)
    PROVE  LET off == [c EXCEPT !.online = FALSE] IN
           Sound(off) /\ Quiet(c, off) /\ ~off.online
<1>1. c \in ConnectionType
  BY DEF Sound
<1> QED
  BY <1>1 DEF ConnectionType, Sound, Quiet

LEMMA QuietTransitive ==
    ASSUME NEW c, NEW d, NEW e, Quiet(c, d), Quiet(d, e) PROVE Quiet(c, e)
BY DEF Quiet

\* MQTTDisconnect(), and what MQTTConnect() begins with.
LEMMA DisconnectSound ==
    ASSUME NEW c, Sound(c)
    PROVE  LET off == Update([c EXCEPT !.online = FALSE]) IN
           Sound(off) /\ Quiet(c, off) /\ ~off.online /\ ~off.known
<1> DEFINE d == [c EXCEPT !.online = FALSE]
<1>1. Sound(d) /\ Quiet(c, d) /\ ~d.online
  BY OffSound
<1> HIDE DEF d
<1>2. /\ Sound(Update(d)) /\ Quiet(d, Update(d))
      /\ ~Update(d).online /\ ~Update(d).known
  BY <1>1, UpdateSound
<1>3. Quiet(c, Update(d))
  BY <1>1, <1>2, QuietTransitive
<1> QED
  BY <1>2, <1>3 DEF d

LEMMA ConnectFailedSound ==
    ASSUME NEW c, Sound(c)
    PROVE  Sound(ConnectFailed(c)) /\ Quiet(c, ConnectFailed(c))
<1> DEFINE off == Update([c EXCEPT !.online = FALSE])
           more == [off EXCEPT !.failures = CountFailure(@)]
<1>1. Sound(off) /\ Quiet(c, off) /\ ~off.online /\ ~off.known
  BY DisconnectSound
<1> HIDE DEF off
<1>2. off.failures \in 0..(Threshold + 1) /\ off \in ConnectionType
  BY <1>1 DEF Sound, ConnectionType
<1>3. CountFailure(off.failures) \in 0..(Threshold + 1)
  BY <1>2, MqttQueueAssumption, SMT DEF CountFailure
<1>4. Sound(more) /\ Quiet(off, more)
  BY <1>1, <1>2, <1>3 DEF Sound, ConnectionType, Quiet
<1> HIDE DEF more
<1>5. Sound(Update(more)) /\ Quiet(more, Update(more))
  BY <1>4, UpdateSound
<1>6. Quiet(c, Update(more))
  BY <1>1, <1>4, <1>5, QuietTransitive
<1> QED
  BY <1>5, <1>6 DEF ConnectFailed, more, off

\* A connection is made: the event is told unless it breaks first.
LEMMA SubscribedSound ==
    ASSUME NEW c, Sound(c), c.connects < MaxConnects, NEW stays \in BOOLEAN
    PROVE  LET d == Subscribed(c, stays) IN
           /\ Sound(d) /\ d.online = stays
           /\ d.connects = c.connects + 1
           /\ d.announced = IF stays THEN c.announced + 1 ELSE c.announced
<1> DEFINE off == Update([c EXCEPT !.online = FALSE])
           f == IF off.failures > 0 THEN off.failures - 1 ELSE 0
           connected == [off EXCEPT !.online = TRUE, !.connects = @ + 1,
                                    !.failures = IF @ > 0 THEN @ - 1 ELSE 0]
           told == [connected EXCEPT !.online = stays]
<1>1. c \in ConnectionType /\ c.connects \in 0..MaxConnects
        /\ c.announced \in Nat
  BY DEF Sound, ConnectionType
<1>2. Sound(off) /\ Quiet(c, off) /\ ~off.online /\ ~off.known
  BY DisconnectSound
<1> HIDE DEF off
<1>3. /\ off \in ConnectionType /\ off.failures \in 0..(Threshold + 1)
      /\ off.known = FALSE
      /\ off.connects = c.connects /\ off.announced = c.announced
  BY <1>2, Zenon DEF Sound, ConnectionType, Quiet
<1>4. f \in 0..(Threshold + 1)
  BY <1>3, MqttQueueAssumption, SMT
<1>5. connected = [off EXCEPT !.online = TRUE, !.connects = c.connects + 1,
                              !.failures = f]
  BY <1>3
<1> HIDE DEF f
<1>6. c.connects + 1 \in 0..MaxConnects /\ c.announced + 1 \in Nat
  BY <1>1, MqttQueueAssumption, SMT
<1>7. /\ connected \in ConnectionType /\ connected.known = FALSE
      /\ connected.connects = c.connects + 1
      /\ connected.announced = c.announced
  BY <1>3, <1>4, <1>5, <1>6 DEF ConnectionType
<1> HIDE DEF connected
<1>8. /\ told \in ConnectionType /\ told.known = FALSE /\ told.online = stays
      /\ told.connects = c.connects + 1 /\ told.announced = c.announced
  BY <1>7 DEF ConnectionType
<1> HIDE DEF told
<1>9. Subscribed(c, stays) = Update(told)
  BY DEF Subscribed, told, connected, off
<1>10. CASE stays
  <2>1. Update(told) = [told EXCEPT !.known = TRUE, !.announced = @ + 1]
    BY <1>8, <1>10 DEF Update
  <2> QED
    BY <1>6, <1>8, <1>9, <1>10, <2>1 DEF ConnectionType, Sound
<1>11. CASE ~stays
  <2>1. Update(told) = told
    BY <1>8, <1>11 DEF Update
  <2> QED
    BY <1>8, <1>9, <1>11, <2>1 DEF Sound
<1> QED
  BY <1>10, <1>11

\* A run of runPeriodicalMQTT().
LEMMA PeriodicalSound ==
    ASSUME NEW c, Sound(c), NEW d \in Periodical(c)
    PROVE  Sound(d) /\ Told(c, d)
<1> DEFINE noted == Update(c)
           off == Update([c EXCEPT !.online = FALSE])
<1>1. /\ c \in ConnectionType /\ c.connects \in 0..MaxConnects
      /\ c.announced \in Nat
  BY DEF Sound, ConnectionType
<1>2. Sound(noted) /\ Quiet(c, noted)
  BY UpdateSound
<1>3. Sound(off) /\ Quiet(c, off)
  BY DisconnectSound
<1>4. Sound(ConnectFailed(noted)) /\ Quiet(c, ConnectFailed(noted))
  BY <1>2, ConnectFailedSound, QuietTransitive
<1>5. Quiet(c, c)
  BY DEF Quiet
<1>6. ASSUME c.connects < MaxConnects, NEW e \in Connected(noted),
             d = Update(e)
      PROVE  Sound(d) /\ Told(c, d)
  <2> DEFINE sub == Subscribed(noted, TRUE)
             lost == Subscribed(noted, FALSE)
             broken == [sub EXCEPT !.online = FALSE]
  <2>1. noted.connects = c.connects /\ noted.announced = c.announced
    BY <1>2 DEF Quiet
  <2>2. /\ Sound(sub) /\ sub.connects = c.connects + 1
        /\ sub.announced = c.announced + 1
    BY <1>2, <1>6, <2>1, SubscribedSound
  <2>3. /\ Sound(lost) /\ ~lost.online /\ lost.connects = c.connects + 1
        /\ lost.announced = c.announced
    BY <1>2, <1>6, <2>1, SubscribedSound
  <2>4. e = sub \/ e = lost \/ e = broken
    BY <1>6 DEF Connected
  <2> HIDE DEF sub, lost
  <2>5. /\ Sound(broken) /\ broken.connects = c.connects + 1
        /\ broken.announced = c.announced + 1
    BY <2>2, OffSound DEF Quiet
  <2> HIDE DEF broken
  <2>6. /\ Sound(e) /\ e.connects = c.connects + 1
        /\ \/ e.announced = c.announced + 1
           \/ e.announced = c.announced /\ ~e.online
    BY <2>2, <2>3, <2>4, <2>5
  <2>7. /\ Sound(d) /\ d.connects = e.connects /\ d.announced = e.announced
        /\ d.online = e.online
    BY <1>6, <2>6, UpdateSound DEF Quiet
  <2>8. d.announced - c.announced \in 0..(d.connects - c.connects)
    BY <1>1, <2>6, <2>7, SMT
  <2> QED
    BY <2>6, <2>7, <2>8 DEF Told
<1> HIDE DEF noted, off
<1>7. \/ d = noted \/ d = c \/ d = ConnectFailed(noted) \/ d = off
      \/ /\ c.connects < MaxConnects
         /\ \E e \in Connected(noted) : d = Update(e)
  BY Zenon DEF Periodical, noted, off
<1> QED
  BY <1>1, <1>2, <1>3, <1>4, <1>5, <1>6, <1>7, QuietTold

-----------------------------------------------------------------------------
\* The variables.
Others ==
    /\ net \in BOOLEAN /\ enabled \in BOOLEAN /\ resets \in 0..MaxResets
    /\ cfg \in Configs

IInv ==
    /\ offered \in 0..MaxMessages /\ Others
    /\ State \in StateType /\ Good(State, offered)
    /\ Sound(Connection)

LEMMA InvImplies == IInv => TypeOK
<1> SUFFICES ASSUME IInv PROVE TypeOK
  OBVIOUS
<1>1. /\ queue \in Seq(Messages) /\ attempt \in Nat
      /\ Within(queue, attempt)
      /\ published \subseteq Messages /\ gone \subseteq Messages
      /\ heirs \subseteq Messages
      /\ tries \in [Messages -> Nat] /\ netTries \in Nat
  BY DEF IInv, State, StateType, Good
<1>2. /\ online \in BOOLEAN /\ known \in BOOLEAN
      /\ failures \in 0..(Threshold + 1)
      /\ connects \in 0..MaxConnects /\ announced \in Nat
  BY DEF IInv, Connection, ConnectionType, Sound
<1> QED
  BY <1>1, <1>2, Zenon DEF IInv, Others, Within, TypeOK

\* Any choice of configuration is one of those allowed.
LEMMA InitCfgsAllowed ==
    ASSUME NEW c \in Configs, NEW on, NEW d \in InitCfgs(c, on)
    PROVE  d \in Configs
BY DEF InitCfgs

LEMMA InvInit == Init => IInv
<1> SUFFICES ASSUME Init PROVE IInv
  OBVIOUS
<1> USE MqttQueueAssumption
<1>1. /\ 0 \in Nat /\ 0 \in 0..(Threshold + 1) /\ 0 \in 0..MaxMessages
      /\ 0 \in 0..MaxConnects /\ 0 \in 0..MaxResets
      /\ 0 <= DefaultCfg.depth /\ 0 <= DefaultCfg.retries + 1
  <2>1. DefaultCfg.depth \in Nat /\ DefaultCfg.retries \in Nat
    BY DEF ConfigType
  <2> QED
    BY <2>1, SMT
<1>2. offered \in 0..MaxMessages /\ Others
  BY <1>1, InitCfgsAllowed, Zenon DEF Init, Others
<1>3. queue \in Seq(Messages) /\ Len(queue) = 0
  BY EmptySeq DEF Init
<1>4. tries \in [Messages -> Nat] /\ netTries \in Nat
  BY <1>1 DEF Init
<1>5. State \in StateType
  BY <1>1, <1>3, <1>4 DEF Init, State, StateType
<1>6. /\ InOrder(queue, published, offered)
      /\ Counted(queue, attempt, tries, heirs, offered)
  BY <1>1, <1>3, SMT DEF Init, InOrder, Counted
<1>7. Within(queue, attempt)
  BY <1>1, <1>3 DEF Init, Within
<1>8. Good(State, offered)
  BY <1>6, <1>7 DEF State, Good
<1>9. Sound(Connection)
  BY <1>1 DEF Init, Connection, ConnectionType, Sound
<1> QED
  BY <1>2, <1>5, <1>8, <1>9 DEF IInv

\* A run does not bring the connection back.
LEMMA ProcessedOnline ==
    ASSUME NEW s \in StateType, NEW n \in 0..MaxMessages, Good(s, n),
           cfg \in Configs, NEW t \in Processed(s), t.online
    PROVE  s.online
<1> DEFINE next == GetNext(s)
<1>1. next \in StateType
  BY GetNextGood
<1>2. next.online = s.online
  BY DEF GetNext, StateType
<1>3. \/ t = next
      \/ \E stays \in {FALSE, next.online} : t = Refused(next, stays)
      \/ next.online /\ t = Published(next)
  BY Zenon DEF Processed
<1> HIDE DEF next
<1>4. \A stays : Refused(next, stays).online = stays
  BY <1>1 DEF Refused, StateType
<1>5. Published(next).online = next.online
  BY <1>1 DEF Published, StateType
<1> QED
  BY <1>2, <1>3, <1>4, <1>5

\* What a run, or a message that is handed over, leaves of the invariant.
LEMMA BecomeKeeps ==
    ASSUME IInv, NEW s \in StateType, Become(s), Good(s, offered'),
           s.online => online, offered' \in 0..MaxMessages,
           UNCHANGED <<known, cfg, net, enabled, resets, connects, announced>>
    PROVE  IInv'
<1>0. offered' \in Nat
  BY MqttQueueAssumption, SMT
<1>1. State' \in StateType /\ Good(State', offered')
  BY <1>0, BecomeGood
<1>2. /\ online' \in BOOLEAN /\ failures' \in 0..(Threshold + 1)
      /\ online' => online
  BY DEF Become, StateType
<1>3. Sound(Connection)'
  BY <1>2 DEF IInv, Connection, ConnectionType, Sound
<1>4. Others'
  BY DEF IInv, Others
<1> QED
  BY <1>1, <1>3, <1>4 DEF IInv

\* What a step that is not about messages leaves of it.
LEMMA ConnectionKeeps ==
    ASSUME IInv, UNCHANGED messages, Sound(Connection)', Others'
    PROVE  IInv'
<1>1. UNCHANGED <<queue, attempt, offered, published, tries, netTries,
                  gone, heirs>>
  BY DEF messages
<1>2. online' \in BOOLEAN /\ failures' \in 0..(Threshold + 1)
  BY DEF Sound, Connection, ConnectionType
<1>3. State' \in StateType
  BY <1>1, <1>2 DEF IInv, State, StateType
<1>4. Good(State', offered')
  BY <1>1 DEF IInv, State, Good
<1> QED
  BY <1>1, <1>3, <1>4 DEF IInv

\* What handing over a message amounts to.
PublishStep ==
    /\ offered < MaxMessages /\ offered' = offered + 1
    /\ \E s \in StateType :
         /\ Become(s) /\ Good(s, offered') /\ (s.online => online)
         /\ GoneFrom(State, s.gone) /\ Sent(published, s.published, offered)

LEMMA PublishCases == ASSUME IInv, MQTTpublish PROVE PublishStep
<1>1. /\ State \in StateType /\ Good(State, offered)
      /\ offered \in 0..MaxMessages /\ cfg \in Configs
      /\ State.published = published /\ State.online = online
  BY DEF IInv, State, Others
<1>2. offered < MaxMessages /\ offered' = offered + 1
  BY DEF MQTTpublish
<1>3. CASE \E s \in AddedIfRoom(State, offered') : Become(s)
  <2>1. PICK s \in AddedIfRoom(State, offered') : Become(s)
    BY <1>3
  <2>2. /\ s \in StateType /\ Good(s, offered')
        /\ s.published = published /\ s.gone = State.gone
        /\ s.online = online
    BY <1>1, <1>2, <2>1, AddedGood
  <2> QED
    BY <1>2, <2>1, <2>2 DEF PublishStep, GoneFrom, Sent
<1>4. CASE \E p \in Processed(State) :
             \E s \in {p} \cup AddedIfRoom(p, offered') : Become(s)
  <2>1. PICK p \in Processed(State) :
               \E s \in {p} \cup AddedIfRoom(p, offered') : Become(s)
    BY <1>4
  <2>2. PICK s \in {p} \cup AddedIfRoom(p, offered') : Become(s)
    BY <2>1
  <2>3. /\ p \in StateType /\ Good(p, offered)
        /\ Sent(published, p.published, offered)
        /\ GoneFrom(State, p.gone) /\ (p.online => online)
    BY <1>1, ProcessedGood, ProcessedOnline
  <2>4. /\ s \in StateType /\ Good(s, offered')
        /\ s.published = p.published /\ s.gone = p.gone
        /\ s.online = p.online
    <3>1. CASE s = p
      BY <1>1, <1>2, <2>3, <3>1, RefusedMessageGood
    <3>2. CASE s \in AddedIfRoom(p, offered')
      BY <1>1, <1>2, <2>3, <3>2, AddedGood
    <3> QED
      BY <2>2, <3>1, <3>2
  <2> QED
    BY <1>2, <2>2, <2>3, <2>4 DEF PublishStep
<1> QED
  BY <1>3, <1>4 DEF MQTTpublish

LEMMA InvStep == IInv /\ [Next]_vars => IInv'
<1> SUFFICES ASSUME IInv, [Next]_vars PROVE IInv'
  OBVIOUS
<1> USE MqttQueueAssumption
<1>1. CASE MQTTpublish
  <2>1. PublishStep
    BY <1>1, PublishCases
  <2>2. PICK s \in StateType :
          /\ Become(s) /\ Good(s, offered') /\ (s.online => online)
          /\ GoneFrom(State, s.gone) /\ Sent(published, s.published, offered)
    BY <2>1 DEF PublishStep
  <2>3. offered' \in 0..MaxMessages
    BY <1>1, SMT DEF MQTTpublish, IInv
  <2> QED
    BY <1>1, <2>2, <2>3, BecomeKeeps DEF MQTTpublish
<1>2. CASE ProcessMQTTdelayQueue
  <2>1. PICK s \in Processed(State) : Become(s)
    BY <1>2 DEF ProcessMQTTdelayQueue
  <2>2. s \in StateType /\ Good(s, offered) /\ (s.online => State.online)
    BY <2>1, ProcessedGood, ProcessedOnline DEF IInv, Others
  <2>3. State.online = online
    BY DEF State
  <2> QED
    BY <1>2, <2>1, <2>2, <2>3, BecomeKeeps DEF ProcessMQTTdelayQueue, IInv
<1>3. CASE RunPeriodicalMQTT
  <2>1. PICK c \in Periodical(Connection) :
          /\ online' = c.online /\ known' = c.known /\ failures' = c.failures
          /\ connects' = c.connects /\ announced' = c.announced
    BY <1>3 DEF RunPeriodicalMQTT
  <2>2. Sound(c)
    BY <2>1, PeriodicalSound DEF IInv
  <2>3. Connection' = c
    BY <2>1, <2>2 DEF Sound, Connection, ConnectionType
  <2>4. Others' /\ UNCHANGED messages
    BY <1>3 DEF RunPeriodicalMQTT, IInv, Others
  <2> QED
    BY <2>2, <2>3, <2>4, ConnectionKeeps
<1>4. CASE ConnectionLost
  <2>1. Sound(Connection)'
    BY <1>4
    DEF ConnectionLost, IInv, Connection, ConnectionType, Sound
  <2>2. Others' /\ UNCHANGED messages
    BY <1>4 DEF ConnectionLost, IInv, Others
  <2> QED
    BY <2>1, <2>2, ConnectionKeeps
<1>5. CASE GotIP
  <2>1. Sound(Connection)'
    BY <1>5 DEF GotIP, connection, IInv, Connection, ConnectionType, Sound
  <2>2. Others' /\ UNCHANGED messages
    BY <1>5 DEF GotIP, IInv, Others
  <2> QED
    BY <2>1, <2>2, ConnectionKeeps
<1>6. CASE NetworkLost
  <2>1. Sound(Connection)'
    BY <1>6
    DEF NetworkLost, IInv, connection, Connection, ConnectionType, Sound
  <2>2. Others' /\ UNCHANGED messages
    BY <1>6 DEF NetworkLost, IInv, Others
  <2> QED
    BY <2>1, <2>2, ConnectionKeeps
<1>7. CASE SaveName
  <2> DEFINE off == Update([Connection EXCEPT !.online = FALSE])
  <2>1. Sound(off) /\ Quiet(Connection, off)
    BY DisconnectSound DEF IInv
  <2>2. online' = off.online /\ known' = off.known
          /\ UNCHANGED <<failures, connects, announced>>
    BY <1>7 DEF SaveName
  <2> HIDE DEF off
  <2>3. Sound(Connection)'
    BY <2>1, <2>2 DEF IInv, Connection, ConnectionType, Sound
  <2>4. Others' /\ UNCHANGED messages
    BY <1>7 DEF SaveName, IInv, Others
  <2> QED
    BY <2>3, <2>4, ConnectionKeeps
<1>8. CASE SaveController
  <2>1. Sound(Connection)'
    BY <1>8
    DEF SaveController, IInv, connection, Connection, ConnectionType, Sound
  <2>2. Others' /\ UNCHANGED messages
    BY <1>8, InitCfgsAllowed DEF SaveController, IInv, Others
  <2> QED
    BY <2>1, <2>2, ConnectionKeeps
<1>9. CASE Reboot
  <2>1. /\ 0 \in 0..(Threshold + 1) /\ 0 \in Nat
        /\ 0 <= DefaultCfg.depth /\ 0 <= DefaultCfg.retries + 1
    <3>1. DefaultCfg.depth \in Nat /\ DefaultCfg.retries \in Nat
      BY DEF ConfigType
    <3> QED
      BY <3>1, SMT
  <2>2. /\ queue' \in Seq(Messages) /\ Len(queue') = 0 /\ queue' = <<>>
        /\ attempt' = 0 /\ online' = FALSE /\ failures' = 0
        /\ netTries' = 0 /\ heirs' = {} /\ tries' = [m \in Messages |-> 0]
        /\ UNCHANGED <<offered, published, gone>>
    BY <1>9, EmptySeq DEF Reboot
  <2>3. State' \in StateType
    BY <2>1, <2>2 DEF IInv, State, StateType
  <2>4. InOrder(queue, published, offered)
    BY DEF IInv, Good, State
  <2>5. InOrder(queue', published, offered)
    BY <2>2, <2>4, SMT DEF InOrder
  <2>6. Counted(queue', 0, tries', {}, offered)
    BY <2>2, SMT DEF Counted
  <2>7. Within(queue', 0)
    BY <2>1, <2>2 DEF Within
  <2>8. Good(State', offered')
    BY <2>2, <2>5, <2>6, <2>7 DEF State, Good
  <2>9. Sound(Connection)'
    BY <1>9, <2>1 DEF Reboot, IInv, Connection, ConnectionType, Sound
  <2>10. Others'
    <3>1. resets' \in 0..MaxResets
      BY <1>9, SMT DEF Reboot, IInv, Others
    <3>2. net' \in BOOLEAN /\ enabled' \in BOOLEAN /\ cfg' \in Configs
      BY <1>9, InitCfgsAllowed, Zenon DEF Reboot, IInv, Others
    <3> QED
      BY <3>1, <3>2, Zenon DEF Others
  <2> QED
    BY <2>2, <2>3, <2>8, <2>9, <2>10 DEF IInv
<1>10. CASE UNCHANGED vars
  <2>1. UNCHANGED <<connection, messages, cfg, net, enabled, resets>>
    BY <1>10 DEF vars
  <2>2. Sound(Connection)'
    BY <2>1 DEF connection, IInv, Connection
  <2>3. Others'
    BY <2>1 DEF IInv, Others
  <2> QED
    BY <2>1, <2>2, <2>3, ConnectionKeeps
<1> QED
  BY <1>1, <1>2, <1>3, <1>4, <1>5, <1>6, <1>7, <1>8, <1>9, <1>10, Zenon DEF Next

-----------------------------------------------------------------------------
LEMMA InvAlways == Spec => []IInv
BY InvInit, InvStep, PTL DEF Spec

\* The queue and the connection keep their types; whatever settings are saved
\* while messages wait, the queue is no longer and the front message was tried
\* no more often than some settings allow.
THEOREM TypeCorrect == Spec => []TypeOK
<1>1. IInv => TypeOK
  BY InvImplies
<1> QED
  BY <1>1, InvAlways, PTL

-----------------------------------------------------------------------------
\* A step gives up no message but the front one, when it has used its retries.
LEMMA GoneStep == IInv /\ [Next]_vars => GoneFrom(State, gone')
<1> SUFFICES ASSUME IInv, [Next]_vars PROVE GoneFrom(State, gone')
  OBVIOUS
<1>1. State.gone = gone
  BY DEF State
<1>2. CASE MQTTpublish
  <2>1. PublishStep
    BY <1>2, PublishCases
  <2> QED
    BY <2>1 DEF PublishStep, Become
<1>3. CASE ProcessMQTTdelayQueue
  <2>1. PICK s \in Processed(State) : Become(s)
    BY <1>3 DEF ProcessMQTTdelayQueue
  <2>2. GoneFrom(State, s.gone)
    BY <2>1, ProcessedGood DEF IInv, Others
  <2> QED
    BY <2>1, <2>2 DEF Become
<1>4. CASE UNCHANGED gone
  BY <1>1, <1>4 DEF GoneFrom
<1> QED
  BY <1>2, <1>3, <1>4
  DEF Next, RunPeriodicalMQTT, ConnectionLost, GotIP, NetworkLost, SaveName,
      SaveController, Reboot, messages, vars

LEMMA GivenUpStep ==
    IInv /\ [Next]_vars =>
      \A m \in gone' \ gone : tries[m] > cfg.retries \/ m \in heirs
<1> SUFFICES ASSUME IInv, [Next]_vars, NEW m \in gone' \ gone, m \notin heirs
             PROVE  tries[m] > cfg.retries
  OBVIOUS
<1>1. State.gone = gone /\ State.queue = queue /\ State.attempt = attempt
  BY DEF State
<1>2. queue # <<>> /\ m = queue[1] /\ attempt > cfg.retries
  BY <1>1, GoneStep DEF GoneFrom
<1>3. Counted(queue, attempt, tries, heirs, offered)
  BY DEF IInv, Good, State
<1> QED
  BY <1>2, <1>3 DEF Counted

\* No message is given up for the failures of another one, whatever settings
\* are saved in between, unless eviction has brought it to the front.
THEOREM OwnRetries == Spec => GivenUpAfterRetries
<1>1. IInv /\ [Next]_vars =>
        [\A m \in gone' \ gone : tries[m] > cfg.retries \/ m \in heirs]_vars
  BY GivenUpStep
<1> QED
  BY <1>1, InvAlways, PTL DEF Spec, GivenUpAfterRetries

-----------------------------------------------------------------------------
LEMMA AnnounceStep ==
    IInv /\ [Next]_vars =>
      /\ announced' - announced \in 0..(connects' - connects)
      /\ online' /\ ~online => announced' = announced + 1
<1> SUFFICES ASSUME IInv, [Next]_vars PROVE Told(Connection, Connection')
  BY DEF Told, Connection
<1>1. Connection \in ConnectionType
  BY DEF IInv, Sound
<1>2. CASE RunPeriodicalMQTT
  <2>1. PICK c \in Periodical(Connection) :
          /\ online' = c.online /\ known' = c.known /\ failures' = c.failures
          /\ connects' = c.connects /\ announced' = c.announced
    BY <1>2 DEF RunPeriodicalMQTT
  <2>2. Told(Connection, c)
    BY PeriodicalSound DEF IInv
  <2> QED
    BY <2>1, <2>2 DEF Told, Connection
<1>3. ASSUME UNCHANGED <<connects, announced>>, online' => online
      PROVE  Told(Connection, Connection')
  BY <1>1, <1>3, QuietTold DEF Quiet, Connection
<1>4. CASE MQTTpublish
  <2>1. PublishStep
    BY <1>4, PublishCases
  <2>2. online' => online
    BY <2>1 DEF PublishStep, Become
  <2> QED
    BY <1>3, <1>4, <2>2 DEF MQTTpublish
<1>5. CASE ProcessMQTTdelayQueue
  <2>1. PICK s \in Processed(State) : Become(s)
    BY <1>5 DEF ProcessMQTTdelayQueue
  <2>2. s.online => State.online
    BY <2>1, ProcessedOnline DEF IInv, Others
  <2>3. online' => online
    BY <2>1, <2>2 DEF Become, State
  <2> QED
    BY <1>3, <1>5, <2>3 DEF ProcessMQTTdelayQueue
<1>6. CASE SaveName
  <2> DEFINE off == Update([Connection EXCEPT !.online = FALSE])
  <2>1. ~off.online
    BY DisconnectSound DEF IInv
  <2>2. online' = off.online /\ UNCHANGED <<connects, announced>>
    BY <1>6 DEF SaveName
  <2> QED
    BY <1>3, <2>1, <2>2
<1> QED
  BY <1>2, <1>3, <1>4, <1>5, <1>6
  DEF Next, ConnectionLost, GotIP, NetworkLost, SaveController, Reboot,
      connection, vars

\* No event is told without a connection, none twice, and none is missing for
\* a connection that is there when runPeriodicalMQTT() has returned.
THEOREM Announced == Spec => AnnouncedOnce
<1>1. IInv /\ [Next]_vars =>
        [/\ announced' - announced \in 0..(connects' - connects)
         /\ online' /\ ~online => announced' = announced + 1]_vars
  BY AnnounceStep
<1> QED
  BY <1>1, InvAlways, PTL DEF Spec, AnnouncedOnce

-----------------------------------------------------------------------------
\* What the broker is promised.
LEMMA SentIsAcknowledged ==
    ASSUME offered \in 0..MaxMessages, published \in SUBSET Messages,
           Sent(published, published', offered)
    PROVE  published' = published \/ Channel!AcknowledgeAny
<1> SUFFICES ASSUME published' # published PROVE Channel!AcknowledgeAny
  OBVIOUS
<1>1. PICK m \in 1..offered :
        published' = published \cup {m} /\ \A k \in published : k < m
  BY DEF Sent
<1>2. 1 \in 1..1
  BY SMT
<1>3. <<m, 1>> \in (1..offered) \X (1..1)
  BY <1>2
<1>4. \A q \in published \X {1} : Channel!Precedes(q, <<m, 1>>)
  BY <1>1 DEF Channel!Precedes
<1>5. (published \X {1})' = (published \X {1}) \cup {<<m, 1>>}
  BY <1>1
<1>6. Channel!Acknowledge(<<m, 1>>)
  BY <1>4, <1>5 DEF Channel!Acknowledge
<1> QED
  BY <1>3, <1>6 DEF Channel!AcknowledgeAny

LEMMA ChannelInit == Init => Channel!Init
BY DEF Init, Channel!Init

LEMMA ChannelStep ==
    IInv /\ [Next]_vars => [Channel!Next]_<<offered, published \X {1}>>
<1> SUFFICES ASSUME IInv, [Next]_vars
             PROVE  [Channel!Next]_<<offered, published \X {1}>>
  OBVIOUS
<1>1. State \in StateType /\ Good(State, offered) /\ offered \in 0..MaxMessages
        /\ State.published = published /\ cfg \in Configs
  BY DEF IInv, State, Others
<1>2. published \in SUBSET Messages
  BY <1>1 DEF StateType
<1>3. CASE MQTTpublish
  <2>1. PublishStep
    BY <1>3, PublishCases
  <2>2. offered < MaxMessages /\ offered' = offered + 1
          /\ Sent(published, published', offered)
    BY <2>1 DEF PublishStep, Become
  <2>3. published' = published \/ Channel!AcknowledgeAny
    BY <1>1, <1>2, <2>2, SentIsAcknowledged
  <2>4. Channel!Offer
    BY <2>2 DEF Channel!Offer
  <2> QED
    BY <2>3, <2>4 DEF Channel!Next
<1>4. CASE ProcessMQTTdelayQueue
  <2>1. PICK s \in Processed(State) : Become(s)
    BY <1>4 DEF ProcessMQTTdelayQueue
  <2>2. Sent(published, published', offered)
    BY <1>1, <2>1, ProcessedGood DEF Become
  <2>3. published' = published \/ Channel!AcknowledgeAny
    BY <1>1, <1>2, <2>2, SentIsAcknowledged
  <2>4. UNCHANGED offered
    BY <1>4 DEF ProcessMQTTdelayQueue
  <2> QED
    BY <2>3, <2>4 DEF Channel!Next
<1>5. CASE UNCHANGED <<offered, published>>
  BY <1>5
<1> QED
  BY <1>3, <1>4, <1>5
  DEF Next, RunPeriodicalMQTT, ConnectionLost, GotIP, NetworkLost, SaveName,
      SaveController, Reboot, messages, vars

\* However the connection breaks and messages are retried, given up, refused
\* or lost in reboots, the broker gets them in the order in which they were
\* handed over, and none twice.
THEOREM QueueIsChannel == Spec => ImplementsChannel
BY InvAlways, ChannelInit, ChannelStep, PTL
DEF Spec, ImplementsChannel, Channel!Spec

=============================================================================
