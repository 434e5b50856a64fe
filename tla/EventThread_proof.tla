------------------------- MODULE EventThread_proof -------------------------
(***************************************************************************)
(* What the event threads keep, for any number of threads, messages and     *)
(* socket events and whatever handlers do: a handler is started at most     *)
(* once, a send returns only when its handler is over or its message was    *)
(* cleared, no thread falls asleep on a wake-up that was meant for it, and  *)
(* away from the wrap of the clock no thread oversleeps a delayed message.  *)
(*                                                                          *)
(* None of this is inductive.  The first two need that a message is in one  *)
(* place only, a queue or the frame that is about to queue it, until its    *)
(* handler starts (SendInv).  The others need to be said of every frame of  *)
(* a stack, not only of the running one: a wait that is nested in another   *)
(* may use up its wake-up (WakeInv, DelayInv).                              *)
(***************************************************************************)
EXTENDS EventThread, FiniteSetTheorems, WellFoundedInduction, TLAPS

---------------------------------------------------------------------------
(* Stacks.                                                                  *)

Caller(f) == f.op \in {"post", "delay", "send"}

\* Where an activation may be, when n messages exist.
FrameOK(f, n) ==
  /\ f.op = "get" => f.at \in {"enter", "serve", "pull", "stop", "select"}
  /\ f.op = "receive" => f.at \in {"take", "done"}
  /\ f.op = "handle" => f.at = "run"
  /\ f.op \in {"post", "delay"} => f.at \in {"check", "push"}
  /\ f.op = "send" => f.at \in {"check", "push", "wake", "loop", "serve", "wait", "select", "done"}
  /\ Caller(f) \/ (f.op = "receive" /\ f.at = "done") => f.msg \in 1..n
  /\ f.op = "handle" => f.msg \in 0..n

Shape ==
  \A t \in Thread : \A i \in 1..Len(stack[t]) :
    /\ FrameOK(stack[t][i], nmsgs)
    /\ stack[t][i].op = "get" => i = 1
    /\ stack[t][i].at \in {"check", "push"} => i = Len(stack[t])
    /\ Caller(stack[t][i]) => sender[stack[t][i].msg] = {t}

---------------------------------------------------------------------------
(* Where a message is until its handler starts.                             *)

Place == {"post", "delay", "sent", "frame"} \X Thread

Posted(t) == ToSet(msgq_[t])
Delayed(t) == {dmsgq_[t][i].msg : i \in 1..Len(dmsgq_[t])}
Sent(t) == ToSet(sendlist_[t])
Pending(t) == IF Running(t) /\ Top(t).at \in {"check", "push"} THEN {Top(t).msg} ELSE {}

In(p, m) ==
  \/ p[1] = "post" /\ m \in Posted(p[2])
  \/ p[1] = "delay" /\ m \in Delayed(p[2])
  \/ p[1] = "sent" /\ m \in Sent(p[2])
  \/ p[1] = "frame" /\ m \in Pending(p[2])

Held(m) == \E p \in Place : In(p, m)

NoDup(q) == \A i, j \in 1..Len(q) : q[i] = q[j] => i = j
NoDupMsg(q) == \A i, j \in 1..Len(q) : q[i].msg = q[j].msg => i = j

NoDups == \A t \in Thread : NoDup(msgq_[t]) /\ NoDupMsg(dmsgq_[t]) /\ NoDup(sendlist_[t])

Once == \A p, r \in Place, m \in Msgs : In(p, m) /\ In(r, m) => p = r

\* The handler of m is active in frame f; f waits for it.
Handles(f, m) == f.op = "handle" /\ f.msg = m
Awaits(f, m) == f.op \in {"receive", "send"} /\ f.at = "done" /\ f.msg = m

Started0(m) == handled[m] = 0 /\ m \notin cleared /\ m \notin returned /\ ~ready[m]

NoHandler(m) == \A t \in Thread : \A i \in 1..Len(stack[t]) : ~Handles(stack[t][i], m)
NoAwait(m) == \A t \in Thread : \A i \in 1..Len(stack[t]) : ~Awaits(stack[t][i], m)

\* A message that is still in its place, or does not exist yet, has left no trace.
Untouched ==
  \A m \in Msgs : Held(m) \/ m > nmsgs => Started0(m) /\ NoHandler(m) /\ NoAwait(m)

HeldExists == \A m \in Msgs : Held(m) => m <= nmsgs

\* A handler that is awaited runs right above the frame that waits.
Nested ==
  \A t, u \in Thread, m \in Msgs : \A i \in 1..Len(stack[t]), j \in 1..Len(stack[u]) :
    Awaits(stack[t][i], m) /\ Handles(stack[u][j], m) => u = t /\ j = i + 1

AwaitedRan ==
  \A t \in Thread, m \in Msgs : \A i \in 1..Len(stack[t]) :
    Awaits(stack[t][i], m) => handled[m] = 1

Outcome ==
  \A m \in Msgs :
    /\ handled[m] = 1 => m \notin cleared
    /\ ready[m] => NoHandler(m) /\ (handled[m] = 1 \/ m \in cleared)
    /\ m \in returned => NoHandler(m) /\ (handled[m] = 1 \/ m \in cleared)

SendInv ==
  TypeOK /\ Shape /\ NoDups /\ Once /\ HeldExists /\ Untouched /\ Nested /\ AwaitedRan /\ Outcome

---------------------------------------------------------------------------
(* Wake-ups.                                                                *)

\* An activation that goes to sleep, or has, without another look at what was sent.
Blind(f) ==
  \/ f.op = "get" /\ f.at \in {"pull", "stop", "select"}
  \/ f.op = "send" /\ f.at \in {"wait", "select"}

\* Someone has sent to t and is about to wake it.
Coming(t) == \E u \in Thread : At(u, "send", "wake") /\ Top(u).to = t

\* Activation i of stack s should not sleep: there is a posted message (queue q), a sent one
\* (list l) that no ReceiveSends above looks for and nobody comes (c) to tell of, or the send
\* it waits for is over.
Cause(s, i, q, l, c, rd) ==
  \/ s[i].op = "get" /\ s[i].at \in {"stop", "select"} /\ q # <<>>
  \/ /\ Blind(s[i]) /\ l # <<>> /\ ~c
     /\ \A j \in (i + 1)..Len(s) : s[j].op # "receive"
  \/ s[i].op = "send" /\ s[i].at \in {"serve", "wait", "select"} /\ rd[s[i].msg]

\* A send that gives back the wake-up its wait uses.
Gives(f) == f.op = "send" /\ (f.waited \/ f.at = "select")

\* What keeps it from sleeping on: the signal, its wait is over, or a wait nested in it will
\* give the signal back.
Relief(s, i, sig, wait) ==
  \/ sig
  \/ s[i].at = "select" /\ ~wait
  \/ \E j \in (i + 1)..Len(s) : Gives(s[j])

Woke(s, q, l, c, rd, sig, wait) ==
  \A i \in 1..Len(s) : Cause(s, i, q, l, c, rd) => Relief(s, i, sig, wait)

SendsNoticed == \A t \in Thread : sendlist_[t] # <<>> => has_sends_[t]

AllWoken ==
  \A t \in Thread :
    Woke(stack[t], msgq_[t], sendlist_[t], Coming(t), ready, signaled_[t], fWait_[t])

NotWaitedYet ==
  \A t \in Thread : \A i \in 1..Len(stack[t]) : stack[t][i].at = "check" => ~stack[t][i].waited

WakeInv == SendsNoticed /\ AllWoken /\ NotWaitedYet

---------------------------------------------------------------------------
(* Sequences.                                                               *)

LEMMA LeastNatural ==
  ASSUME NEW T \in SUBSET Nat, T # {}
  PROVE  \E x \in T : \A y \in T : x <= y
<1> DEFINE R == OpToRel(<, Nat)
<1>1. IsWellFoundedOn(R, Nat)
  BY NatLessThanWellFounded
<1>2. \A x, y \in Nat : x < y => <<x, y>> \in R
  BY DEF OpToRel
<1> HIDE DEF R
<1>3. PICK x \in T : \A y \in T : ~(<<y, x>> \in R)
  BY <1>1, WFMin
<1>4. \A y \in T : ~(y < x)
  BY <1>2, <1>3
<1>5. QED
  BY <1>4

\* The places up to i.
UpTo(I, i) == {h \in I : h <= i}
Nth(I, n) == CHOOSE i \in I : Cardinality(UpTo(I, i)) = n

LEMMA UpToFacts ==
  ASSUME NEW n \in Nat, NEW I \in SUBSET (1..n)
  PROVE  /\ IsFiniteSet(I) /\ Cardinality(I) \in 0..n
         /\ \A i \in 0..n : IsFiniteSet(UpTo(I, i)) /\ Cardinality(UpTo(I, i)) \in Nat
         /\ Cardinality(UpTo(I, 0)) = 0 /\ UpTo(I, n) = I
         /\ \A i \in 1..n : Cardinality(UpTo(I, i)) =
              IF i \in I THEN Cardinality(UpTo(I, i - 1)) + 1 ELSE Cardinality(UpTo(I, i - 1))
<1>0. \A h \in I : h \in Int /\ 1 <= h /\ h <= n
  OBVIOUS
<1>1. IsFiniteSet(1..n) /\ Cardinality(1..n) = n
  BY FS_Interval
<1>2. IsFiniteSet(I) /\ Cardinality(I) <= n
  BY <1>1, FS_Subset
<1>3. Cardinality(I) \in Nat
  BY <1>2, FS_CardinalityType
<1>4. \A i \in 0..n : UpTo(I, i) \subseteq I
  BY DEF UpTo
<1>5. \A i \in 0..n : IsFiniteSet(UpTo(I, i)) /\ Cardinality(UpTo(I, i)) \in Nat
  BY <1>2, <1>4, FS_Subset, FS_CardinalityType
<1>6. UpTo(I, 0) = {}
  <2>1. \A h \in I : ~(h <= 0)
    BY <1>0
  <2>2. QED
    BY <2>1 DEF UpTo
<1>7. Cardinality(UpTo(I, 0)) = 0
  BY <1>6, FS_EmptySet
<1>8. UpTo(I, n) = I
  BY <1>0 DEF UpTo
<1>9. ASSUME NEW i \in 1..n
      PROVE  Cardinality(UpTo(I, i)) =
               IF i \in I THEN Cardinality(UpTo(I, i - 1)) + 1 ELSE Cardinality(UpTo(I, i - 1))
  <2>1. i - 1 \in 0..n
    OBVIOUS
  <2>0. \A h \in I : (h <= i <=> h <= i - 1 \/ h = i) /\ ~(i <= i - 1)
    BY <1>0
  <2>2. IsFiniteSet(UpTo(I, i - 1))
    BY <1>5, <2>1
  <2>3. CASE i \in I
    <3>1. UpTo(I, i) = UpTo(I, i - 1) \cup {i} /\ i \notin UpTo(I, i - 1)
      BY <2>0, <2>3 DEF UpTo
    <3>2. QED
      BY <2>2, <2>3, <3>1, FS_AddElement
  <2>4. CASE i \notin I
    <3>1. UpTo(I, i) = UpTo(I, i - 1)
      BY <2>0, <2>4 DEF UpTo
    <3>2. QED
      BY <2>4, <3>1
  <2>5. QED
    BY <2>3, <2>4
<1>10. QED
  BY <1>2, <1>3, <1>5, <1>7, <1>8, <1>9

\* There is an n-th place for every n up to their number.
LEMMA NthExists ==
  ASSUME NEW n \in Nat, NEW I \in SUBSET (1..n), NEW k \in 1..Cardinality(I)
  PROVE  Nth(I, k) \in I /\ Cardinality(UpTo(I, Nth(I, k))) = k
<1> DEFINE C(i) == Cardinality(UpTo(I, i))
<1> DEFINE T == {i \in 0..n : C(i) >= k}
<1>1. /\ Cardinality(I) \in 0..n
      /\ \A i \in 0..n : C(i) \in Nat
      /\ C(0) = 0 /\ C(n) = Cardinality(I)
      /\ \A i \in 1..n : C(i) = IF i \in I THEN C(i - 1) + 1 ELSE C(i - 1)
  BY UpToFacts
<1> HIDE DEF C
<1>2. k \in Nat /\ k >= 1 /\ k <= Cardinality(I)
  BY <1>1
<1>3. T \in SUBSET Nat /\ T # {}
  BY <1>1, <1>2
<1>4. PICK i \in T : \A j \in T : i <= j
  BY <1>3, LeastNatural
<1>5. i \in 0..n /\ C(i) >= k
  OBVIOUS
<1>6. i \in 1..n
  BY <1>1, <1>2, <1>5
<1>7. i - 1 \in 0..n /\ i - 1 \notin T
  BY <1>4, <1>6
<1>8. C(i - 1) < k /\ C(i - 1) \in Nat
  BY <1>1, <1>2, <1>7
<1>9. i \in I /\ C(i) = k
  BY <1>1, <1>2, <1>5, <1>6, <1>8
<1>10. QED
  BY <1>9 DEF Nth, C

\* Pick takes elements at increasing places.
LEMMA PickFacts ==
  ASSUME NEW S, NEW q \in Seq(S), NEW I \in SUBSET (1..Len(q))
  PROVE  /\ Pick(q, I) \in Seq(S)
         /\ Len(Pick(q, I)) = Cardinality(I)
         /\ \A k \in 1..Len(Pick(q, I)) : Nth(I, k) \in I /\ Pick(q, I)[k] = q[Nth(I, k)]
         /\ \A j, k \in 1..Len(Pick(q, I)) : j < k => Nth(I, j) < Nth(I, k)
<1>1. Len(q) \in Nat /\ Cardinality(I) \in Nat
  BY UpToFacts
<1>2. \A k \in 1..Cardinality(I) : Nth(I, k) \in I /\ Cardinality(UpTo(I, Nth(I, k))) = k
  BY <1>1, NthExists
<1>0. \A h \in I : h \in Nat /\ 1 <= h /\ h <= Len(q) /\ q[h] \in S
  BY <1>1
<1>3. \A k \in 1..Cardinality(I) : q[Nth(I, k)] \in S
  BY <1>0, <1>2
<1>4. Pick(q, I) = [k \in 1..Cardinality(I) |-> q[Nth(I, k)]]
  BY DEF Pick, Nth, UpTo
<1>5. Pick(q, I) \in Seq(S) /\ Len(Pick(q, I)) = Cardinality(I)
  BY <1>1, <1>3, <1>4
<1>6. ASSUME NEW j \in 1..Cardinality(I), NEW k \in 1..Cardinality(I), j < k
      PROVE  Nth(I, j) < Nth(I, k)
  <2> DEFINE a == Nth(I, j)
  <2> DEFINE b == Nth(I, k)
  <2>1. a \in I /\ b \in I /\ Cardinality(UpTo(I, a)) = j /\ Cardinality(UpTo(I, b)) = k
    BY <1>2
  <2> HIDE DEF a, b
  <2>2. a \in Nat /\ b \in Nat /\ a \in 0..Len(q)
    BY <1>0, <1>1, <2>1
  <2>3. SUFFICES ASSUME b <= a
                 PROVE  FALSE
    BY <2>2 DEF a, b
  <2>4. \A h \in I : h <= b => h <= a
    BY <1>0, <2>2, <2>3
  <2>5. UpTo(I, b) \subseteq UpTo(I, a)
    BY <2>4 DEF UpTo
  <2>6. IsFiniteSet(UpTo(I, a))
    BY <1>1, <2>2, UpToFacts
  <2>7. Cardinality(UpTo(I, b)) <= Cardinality(UpTo(I, a))
    BY <2>5, <2>6, FS_Subset
  <2>8. QED
    BY <1>6, <2>1, <2>7
<1>7. QED
  BY <1>2, <1>4, <1>5, <1>6

LEMMA TailFacts ==
  ASSUME NEW S, NEW q \in Seq(S), q # <<>>
  PROVE  /\ Tail(q) \in Seq(S) /\ Head(q) \in S
         /\ Head(q) \in ToSet(q) /\ ToSet(Tail(q)) \subseteq ToSet(q)
         /\ NoDup(q) => NoDup(Tail(q)) /\ Head(q) \notin ToSet(Tail(q))
<1>1. /\ Tail(q) \in Seq(S) /\ Head(q) \in S /\ Head(q) = q[1]
      /\ Len(q) \in Nat /\ Len(q) > 0 /\ Len(Tail(q)) = Len(q) - 1
      /\ \A i \in 1..Len(Tail(q)) : Tail(q)[i] = q[i + 1] /\ i + 1 \in 1..Len(q)
  OBVIOUS
<1>2. 1 \in 1..Len(q) /\ DOMAIN q = 1..Len(q) /\ DOMAIN Tail(q) = 1..Len(Tail(q))
  BY <1>1
<1>3. NoDup(q) => NoDup(Tail(q)) /\ Head(q) \notin ToSet(Tail(q))
  BY <1>1, <1>2 DEF NoDup, ToSet
<1>4. QED
  BY <1>1, <1>2, <1>3 DEF ToSet

LEMMA AppendFacts ==
  ASSUME NEW S, NEW q \in Seq(S), NEW e \in S
  PROVE  /\ Append(q, e) \in Seq(S)
         /\ ToSet(Append(q, e)) = ToSet(q) \cup {e}
         /\ NoDup(q) /\ e \notin ToSet(q) => NoDup(Append(q, e))
<1>1. /\ Append(q, e) \in Seq(S) /\ Len(q) \in Nat /\ Len(Append(q, e)) = Len(q) + 1
      /\ \A i \in 1..Len(q) : Append(q, e)[i] = q[i]
      /\ Append(q, e)[Len(q) + 1] = e
  OBVIOUS
<1>2. DOMAIN q = 1..Len(q) /\ DOMAIN Append(q, e) = 1..(Len(q) + 1)
  BY <1>1
<1>3. \A i \in 1..(Len(q) + 1) : i \in 1..Len(q) \/ i = Len(q) + 1
  BY <1>1
<1>4. ToSet(Append(q, e)) = ToSet(q) \cup {e}
  BY <1>1, <1>2, <1>3 DEF ToSet
<1>5. QED
  BY <1>1, <1>2, <1>3, <1>4 DEF NoDup, ToSet

\* Clear takes messages out and keeps the order of the others.
LEMMA WithoutFacts ==
  ASSUME NEW T, NEW q \in Seq(T), NEW S
  PROVE  /\ Without(q, S) \in Seq(T)
         /\ ToSet(Without(q, S)) \subseteq ToSet(q) \ S
         /\ NoDup(q) => NoDup(Without(q, S))
<1> DEFINE I == {i \in 1..Len(q) : q[i] \notin S}
<1> DEFINE r == Pick(q, I)
<1>1. I \in SUBSET (1..Len(q))
  OBVIOUS
<1>2. /\ r \in Seq(T)
      /\ \A k \in 1..Len(r) : Nth(I, k) \in I /\ r[k] = q[Nth(I, k)]
      /\ \A j, k \in 1..Len(r) : j < k => Nth(I, j) < Nth(I, k)
  BY <1>1, PickFacts
<1>3. \A i \in I : i \in 1..Len(q) /\ i \in Int /\ q[i] \notin S
  OBVIOUS
<1>4. Without(q, S) = r
  BY DEF Without
<1> HIDE DEF r, I
<1>5. DOMAIN r = 1..Len(r) /\ DOMAIN q = 1..Len(q) /\ Len(r) \in Nat
  BY <1>2
<1>6. ToSet(r) \subseteq ToSet(q) \ S
  BY <1>2, <1>3, <1>5 DEF ToSet
<1>7. ASSUME NoDup(q) PROVE NoDup(r)
  <2>1. SUFFICES ASSUME NEW j \in 1..Len(r), NEW k \in 1..Len(r), r[j] = r[k], j < k
                 PROVE  FALSE
    BY <1>5 DEF NoDup
  <2>2. Nth(I, j) = Nth(I, k)
    BY <1>2, <1>3, <1>7, <2>1 DEF NoDup
  <2>3. Nth(I, j) < Nth(I, k) /\ Nth(I, j) \in Int
    BY <1>2, <1>3, <2>1
  <2>4. QED
    BY <2>2, <2>3
<1>8. QED
  BY <1>2, <1>4, <1>6, <1>7

LEMMA WithoutDelayedFacts ==
  ASSUME NEW T, NEW q \in Seq(T), NEW S
  PROVE  /\ WithoutDelayed(q, S) \in Seq(T)
         /\ \A k \in 1..Len(WithoutDelayed(q, S)) : \E i \in 1..Len(q) :
              WithoutDelayed(q, S)[k] = q[i] /\ q[i].msg \notin S
         /\ NoDupMsg(q) => NoDupMsg(WithoutDelayed(q, S))
<1> DEFINE I == {i \in 1..Len(q) : q[i].msg \notin S}
<1> DEFINE r == Pick(q, I)
<1>1. I \in SUBSET (1..Len(q))
  OBVIOUS
<1>2. /\ r \in Seq(T)
      /\ \A k \in 1..Len(r) : Nth(I, k) \in I /\ r[k] = q[Nth(I, k)]
      /\ \A j, k \in 1..Len(r) : j < k => Nth(I, j) < Nth(I, k)
  BY <1>1, PickFacts
<1>3. \A i \in I : i \in 1..Len(q) /\ i \in Int /\ q[i].msg \notin S
  OBVIOUS
<1>4. WithoutDelayed(q, S) = r
  BY DEF WithoutDelayed
<1> HIDE DEF r, I
<1>5. Len(r) \in Nat
  BY <1>2
<1>6. ASSUME NoDupMsg(q) PROVE NoDupMsg(r)
  <2>1. SUFFICES ASSUME NEW j \in 1..Len(r), NEW k \in 1..Len(r), r[j].msg = r[k].msg, j < k
                 PROVE  FALSE
    BY <1>5 DEF NoDupMsg
  <2>2. Nth(I, j) = Nth(I, k)
    BY <1>2, <1>3, <1>6, <2>1 DEF NoDupMsg
  <2>3. Nth(I, j) < Nth(I, k) /\ Nth(I, j) \in Int
    BY <1>2, <1>3, <2>1
  <2>4. QED
    BY <2>2, <2>3
<1>7. QED
  BY <1>2, <1>3, <1>4, <1>6

DelayedMsg == [trigger : 0..(TimeMod - 1), msg : Msgs]

\* Insert puts the new message at one place and moves those behind it.
LEMMA InsertFacts ==
  ASSUME NEW q \in Seq(DelayedMsg), NEW d \in DelayedMsg
  PROVE  \E p \in 0..Len(q) :
           LET r == Insert(q, d)
           IN /\ p = Cardinality({i \in 1..Len(q) : q[i].trigger <= d.trigger})
              /\ r \in Seq(DelayedMsg) /\ Len(r) = Len(q) + 1 /\ r[p + 1] = d
              /\ \A i \in 1..p : r[i] = q[i]
              /\ \A i \in (p + 2)..(Len(q) + 1) : r[i] = q[i - 1]
<1> DEFINE I == {i \in 1..Len(q) : q[i].trigger <= d.trigger}
<1> DEFINE p == Cardinality(I)
<1>1. Len(q) \in Nat /\ I \in SUBSET (1..Len(q))
  OBVIOUS
<1>2. p \in 0..Len(q)
  BY <1>1, UpToFacts
<1>3. Insert(q, d) = SubSeq(q, 1, p) \o <<d>> \o SubSeq(q, p + 1, Len(q))
  BY DEF Insert
<1> HIDE DEF p
<1> DEFINE a == SubSeq(q, 1, p)
<1> DEFINE b == SubSeq(q, p + 1, Len(q))
<1>4. /\ a \in Seq(DelayedMsg) /\ Len(a) = p /\ \A i \in 1..p : a[i] = q[i]
      /\ b \in Seq(DelayedMsg) /\ Len(b) = Len(q) - p
      /\ \A i \in 1..(Len(q) - p) : b[i] = q[p + i]
  BY <1>1, <1>2
<1> HIDE DEF a, b
<1> DEFINE ad == a \o <<d>>
<1>5. /\ ad \in Seq(DelayedMsg) /\ Len(ad) = p + 1 /\ ad[p + 1] = d
      /\ \A i \in 1..p : ad[i] = q[i]
  BY <1>1, <1>2, <1>4
<1> HIDE DEF ad
<1> DEFINE r == ad \o b
<1>6. /\ r \in Seq(DelayedMsg) /\ Len(r) = Len(q) + 1 /\ r[p + 1] = d
      /\ \A i \in 1..p : r[i] = q[i]
  <2>1. r \in Seq(DelayedMsg) /\ Len(r) = Len(q) + 1
    BY <1>1, <1>2, <1>4, <1>5
  <2>2. \A i \in 1..(p + 1) : r[i] = ad[i]
    BY <1>1, <1>2, <1>4, <1>5
  <2>3. QED
    BY <1>2, <1>5, <2>1, <2>2
<1>7. ASSUME NEW i \in (p + 2)..(Len(q) + 1) PROVE r[i] = q[i - 1]
  <2>1. i - (p + 1) \in 1..(Len(q) - p) /\ p + (i - (p + 1)) = i - 1
    BY <1>1, <1>2
  <2>2. r[i] = b[i - (p + 1)]
    BY <1>1, <1>2, <1>4, <1>5
  <2>3. QED
    BY <1>4, <2>1, <2>2
<1>8. r = Insert(q, d)
  BY <1>3 DEF ad, a, b
<1>9. QED
  BY <1>2, <1>6, <1>7, <1>8 DEF p

MsgsOf(d) == {d[i].msg : i \in 1..Len(d)}

\* What Get moves from the delayed messages is no longer among them.
LEMMA PullFacts ==
  ASSUME NEW q \in Seq(Msgs), NEW d \in Seq(DelayedMsg), NEW n \in 0..Len(d)
  PROVE  LET a == q \o [i \in 1..n |-> d[i].msg]
             rest == SubSeq(d, n + 1, Len(d))
         IN /\ a \in Seq(Msgs) /\ rest \in Seq(DelayedMsg)
            /\ Len(rest) = Len(d) - n
            /\ \A i \in 1..Len(rest) : rest[i] = d[n + i] /\ n + i \in 1..Len(d)
            /\ ToSet(a) \subseteq ToSet(q) \cup MsgsOf(d)
            /\ MsgsOf(rest) \subseteq MsgsOf(d)
            /\ NoDup(q) /\ NoDupMsg(d) /\ ToSet(q) \cap MsgsOf(d) = {}
                 => NoDup(a) /\ NoDupMsg(rest) /\ ToSet(a) \cap MsgsOf(rest) = {}
<1> DEFINE b == [i \in 1..n |-> d[i].msg]
<1> DEFINE a == q \o b
<1> DEFINE rest == SubSeq(d, n + 1, Len(d))
<1>1. Len(d) \in Nat /\ Len(q) \in Nat /\ n \in Nat /\ n <= Len(d)
  OBVIOUS
<1>2. \A i \in 1..Len(d) : d[i].msg \in Msgs
  <2>1. \A i \in 1..Len(d) : d[i] \in DelayedMsg
    OBVIOUS
  <2>2. \A x \in DelayedMsg : x.msg \in Msgs
    BY DEF DelayedMsg
  <2>3. QED
    BY <2>1, <2>2
<1>3. b \in Seq(Msgs) /\ Len(b) = n /\ \A i \in 1..n : b[i] = d[i].msg
  BY <1>1, <1>2
<1> HIDE DEF b
<1>4. a \in Seq(Msgs) /\ Len(a) = Len(q) + n
  BY <1>1, <1>3
<1>5. \A i \in 1..Len(q) : a[i] = q[i]
  BY <1>1, <1>3
<1>6. \A i \in (Len(q) + 1)..(Len(q) + n) : a[i] = d[i - Len(q)].msg /\ i - Len(q) \in 1..n
  <2>1. SUFFICES ASSUME NEW i \in (Len(q) + 1)..(Len(q) + n)
                 PROVE  a[i] = d[i - Len(q)].msg /\ i - Len(q) \in 1..n
    OBVIOUS
  <2>2. i - Len(q) \in 1..n
    BY <1>1
  <2>3. a[i] = b[i - Len(q)]
    BY <1>1, <1>3
  <2>4. QED
    BY <1>3, <2>2, <2>3
<1>7. rest \in Seq(DelayedMsg) /\ Len(rest) = Len(d) - n
  BY <1>1
<1>8. \A i \in 1..Len(rest) : rest[i] = d[n + i] /\ n + i \in 1..Len(d)
  BY <1>1
<1> HIDE DEF a, rest
<1>9. /\ \A i \in 1..Len(a) : i \in 1..Len(q) \/ i \in (Len(q) + 1)..(Len(q) + n)
      /\ DOMAIN a = 1..Len(a) /\ DOMAIN q = 1..Len(q)
      /\ \A i \in 1..n : i \in 1..Len(d)
  BY <1>1, <1>4
<1>10. ToSet(a) \subseteq ToSet(q) \cup MsgsOf(d)
  BY <1>5, <1>6, <1>9 DEF ToSet, MsgsOf
<1>11. MsgsOf(rest) \subseteq MsgsOf(d)
  BY <1>8 DEF MsgsOf
<1>12. ASSUME NoDup(q), NoDupMsg(d), ToSet(q) \cap MsgsOf(d) = {}
       PROVE  NoDup(a) /\ NoDupMsg(rest) /\ ToSet(a) \cap MsgsOf(rest) = {}
  <2>1. NoDupMsg(rest)
    <3>1. SUFFICES ASSUME NEW i \in 1..Len(rest), NEW j \in 1..Len(rest),
                          rest[i].msg = rest[j].msg
                   PROVE  i = j
      BY DEF NoDupMsg
    <3>2. n + i = n + j
      BY <1>8, <1>12, <3>1 DEF NoDupMsg
    <3>3. QED
      BY <1>1, <1>7, <3>2
  <2>2. ASSUME NEW i \in 1..Len(q), NEW j \in 1..Len(d)
        PROVE  q[i] # d[j].msg
    BY <1>9, <1>12 DEF ToSet, MsgsOf
  <2>3. NoDup(a)
    <3>1. SUFFICES ASSUME NEW i \in 1..Len(a), NEW j \in 1..Len(a), a[i] = a[j]
                   PROVE  i = j
      BY DEF NoDup
    <3>2. CASE i \in 1..Len(q) /\ j \in 1..Len(q)
      BY <1>5, <1>12, <3>1, <3>2 DEF NoDup
    <3>3. CASE i \in 1..Len(q) /\ j \in (Len(q) + 1)..(Len(q) + n)
      BY <1>5, <1>6, <1>9, <2>2, <3>1, <3>3
    <3>4. CASE i \in (Len(q) + 1)..(Len(q) + n) /\ j \in 1..Len(q)
      BY <1>5, <1>6, <1>9, <2>2, <3>1, <3>4
    <3>5. CASE i \in (Len(q) + 1)..(Len(q) + n) /\ j \in (Len(q) + 1)..(Len(q) + n)
      <4>1. i - Len(q) = j - Len(q)
        BY <1>6, <1>9, <1>12, <3>1, <3>5 DEF NoDupMsg
      <4>2. QED
        BY <1>1, <3>5, <4>1
    <3>6. QED
      BY <1>9, <3>2, <3>3, <3>4, <3>5
  <2>4. ToSet(a) \cap MsgsOf(rest) = {}
    <3>1. SUFFICES ASSUME NEW i \in 1..Len(a), NEW j \in 1..Len(rest), a[i] = rest[j].msg
                   PROVE  FALSE
      BY <1>9 DEF ToSet, MsgsOf
    <3>2. CASE i \in 1..Len(q)
      BY <1>5, <1>8, <2>2, <3>1, <3>2
    <3>3. CASE i \in (Len(q) + 1)..(Len(q) + n)
      <4>1. i - Len(q) = n + j /\ i - Len(q) <= n
        BY <1>6, <1>8, <1>9, <1>12, <3>1, <3>3 DEF NoDupMsg
      <4>2. QED
        BY <1>1, <3>3, <4>1
    <3>4. QED
      BY <1>9, <3>2, <3>3
  <2>5. QED
    BY <2>1, <2>3, <2>4
<1>13. QED
  BY <1>4, <1>7, <1>8, <1>10, <1>11, <1>12 DEF a, b, rest

---------------------------------------------------------------------------
(* Steps of a stack.                                                        *)

Ats == {"enter", "serve", "pull", "stop", "wait", "select", "take", "done", "run",
        "check", "push", "wake", "loop"}

\* f is g at another place.
Moved(f, g) ==
  f.op = g.op /\ f.msg = g.msg /\ f.to = g.to /\ f.trigger = g.trigger /\ f.waited = g.waited

LEMMA ReplaceTop ==
  ASSUME NEW s \in Seq(Frame), s # <<>>, NEW f \in Frame
  PROVE  LET r == [s EXCEPT ![Len(s)] = f]
         IN /\ r \in Seq(Frame) /\ Len(r) = Len(s) /\ r[Len(s)] = f
            /\ \A i \in 1..(Len(s) - 1) : r[i] = s[i]
OBVIOUS

LEMMA GotoFacts ==
  ASSUME NEW s \in Seq(Frame), s # <<>>, NEW at \in Ats
  PROVE  /\ Goto(s, at) \in Seq(Frame) /\ Len(Goto(s, at)) = Len(s)
         /\ \A i \in 1..(Len(s) - 1) : Goto(s, at)[i] = s[i]
         /\ Goto(s, at)[Len(s)].at = at /\ Moved(Goto(s, at)[Len(s)], s[Len(s)])
<1> DEFINE f == s[Len(s)]
<1>1. Goto(s, at) = [s EXCEPT ![Len(s)] = [f EXCEPT !.at = at]]
  BY DEF Goto
<1>2. f \in Frame
  OBVIOUS
<1> HIDE DEF f
<1>3. [f EXCEPT !.at = at] \in Frame /\ [f EXCEPT !.at = at].at = at
      /\ Moved([f EXCEPT !.at = at], f)
  BY <1>2 DEF Frame, Ats, Moved
<1> DEFINE g == [f EXCEPT !.at = at]
<1>4. Goto(s, at) = [s EXCEPT ![Len(s)] = g] /\ g \in Frame /\ g.at = at /\ Moved(g, f)
  BY <1>1, <1>3
<1> HIDE DEF g
<1>5. QED
  BY <1>4, ReplaceTop DEF f

LEMMA PopFacts ==
  ASSUME NEW s \in Seq(Frame), s # <<>>
  PROVE  /\ Front(s) \in Seq(Frame) /\ Len(Front(s)) = Len(s) - 1
         /\ \A i \in 1..(Len(s) - 1) : Front(s)[i] = s[i]
<1>1. Len(s) \in Nat /\ Len(s) > 0
  OBVIOUS
<1> DEFINE n == Len(s) - 1
<1> DEFINE r == SubSeq(s, 1, n)
<1>0. n \in 0..Len(s)
  BY <1>1
<1> HIDE DEF n
<1>2. r \in Seq(Frame) /\ Len(r) = n /\ \A i \in 1..n : r[i] = s[i]
  BY <1>0, <1>1
<1>3. Front(s) = r /\ n = Len(s) - 1
  BY DEF Front, n
<1> HIDE DEF r
<1>4. QED
  BY <1>2, <1>3

LEMMA PushFacts ==
  ASSUME NEW s \in Seq(Frame), NEW f \in Frame
  PROVE  /\ Append(s, f) \in Seq(Frame) /\ Len(Append(s, f)) = Len(s) + 1
         /\ Append(s, f)[Len(s) + 1] = f
         /\ \A i \in 1..Len(s) : Append(s, f)[i] = s[i]
OBVIOUS

LEMMA NewFrameType ==
  ASSUME NEW op \in {"get", "receive", "handle", "post", "delay", "send"}, NEW at \in Ats,
         NEW m \in Msgs \cup {NoMsg}, NEW u \in Thread
  PROVE  NewFrame(op, at, m, u) \in Frame
<1>1. 0 \in 0..(TimeMod - 1)
  BY TimeAssumption
<1>2. QED
  BY <1>1 DEF NewFrame, Frame, Ats

\* The stack of t becomes r, which keeps the first k frames.
Changes(t, r, k) ==
  /\ stack' = [stack EXCEPT ![t] = r]
  /\ r \in Seq(Frame) /\ k \in 0..Len(stack[t]) /\ k <= Len(r)
  /\ \A i \in 1..k : r[i] = stack[t][i]

LEMMA RunningTop ==
  ASSUME TypeOK, NEW t \in Thread, Running(t)
  PROVE  /\ stack[t] \in Seq(Frame) /\ stack[t] # <<>> /\ Len(stack[t]) \in Nat \ {0}
         /\ Top(t) \in Frame /\ Top(t) = stack[t][Len(stack[t])]
BY DEF TypeOK, Running, Top

LEMMA GotoChanges ==
  ASSUME TypeOK, NEW t \in Thread, Running(t), NEW at \in Ats, Step(t, Goto(stack[t], at))
  PROVE  LET r == Goto(stack[t], at)
         IN /\ Changes(t, r, Len(stack[t]) - 1) /\ Len(r) = Len(stack[t])
            /\ r[Len(r)].at = at /\ Moved(r[Len(r)], Top(t))
BY RunningTop, GotoFacts DEF Step, Changes

LEMMA PopChanges ==
  ASSUME TypeOK, NEW t \in Thread, Running(t), Step(t, Front(stack[t]))
  PROVE  LET r == Front(stack[t])
         IN Changes(t, r, Len(stack[t]) - 1) /\ Len(r) = Len(stack[t]) - 1
BY RunningTop, PopFacts DEF Step, Changes

LEMMA PushChanges ==
  ASSUME TypeOK, NEW t \in Thread, Running(t), NEW f \in Frame, Step(t, Append(stack[t], f))
  PROVE  LET r == Append(stack[t], f)
         IN Changes(t, r, Len(stack[t])) /\ Len(r) = Len(stack[t]) + 1 /\ r[Len(r)] = f
BY RunningTop, PushFacts DEF Step, Changes

LEMMA GotoPushChanges ==
  ASSUME TypeOK, NEW t \in Thread, Running(t), NEW at \in Ats, NEW f \in Frame,
         Step(t, Append(Goto(stack[t], at), f))
  PROVE  LET r == Append(Goto(stack[t], at), f)
             n == Len(stack[t])
         IN /\ Changes(t, r, n - 1) /\ Len(r) = n + 1
            /\ r[n].at = at /\ Moved(r[n], Top(t)) /\ r[n + 1] = f
<1>1. /\ stack[t] \in Seq(Frame) /\ stack[t] # <<>> /\ Len(stack[t]) \in Nat \ {0}
      /\ Top(t) = stack[t][Len(stack[t])]
  BY RunningTop
<1> DEFINE g == Goto(stack[t], at)
<1>2. /\ g \in Seq(Frame) /\ Len(g) = Len(stack[t])
      /\ \A i \in 1..(Len(stack[t]) - 1) : g[i] = stack[t][i]
      /\ g[Len(stack[t])].at = at /\ Moved(g[Len(stack[t])], Top(t))
  BY <1>1, GotoFacts
<1> HIDE DEF g
<1>3. /\ Append(g, f) \in Seq(Frame) /\ Len(Append(g, f)) = Len(g) + 1
      /\ Append(g, f)[Len(g) + 1] = f /\ \A i \in 1..Len(g) : Append(g, f)[i] = g[i]
  BY <1>2, PushFacts
<1>4. stack' = [stack EXCEPT ![t] = Append(g, f)]
  BY DEF Step, g
<1>5. Changes(t, Append(g, f), Len(stack[t]) - 1)
  BY <1>1, <1>2, <1>3, <1>4 DEF Changes
<1>6. QED
  BY <1>1, <1>2, <1>3, <1>5 DEF g

LEMMA ChangesFacts ==
  ASSUME TypeOK, NEW t \in Thread, NEW r, NEW k, Changes(t, r, k)
  PROVE  /\ stack' \in [Thread -> Seq(Frame)] /\ stack'[t] = r
         /\ \A u \in Thread \ {t} : stack'[u] = stack[u]
         /\ Len(r) \in Nat /\ k \in Nat /\ Len(stack[t]) \in Nat
         /\ \A i \in 1..Len(r) : i \in 1..k \/ i \in (k + 1)..Len(r)
         /\ \A i \in 1..k : i \in 1..Len(r) /\ i \in 1..Len(stack[t]) /\ r[i] = stack[t][i]
<1>1. stack \in [Thread -> Seq(Frame)] /\ stack[t] \in Seq(Frame)
  BY DEF TypeOK
<1>2. stack' \in [Thread -> Seq(Frame)] /\ stack'[t] = r
  BY <1>1 DEF Changes
<1>3. \A u \in Thread \ {t} : stack'[u] = stack[u]
  BY <1>1 DEF Changes
<1>4. Len(r) \in Nat /\ k \in Nat /\ Len(stack[t]) \in Nat /\ k <= Len(r) /\ k <= Len(stack[t])
  BY <1>1 DEF Changes
<1>5. QED
  BY <1>2, <1>3, <1>4 DEF Changes

LEMMA ShapeStep ==
  ASSUME TypeOK, Shape, NEW t \in Thread, NEW r, NEW k, Changes(t, r, k),
         nmsgs <= nmsgs', nmsgs' \in Nat, \A m \in 1..nmsgs : sender'[m] = sender[m],
         k < Len(stack[t]) \/ Top(t).at \notin {"check", "push"},
         \A i \in (k + 1)..Len(r) :
           /\ FrameOK(r[i], nmsgs')
           /\ r[i].op = "get" => i = 1
           /\ r[i].at \in {"check", "push"} => i = Len(r)
           /\ Caller(r[i]) => sender'[r[i].msg] = {t}
  PROVE  Shape'
<1>1. /\ stack'[t] = r /\ \A u \in Thread \ {t} : stack'[u] = stack[u]
      /\ Len(r) \in Nat /\ k \in Nat /\ Len(stack[t]) \in Nat
      /\ \A i \in 1..Len(r) : i \in 1..k \/ i \in (k + 1)..Len(r)
      /\ \A i \in 1..k : i \in 1..Len(r) /\ i \in 1..Len(stack[t]) /\ r[i] = stack[t][i]
  BY ChangesFacts
<1>2. nmsgs \in Nat
  BY DEF TypeOK
<1>3. \A f : FrameOK(f, nmsgs) => FrameOK(f, nmsgs')
  BY <1>2 DEF FrameOK
<1>4. ASSUME NEW u \in Thread, NEW i \in 1..Len(stack[u])
      PROVE  /\ FrameOK(stack[u][i], nmsgs')
             /\ stack[u][i].op = "get" => i = 1
             /\ stack[u][i].at \in {"check", "push"} => i = Len(stack[u])
             /\ Caller(stack[u][i]) => sender'[stack[u][i].msg] = {u}
  <2>1. /\ FrameOK(stack[u][i], nmsgs)
        /\ stack[u][i].op = "get" => i = 1
        /\ stack[u][i].at \in {"check", "push"} => i = Len(stack[u])
        /\ Caller(stack[u][i]) => sender[stack[u][i].msg] = {u}
    BY <1>4 DEF Shape
  <2>2. Caller(stack[u][i]) => stack[u][i].msg \in 1..nmsgs
    BY <2>1 DEF FrameOK
  <2>3. QED
    BY <1>3, <2>1, <2>2
<1>5. ASSUME NEW i \in 1..k PROVE r[i].at \in {"check", "push"} => i = Len(r)
  <2>1. r[i].at \in {"check", "push"} => i = Len(stack[t])
    BY <1>1, <1>4
  <2>2. i = Len(stack[t]) => k = Len(stack[t]) /\ r[i] = Top(t)
    BY <1>1 DEF Top, Changes
  <2>3. QED
    BY <1>1, <2>1, <2>2
<1>6. ASSUME NEW u \in Thread, NEW i \in 1..Len(stack'[u])
      PROVE  /\ FrameOK(stack'[u][i], nmsgs')
             /\ stack'[u][i].op = "get" => i = 1
             /\ stack'[u][i].at \in {"check", "push"} => i = Len(stack'[u])
             /\ Caller(stack'[u][i]) => sender'[stack'[u][i].msg] = {u}
  <2>1. CASE u # t
    <3>1. stack'[u] = stack[u]
      BY <1>1, <2>1
    <3>2. i \in 1..Len(stack[u])
      BY <3>1
    <3>3. QED
      BY <1>4, <3>1, <3>2
  <2>2. CASE u = t /\ i \in 1..k
    <3>1. stack'[u][i] = stack[t][i] /\ i \in 1..Len(stack[t]) /\ stack'[u] = r /\ r[i] = stack[t][i]
      BY <1>1, <2>2
    <3>2. /\ FrameOK(stack[t][i], nmsgs')
          /\ stack[t][i].op = "get" => i = 1
          /\ Caller(stack[t][i]) => sender'[stack[t][i].msg] = {t}
      BY <1>4, <3>1
    <3>3. stack[t][i].at \in {"check", "push"} => i = Len(r)
      BY <1>5, <2>2, <3>1
    <3>4. QED
      BY <2>2, <3>1, <3>2, <3>3
  <2>3. CASE u = t /\ i \in (k + 1)..Len(r)
    BY <1>1, <2>3
  <2>4. QED
    BY <1>1, <2>1, <2>2, <2>3
<1>7. QED
  BY <1>6 DEF Shape, FrameOK, Caller

\* No frame starts a handler or begins to wait for one.
CalmFrame(f) == ~(f.op = "handle" /\ f.msg \in Msgs) /\ ~(f.op \in {"receive", "send"} /\ f.at = "done")

LEMMA CalmFrames ==
  ASSUME TypeOK, Nested, AwaitedRan, NEW t \in Thread, NEW r, NEW k, Changes(t, r, k),
         \A i \in (k + 1)..Len(r) : CalmFrame(r[i])
  PROVE  /\ \A m \in Msgs : (NoHandler(m) => NoHandler(m)') /\ (NoAwait(m) => NoAwait(m)')
         /\ Nested'
         /\ handled' = handled => AwaitedRan'
<1>1. /\ stack'[t] = r /\ \A u \in Thread \ {t} : stack'[u] = stack[u]
      /\ Len(r) \in Nat /\ k \in Nat /\ Len(stack[t]) \in Nat
      /\ \A i \in 1..Len(r) : i \in 1..k \/ i \in (k + 1)..Len(r)
      /\ \A i \in 1..k : i \in 1..Len(r) /\ i \in 1..Len(stack[t]) /\ r[i] = stack[t][i]
  BY ChangesFacts
<1>2. ASSUME NEW u \in Thread, NEW i \in 1..Len(stack'[u]), NEW m \in Msgs,
             Handles(stack'[u][i], m) \/ Awaits(stack'[u][i], m)
      PROVE  i \in 1..Len(stack[u]) /\ stack'[u][i] = stack[u][i]
  <2>1. CASE u # t
    BY <1>1, <2>1
  <2>2. CASE u = t /\ i \in 1..k
    BY <1>1, <2>2
  <2>3. CASE u = t /\ i \in (k + 1)..Len(r)
    BY <1>1, <1>2, <2>3 DEF CalmFrame, Handles, Awaits
  <2>4. QED
    BY <1>1, <2>1, <2>2, <2>3
<1>3. \A m \in Msgs : (NoHandler(m) => NoHandler(m)') /\ (NoAwait(m) => NoAwait(m)')
  BY <1>2 DEF NoHandler, NoAwait, Handles, Awaits
<1>4. Nested'
  <2>1. SUFFICES ASSUME NEW x \in Thread, NEW u \in Thread, NEW m \in Msgs,
                        NEW i \in 1..Len(stack'[x]), NEW j \in 1..Len(stack'[u]),
                        Awaits(stack'[x][i], m), Handles(stack'[u][j], m)
                 PROVE  u = x /\ j = i + 1
    BY DEF Nested, Awaits, Handles
  <2>2. /\ i \in 1..Len(stack[x]) /\ Awaits(stack[x][i], m)
        /\ j \in 1..Len(stack[u]) /\ Handles(stack[u][j], m)
    BY <1>2, <2>1
  <2>3. QED
    BY <2>2 DEF Nested
<1>5. ASSUME handled' = handled PROVE AwaitedRan'
  <2>1. SUFFICES ASSUME NEW x \in Thread, NEW m \in Msgs, NEW i \in 1..Len(stack'[x]),
                        Awaits(stack'[x][i], m)
                 PROVE  handled'[m] = 1
    BY DEF AwaitedRan, Awaits
  <2>2. i \in 1..Len(stack[x]) /\ Awaits(stack[x][i], m)
    BY <1>2, <2>1
  <2>3. QED
    BY <1>5, <2>2 DEF AwaitedRan
<1>6. QED
  BY <1>3, <1>4, <1>5

LEMMA PendingChanges ==
  ASSUME TypeOK, NEW t \in Thread, NEW r, NEW k, Changes(t, r, k)
  PROVE  /\ \A u \in Thread \ {t} : Pending(u)' = Pending(u)
         /\ r = <<>> \/ r[Len(r)].at \notin {"check", "push"} => Pending(t)' = {}
         /\ r # <<>> /\ r[Len(r)].at \in {"check", "push"} => Pending(t)' = {r[Len(r)].msg}
<1>1. stack'[t] = r /\ \A u \in Thread \ {t} : stack'[u] = stack[u]
  BY ChangesFacts
<1>2. QED
  BY <1>1 DEF Pending, Running, Top

\* Messages move from one place to another, and nowhere else.
MovesTo(src, dst) ==
  /\ \A p \in Place, m \in Msgs : In(p, m)' => In(p, m) \/ (p = dst /\ In(src, m))
  /\ \A m \in Msgs : In(src, m)' /\ In(dst, m)' => src = dst

LEMMA MovesOnce ==
  ASSUME Once, HeldExists, NEW src \in Place, NEW dst \in Place, MovesTo(src, dst),
         nmsgs' = nmsgs
  PROVE  Once' /\ HeldExists' /\ \A m \in Msgs : Held(m)' => Held(m)
<1>1. ASSUME NEW p \in Place, NEW r \in Place, NEW m \in Msgs, In(p, m)', In(r, m)'
      PROVE  p = r
  <2>1. /\ In(p, m) \/ (p = dst /\ In(src, m))
        /\ In(r, m) \/ (r = dst /\ In(src, m))
        /\ In(src, m)' /\ In(dst, m)' => src = dst
    BY <1>1 DEF MovesTo
  <2>2. QED
    BY <1>1, <2>1 DEF Once
<1>2. \A m \in Msgs : Held(m)' => Held(m)
  BY DEF Held, MovesTo
<1>3. QED
  BY <1>1, <1>2 DEF Once, HeldExists

\* What a step keeps that starts no handler.
LEMMA CalmStep ==
  ASSUME SendInv, TypeOK', NoDups', NEW t \in Thread, NEW r, NEW k, Changes(t, r, k),
         k < Len(stack[t]) \/ Top(t).at \notin {"check", "push"},
         \A i \in (k + 1)..Len(r) :
           /\ FrameOK(r[i], nmsgs) /\ CalmFrame(r[i])
           /\ r[i].op = "get" => i = 1
           /\ r[i].at \in {"check", "push"} => i = Len(r)
           /\ Caller(r[i]) => sender[r[i].msg] = {t},
         NEW src \in Place, NEW dst \in Place, MovesTo(src, dst),
         UNCHANGED <<nmsgs, sender, handled, cleared>>
  PROVE  /\ Shape' /\ Once' /\ HeldExists' /\ Nested' /\ AwaitedRan'
         /\ \A m \in Msgs : Held(m)' => Held(m)
         /\ \A m \in Msgs : (NoHandler(m) => NoHandler(m)') /\ (NoAwait(m) => NoAwait(m)')
         /\ UNCHANGED <<ready, returned>> => SendInv'
<1>1. nmsgs \in Nat /\ nmsgs <= nmsgs'
  BY DEF SendInv, TypeOK
<1>2. Shape'
  BY <1>1, ShapeStep DEF SendInv
<1>3. /\ \A m \in Msgs : (NoHandler(m) => NoHandler(m)') /\ (NoAwait(m) => NoAwait(m)')
      /\ Nested' /\ AwaitedRan'
  BY CalmFrames DEF SendInv
<1>4. Once' /\ HeldExists' /\ \A m \in Msgs : Held(m)' => Held(m)
  BY MovesOnce DEF SendInv
<1>5. ASSUME UNCHANGED <<ready, returned>> PROVE SendInv'
  <2>1. Untouched'
    BY <1>3, <1>4, <1>5 DEF SendInv, Untouched, Started0
  <2>2. Outcome'
    BY <1>3, <1>5 DEF SendInv, Outcome
  <2>3. QED
    BY <1>2, <1>3, <1>4, <2>1, <2>2 DEF SendInv
<1>6. QED
  BY <1>2, <1>3, <1>4, <1>5

LEMMA QueuesSame ==
  ASSUME SendInv, NEW t \in Thread, UNCHANGED <<msgq_, dmsgq_, sendlist_>>,
         \A u \in Thread : Pending(u)' \subseteq Pending(u)
  PROVE  NoDups' /\ <<"frame", t>> \in Place /\ MovesTo(<<"frame", t>>, <<"frame", t>>)
<1>1. NoDups'
  BY DEF SendInv, NoDups
<1>2. <<"frame", t>> \in Place
  BY DEF Place
<1>3. \A p \in Place, m \in Msgs : In(p, m)' => In(p, m)
  BY DEF In, Place, Posted, Delayed, Sent
<1>4. QED
  BY <1>1, <1>2, <1>3 DEF MovesTo

LEMMA TopFacts ==
  ASSUME SendInv, NEW t \in Thread, Running(t)
  PROVE  /\ FrameOK(Top(t), nmsgs) /\ (Top(t).op = "get" => Len(stack[t]) = 1)
         /\ Caller(Top(t)) => sender[Top(t).msg] = {t}
         /\ stack[t] \in Seq(Frame) /\ Len(stack[t]) \in Nat \ {0} /\ Top(t) \in Frame
         /\ Top(t) = stack[t][Len(stack[t])] /\ Len(stack[t]) \in 1..Len(stack[t])
<1>1. TypeOK
  BY DEF SendInv
<1>2. /\ stack[t] \in Seq(Frame) /\ Len(stack[t]) \in Nat \ {0} /\ Top(t) \in Frame
      /\ Top(t) = stack[t][Len(stack[t])] /\ Len(stack[t]) \in 1..Len(stack[t])
  BY <1>1, RunningTop
<1>3. QED
  BY <1>2 DEF SendInv, Shape

SendState == <<nmsgs, sender, handled, cleared, ready, returned>>

\* A step of one stack that touches no queue.
LEMMA QuietStep ==
  ASSUME SendInv, TypeOK', NEW t \in Thread, NEW r, NEW k, Changes(t, r, k),
         k < Len(stack[t]) \/ Top(t).at \notin {"check", "push"},
         \A i \in (k + 1)..Len(r) :
           /\ FrameOK(r[i], nmsgs) /\ CalmFrame(r[i])
           /\ r[i].op = "get" => i = 1
           /\ r[i].at \notin {"check", "push"}
           /\ Caller(r[i]) => sender[r[i].msg] = {t},
         UNCHANGED <<msgq_, dmsgq_, sendlist_, SendState>>
  PROVE  SendInv'
<1> USE DEF SendState
<1>0. TypeOK
  BY DEF SendInv
<1>1. r = <<>> \/ r[Len(r)].at \notin {"check", "push"}
  <2>1. SUFFICES ASSUME r # <<>> PROVE r[Len(r)].at \notin {"check", "push"}
    OBVIOUS
  <2>2. Len(r) \in 1..Len(r) /\ Len(r) \in Nat /\ k \in Nat /\ Len(stack[t]) \in Nat
    BY <1>0, <2>1, ChangesFacts DEF Changes
  <2>3. CASE Len(r) \in (k + 1)..Len(r)
    BY <2>3
  <2>4. CASE Len(r) \in 1..k
    <3>1. Len(r) = k /\ k \in 1..Len(stack[t]) /\ r[Len(r)] = stack[t][k]
      BY <1>0, <2>2, <2>4, ChangesFacts DEF Changes
    <3>2. stack[t][k].at \in {"check", "push"} => k = Len(stack[t])
      BY <3>1 DEF SendInv, Shape
    <3>3. QED
      BY <2>2, <3>1, <3>2 DEF Top
  <2>5. QED
    BY <1>0, <2>2, <2>3, <2>4, ChangesFacts
<1>2. \A u \in Thread : Pending(u)' \subseteq Pending(u)
  BY <1>0, <1>1, PendingChanges
<1>3. NoDups' /\ <<"frame", t>> \in Place /\ MovesTo(<<"frame", t>>, <<"frame", t>>)
  BY <1>2, QueuesSame
<1>4. \A i \in (k + 1)..Len(r) :
           /\ FrameOK(r[i], nmsgs) /\ CalmFrame(r[i])
           /\ r[i].op = "get" => i = 1
           /\ r[i].at \in {"check", "push"} => i = Len(r)
           /\ Caller(r[i]) => sender[r[i].msg] = {t}
  OBVIOUS
<1>5. QED
  BY <1>3, <1>4, CalmStep

\* The places of each kind of activation but those that queue a message or wait for a
\* handler.
GoodAt(op, at) ==
  \/ op = "get" /\ at \in {"enter", "serve", "pull", "stop", "select"}
  \/ op = "receive" /\ at = "take"
  \/ op = "send" /\ at \in {"wake", "loop", "serve", "wait", "select"}

LEMMA MovedFrame ==
  ASSUME NEW f, NEW g, NEW n, FrameOK(g, n), Moved(f, g), GoodAt(f.op, f.at)
  PROVE  /\ FrameOK(f, n) /\ CalmFrame(f) /\ f.at \notin {"check", "push"}
         /\ f.at \in Ats /\ f.op = g.op /\ f.msg = g.msg
BY DEF FrameOK, Moved, GoodAt, CalmFrame, Caller, Ats

\* An activation goes on.
LEMMA GotoStep ==
  ASSUME SendInv, TypeOK', NEW t \in Thread, Running(t), NEW at, GoodAt(Top(t).op, at),
         Step(t, Goto(stack[t], at)), UNCHANGED <<msgq_, dmsgq_, sendlist_, SendState>>
  PROVE  SendInv'
<1> DEFINE r == Goto(stack[t], at)
<1> DEFINE n == Len(stack[t])
<1>1. TypeOK /\ at \in Ats
  BY DEF SendInv, GoodAt, Ats
<1>2. /\ Changes(t, r, n - 1) /\ Len(r) = n /\ r[n].at = at /\ Moved(r[n], Top(t))
  BY <1>1, GotoChanges
<1>3. /\ FrameOK(Top(t), nmsgs) /\ (Top(t).op = "get" => n = 1)
      /\ Caller(Top(t)) => sender[Top(t).msg] = {t}
      /\ n \in Nat \ {0}
  BY TopFacts
<1> HIDE DEF r
<1>4. r[n].op = Top(t).op /\ r[n].msg = Top(t).msg
  BY <1>2 DEF Moved
<1>5. FrameOK(r[n], nmsgs) /\ CalmFrame(r[n]) /\ r[n].at \notin {"check", "push"}
  BY <1>2, <1>3, <1>4, MovedFrame
<1>6. \A i \in ((n - 1) + 1)..Len(r) : i = n
  BY <1>2, <1>3
<1>7. Caller(r[n]) => sender[r[n].msg] = {t}
  BY <1>3, <1>4 DEF Caller
<1>8. n - 1 < Len(stack[t])
  BY <1>3
<1> HIDE DEF n
<1>9. QED
  BY <1>2, <1>3, <1>4, <1>5, <1>6, <1>7, <1>8, QuietStep

\* An activation ends.
LEMMA PopStep ==
  ASSUME SendInv, TypeOK', NEW t \in Thread, Running(t), Step(t, Front(stack[t])),
         UNCHANGED <<msgq_, dmsgq_, sendlist_, SendState>>
  PROVE  SendInv'
<1>1. TypeOK /\ Len(stack[t]) \in Nat \ {0}
  BY TopFacts DEF SendInv
<1>2. /\ Changes(t, Front(stack[t]), Len(stack[t]) - 1)
      /\ Len(Front(stack[t])) = Len(stack[t]) - 1
  BY <1>1, PopChanges
<1>3. \A i \in ((Len(stack[t]) - 1) + 1)..Len(Front(stack[t])) : FALSE
  BY <1>1, <1>2
<1>4. Len(stack[t]) - 1 < Len(stack[t])
  BY <1>1
<1>5. QED
  BY <1>2, <1>3, <1>4, QuietStep

LEMMA TimeType ==
  ASSUME TypeOK
  PROVE  Time \in 0..(TimeMod - 1) /\ \A x \in Int : x % TimeMod \in 0..(TimeMod - 1)
BY TimeAssumption, MsgBounds DEF TypeOK, Time

LEMMA AtFacts ==
  ASSUME NEW t \in Thread, NEW op, NEW at, At(t, op, at)
  PROVE  Running(t) /\ Top(t).op = op /\ Top(t).at = at
BY DEF At

\* The stack keeps its type.
LEMMA StackType ==
  ASSUME TypeOK, NEW t \in Thread, Running(t),
         \/ \E at \in Ats : Step(t, Goto(stack[t], at))
         \/ Step(t, Front(stack[t])) \/ Step(t, <<>>)
         \/ \E f \in Frame : Step(t, Append(stack[t], f))
         \/ \E at \in Ats, f \in Frame : Step(t, Append(Goto(stack[t], at), f))
  PROVE  stack' \in [Thread -> Seq(Frame)]
<1>1. CASE \E at \in Ats : Step(t, Goto(stack[t], at))
  BY <1>1, GotoChanges, ChangesFacts
<1>2. CASE Step(t, Front(stack[t]))
  BY <1>2, PopChanges, ChangesFacts
<1>3. CASE Step(t, <<>>)
  BY <1>3 DEF Step, TypeOK
<1>4. CASE \E f \in Frame : Step(t, Append(stack[t], f))
  BY <1>4, PushChanges, ChangesFacts
<1>5. CASE \E at \in Ats, f \in Frame : Step(t, Append(Goto(stack[t], at), f))
  BY <1>5, GotoPushChanges, ChangesFacts
<1>6. QED
  BY <1>1, <1>2, <1>3, <1>4, <1>5

LEMMA WakeType ==
  ASSUME NEW T, Wake(T)
  PROVE  signaled_' \in [Thread -> BOOLEAN]
BY DEF Wake

LEMMA GetEnterSend ==
  ASSUME SendInv, NEW t \in Thread, GetEnter(t)
  PROVE  SendInv'
<1>1. TypeOK /\ Running(t) /\ Top(t).op = "get" /\ "serve" \in Ats
  BY AtFacts DEF GetEnter, SendInv, Ats
<1>2. stack' \in [Thread -> Seq(Frame)]
  BY <1>1, StackType DEF GetEnter
<1>3. msCurrent' \in [Thread -> 0..(TimeMod - 1)]
  BY <1>1, TimeType DEF GetEnter, TypeOK
<1>4. TypeOK'
  BY <1>1, <1>2, <1>3 DEF GetEnter, TypeOK, queueVars, sendVars, msgVars
<1>5. QED
  BY <1>1, <1>4, GotoStep DEF GetEnter, GoodAt, SendState, queueVars, sendVars, msgVars

LEMMA ReceiveSendsSend ==
  ASSUME SendInv, NEW t \in Thread, ReceiveSends(t)
  PROVE  SendInv'
<1> DEFINE at == IF Top(t).op = "get" THEN "pull" ELSE "wait"
<1> DEFINE f == NewFrame("receive", "take", NoMsg, t)
<1> DEFINE n == Len(stack[t])
<1>1. TypeOK /\ Running(t) /\ Top(t).at = "serve"
  BY DEF ReceiveSends, SendInv
<1>2. /\ FrameOK(Top(t), nmsgs) /\ (Top(t).op = "get" => n = 1)
      /\ Caller(Top(t)) => sender[Top(t).msg] = {t}
      /\ n \in Nat \ {0} /\ Top(t) \in Frame
  BY <1>1, TopFacts
<1>3. GoodAt(Top(t).op, at) /\ at \in Ats
  BY <1>1, <1>2 DEF FrameOK, GoodAt, Ats, Frame
<1>4. f \in Frame
  BY NewFrameType DEF Ats
<1>5. Step(t, IF has_sends_[t] THEN Append(Goto(stack[t], at), f) ELSE Goto(stack[t], at))
  BY DEF ReceiveSends
<1> HIDE DEF at, f
<1>6. TypeOK'
  <2>1. stack' \in [Thread -> Seq(Frame)]
    BY <1>1, <1>3, <1>4, <1>5, StackType
  <2>2. QED
    BY <1>1, <2>1 DEF ReceiveSends, TypeOK, queueVars, sendVars, waitVars, msgVars
<1>7. UNCHANGED <<msgq_, dmsgq_, sendlist_, SendState>>
  BY DEF ReceiveSends, queueVars, sendVars, msgVars, SendState
<1>8. CASE ~has_sends_[t]
  BY <1>1, <1>3, <1>5, <1>6, <1>7, <1>8, GotoStep
<1>9. CASE has_sends_[t]
  <2> DEFINE r == Append(Goto(stack[t], at), f)
  <2>1. /\ Changes(t, r, n - 1) /\ Len(r) = n + 1
        /\ r[n].at = at /\ Moved(r[n], Top(t)) /\ r[n + 1] = f
    BY <1>1, <1>3, <1>4, <1>5, <1>9, GotoPushChanges
  <2> HIDE DEF r
  <2>2. r[n].op = Top(t).op /\ r[n].msg = Top(t).msg
    BY <2>1 DEF Moved
  <2>3. FrameOK(r[n], nmsgs) /\ CalmFrame(r[n]) /\ r[n].at \notin {"check", "push"}
    BY <1>2, <1>3, <2>1, <2>2, MovedFrame
  <2>4. /\ FrameOK(f, nmsgs) /\ CalmFrame(f) /\ f.at \notin {"check", "push"}
        /\ f.op # "get" /\ ~Caller(f)
    BY DEF f, NewFrame, FrameOK, CalmFrame, Caller
  <2>5. Caller(r[n]) => sender[r[n].msg] = {t}
    BY <1>2, <2>2 DEF Caller
  <2>6. \A i \in ((n - 1) + 1)..Len(r) : i = n \/ i = n + 1
    BY <1>2, <2>1
  <2>7. n - 1 < Len(stack[t])
    BY <1>2
  <2> HIDE DEF n
  <2>8. QED
    BY <1>2, <1>6, <1>7, <2>1, <2>2, <2>3, <2>4, <2>5, <2>6, <2>7, QuietStep
<1>10. QED
  BY <1>8, <1>9

LEMMA GetStopSend ==
  ASSUME SendInv, NEW t \in Thread, GetStop(t)
  PROVE  SendInv'
<1>1. TypeOK /\ Running(t) /\ Top(t).op = "get" /\ "select" \in Ats
  BY AtFacts DEF GetStop, SendInv, Ats
<1>2. stack' \in [Thread -> Seq(Frame)]
  BY <1>1, StackType DEF GetStop
<1>3. wakeAt' \in [Thread -> Int] /\ fWait_' \in [Thread -> BOOLEAN]
  <2>1. wakeAt \in [Thread -> Int] /\ fWait_ \in [Thread -> BOOLEAN] /\ ticks \in Int
    BY <1>1 DEF TypeOK
  <2>2. (IF wakeAt[t] = Never THEN wakeAt[t] ELSE ticks + wakeAt[t]) \in Int
    BY <2>1
  <2>3. QED
    BY <2>1, <2>2 DEF GetStop, waitVars
<1>4. TypeOK'
  BY <1>1, <1>2, <1>3 DEF GetStop, TypeOK, queueVars, sendVars, msgVars
<1>5. UNCHANGED <<msgq_, dmsgq_, sendlist_, SendState>>
  BY DEF GetStop, queueVars, sendVars, msgVars, SendState
<1>6. CASE Step(t, Goto(stack[t], "select"))
  BY <1>1, <1>4, <1>5, <1>6, GotoStep DEF GoodAt
<1>7. CASE Step(t, <<>>)
  <2>1. Changes(t, <<>>, 0) /\ 0 < Len(stack[t])
    BY <1>1, <1>7, TopFacts DEF Step, Changes
  <2>2. \A i \in (0 + 1)..Len(<<>>) : FALSE
    OBVIOUS
  <2>3. QED
    BY <1>4, <1>5, <2>1, <2>2, QuietStep
<1>8. QED
  BY <1>6, <1>7 DEF GetStop

LEMMA AfterWaitFacts ==
  ASSUME SendInv, NEW t \in Thread, InSelect(t)
  PROVE  LET r == AfterWait(stack[t])
             n == Len(stack[t])
         IN /\ r \in Seq(Frame) /\ Len(r) = n /\ \A i \in 1..(n - 1) : r[i] = stack[t][i]
            /\ GoodAt(r[n].op, r[n].at) /\ r[n].at \in {"enter", "loop"}
            /\ r[n].op = Top(t).op /\ r[n].msg = Top(t).msg /\ FrameOK(r[n], nmsgs)
            /\ r[n].op = "send" => r[n].waited /\ r[n].to = Top(t).to
<1> DEFINE s == stack[t]
<1> DEFINE n == Len(s)
<1> DEFINE f == s[n]
<1>1. Running(t) /\ Top(t).at = "select"
  BY DEF InSelect
<1>2. /\ FrameOK(f, nmsgs) /\ s \in Seq(Frame) /\ s # <<>> /\ n \in Nat \ {0} /\ f \in Frame
      /\ Top(t) = f
  BY <1>1, TopFacts DEF Running
<1>3. f.op \in {"get", "send"}
  BY <1>1, <1>2 DEF FrameOK, Frame
<1>4. AfterWait(s) = IF f.op = "get" THEN Goto(s, "enter")
                     ELSE [s EXCEPT ![n].at = "loop", ![n].waited = TRUE]
  BY DEF AfterWait
<1>5. CASE f.op = "get"
  <2>1. "enter" \in Ats
    BY DEF Ats
  <2>2. /\ Goto(s, "enter") \in Seq(Frame) /\ Len(Goto(s, "enter")) = n
        /\ \A i \in 1..(n - 1) : Goto(s, "enter")[i] = s[i]
        /\ Goto(s, "enter")[n].at = "enter" /\ Moved(Goto(s, "enter")[n], f)
    BY <1>2, <2>1, GotoFacts
  <2>3. GoodAt(Goto(s, "enter")[n].op, "enter") /\ Goto(s, "enter")[n].op = "get"
    BY <1>5, <2>2 DEF GoodAt, Moved
  <2>4. FrameOK(Goto(s, "enter")[n], nmsgs)
    BY <1>2, <2>2, <2>3, MovedFrame
  <2>5. QED
    BY <1>2, <1>4, <1>5, <2>2, <2>3, <2>4 DEF Moved
<1>6. CASE f.op = "send"
  <2> DEFINE g == [f EXCEPT !.at = "loop", !.waited = TRUE]
  <2>1. [s EXCEPT ![n].at = "loop", ![n].waited = TRUE] = [s EXCEPT ![n] = g]
    BY <1>2
  <2>2. /\ g \in Frame /\ g.at = "loop" /\ g.waited = TRUE /\ g.op = f.op /\ g.msg = f.msg
        /\ g.to = f.to
    BY <1>2 DEF Frame
  <2> HIDE DEF g
  <2>3. LET r == [s EXCEPT ![Len(s)] = g]
        IN /\ r \in Seq(Frame) /\ Len(r) = Len(s) /\ r[Len(s)] = g
           /\ \A i \in 1..(Len(s) - 1) : r[i] = s[i]
    BY <1>2, <2>2, ReplaceTop
  <2>4. FrameOK(g, nmsgs) /\ GoodAt(g.op, g.at)
    BY <1>2, <1>6, <2>2 DEF FrameOK, GoodAt, Caller
  <2>5. QED
    BY <1>2, <1>4, <1>6, <2>1, <2>2, <2>3, <2>4
<1>7. QED
  BY <1>3, <1>5, <1>6

\* Back from Wait.
LEMMA AfterWaitStep ==
  ASSUME SendInv, NEW t \in Thread, InSelect(t), Step(t, AfterWait(stack[t])),
         signaled_' \in [Thread -> BOOLEAN], fWait_' \in [Thread -> BOOLEAN],
         UNCHANGED <<queueVars, sendVars, fStop_, msCurrent, wakeAt, ticks, msgVars, ios>>
  PROVE  SendInv'
<1> DEFINE r == AfterWait(stack[t])
<1> DEFINE n == Len(stack[t])
<1>1. TypeOK /\ Running(t)
  BY DEF SendInv, InSelect
<1>2. /\ FrameOK(Top(t), nmsgs) /\ (Top(t).op = "get" => n = 1)
      /\ Caller(Top(t)) => sender[Top(t).msg] = {t}
      /\ n \in Nat \ {0} /\ Top(t) = stack[t][n]
  BY <1>1, TopFacts
<1>3. /\ r \in Seq(Frame) /\ Len(r) = n /\ \A i \in 1..(n - 1) : r[i] = stack[t][i]
      /\ GoodAt(r[n].op, r[n].at) /\ r[n].at \in {"enter", "loop"}
      /\ r[n].op = Top(t).op /\ r[n].msg = Top(t).msg /\ FrameOK(r[n], nmsgs)
  BY AfterWaitFacts
<1>4. stack' = [stack EXCEPT ![t] = r]
  BY DEF Step
<1> HIDE DEF r
<1>5. Changes(t, r, n - 1) /\ n - 1 < Len(stack[t])
  BY <1>2, <1>3, <1>4 DEF Changes
<1>6. stack' \in [Thread -> Seq(Frame)]
  BY <1>1, <1>5, ChangesFacts
<1>7. TypeOK'
  BY <1>1, <1>6 DEF TypeOK, queueVars, sendVars, msgVars
<1>8. UNCHANGED <<msgq_, dmsgq_, sendlist_, SendState>>
  BY DEF queueVars, sendVars, msgVars, SendState
<1>9. CalmFrame(r[n]) /\ r[n].at \notin {"check", "push"}
  BY <1>3 DEF CalmFrame, GoodAt
<1>10. Caller(r[n]) => sender[r[n].msg] = {t}
  BY <1>2, <1>3 DEF Caller
<1>11. \A i \in ((n - 1) + 1)..Len(r) : i = n
  BY <1>2, <1>3
<1> HIDE DEF n
<1>12. QED
  BY <1>2, <1>3, <1>5, <1>7, <1>8, <1>9, <1>10, <1>11, QuietStep

LEMMA WaitWokenSend ==
  ASSUME SendInv, NEW t \in Thread, WaitWoken(t)
  PROVE  SendInv'
<1>1. signaled_' \in [Thread -> BOOLEAN] /\ fWait_' \in [Thread -> BOOLEAN]
  BY DEF SendInv, TypeOK, WaitWoken
<1>2. QED
  BY <1>1, AfterWaitStep DEF WaitWoken

LEMMA WaitTimeoutSend ==
  ASSUME SendInv, NEW t \in Thread, WaitTimeout(t)
  PROVE  SendInv'
<1>1. signaled_' \in [Thread -> BOOLEAN] /\ fWait_' \in [Thread -> BOOLEAN]
  BY DEF SendInv, TypeOK, WaitTimeout, waitVars
<1>2. QED
  BY <1>1, AfterWaitStep DEF WaitTimeout, waitVars

LEMMA WaitIoSend ==
  ASSUME SendInv, NEW t \in Thread, WaitIo(t)
  PROVE  SendInv'
<1> DEFINE f == NewFrame("handle", "run", NoMsg, t)
<1> DEFINE r == Append(stack[t], f)
<1> DEFINE n == Len(stack[t])
<1>1. TypeOK /\ Running(t) /\ Top(t).at = "select" /\ Step(t, Append(stack[t], f))
  BY DEF SendInv, InSelect, WaitIo, Call
<1>2. f \in Frame
  BY NewFrameType DEF Ats
<1>3. /\ FrameOK(f, nmsgs) /\ CalmFrame(f) /\ f.at \notin {"check", "push"}
      /\ f.op # "get" /\ ~Caller(f)
  BY <1>1 DEF NewFrame, FrameOK, CalmFrame, Caller, NoMsg, Msgs, TypeOK
<1> HIDE DEF f
<1>4. Changes(t, r, n) /\ Len(r) = n + 1 /\ r[Len(r)] = f
  BY <1>1, <1>2, PushChanges
<1>5. n \in Nat
  BY <1>1, TopFacts
<1> HIDE DEF r
<1>6. stack' \in [Thread -> Seq(Frame)]
  BY <1>1, <1>4, ChangesFacts
<1>7. TypeOK'
  <2>1. signaled_' \in [Thread -> BOOLEAN] /\ fWait_' \in [Thread -> BOOLEAN]
    BY <1>1 DEF TypeOK, WaitIo
  <2>2. ios' \in 0..MaxIo
    BY <1>1, MsgBounds DEF TypeOK, WaitIo
  <2>3. QED
    BY <1>1, <1>6, <2>1, <2>2 DEF TypeOK, WaitIo, queueVars, sendVars, msgVars
<1>8. UNCHANGED <<msgq_, dmsgq_, sendlist_, SendState>>
  BY DEF WaitIo, queueVars, sendVars, msgVars, SendState
<1>9. \A i \in (n + 1)..Len(r) : r[i] = f
  BY <1>4, <1>5
<1>10. Top(t).at \notin {"check", "push"}
  BY <1>1
<1> HIDE DEF n
<1>11. QED
  BY <1>3, <1>4, <1>7, <1>8, <1>9, <1>10, QuietStep

LEMMA HandlerReturnsSend ==
  ASSUME SendInv, NEW t \in Thread, HandlerReturns(t)
  PROVE  SendInv'
<1>1. TypeOK /\ Running(t) /\ Step(t, Front(stack[t]))
  BY AtFacts DEF SendInv, HandlerReturns, InHandler
<1>2. TypeOK'
  BY <1>1, StackType DEF HandlerReturns, TypeOK, queueVars, sendVars, waitVars, msgVars
<1>3. QED
  BY <1>1, <1>2, PopStep DEF HandlerReturns, SendState, queueVars, sendVars, msgVars

LEMMA SendWakeSend ==
  ASSUME SendInv, NEW t \in Thread, SendWake(t)
  PROVE  SendInv'
<1>1. TypeOK /\ Running(t) /\ Top(t).op = "send" /\ "loop" \in Ats
  BY AtFacts DEF SendWake, SendInv, Ats
<1>2. stack' \in [Thread -> Seq(Frame)]
  BY <1>1, StackType DEF SendWake
<1>3. signaled_' \in [Thread -> BOOLEAN]
  BY WakeType DEF SendWake
<1>4. TypeOK'
  BY <1>1, <1>2, <1>3 DEF SendWake, TypeOK, queueVars, sendVars, waitVars, msgVars
<1>5. QED
  BY <1>1, <1>4, GotoStep DEF SendWake, GoodAt, SendState, queueVars, sendVars, msgVars

LEMMA SendLoopSend ==
  ASSUME SendInv, NEW t \in Thread, SendLoop(t)
  PROVE  SendInv'
<1>1. TypeOK /\ Running(t) /\ Top(t).op = "send" /\ "serve" \in Ats
  BY AtFacts DEF SendLoop, SendInv, Ats
<1>2. stack' \in [Thread -> Seq(Frame)]
  BY <1>1, StackType DEF SendLoop
<1>3. TypeOK'
  BY <1>1, <1>2 DEF SendLoop, TypeOK, queueVars, sendVars, waitVars, msgVars
<1>4. QED
  BY <1>1, <1>3, GotoStep DEF SendLoop, GoodAt, SendState, queueVars, sendVars, msgVars

LEMMA SendWaitSend ==
  ASSUME SendInv, NEW t \in Thread, SendWait(t)
  PROVE  SendInv'
<1>1. TypeOK /\ Running(t) /\ Top(t).op = "send" /\ "select" \in Ats
  BY AtFacts DEF SendWait, SendInv, Ats
<1>2. stack' \in [Thread -> Seq(Frame)]
  BY <1>1, StackType DEF SendWait
<1>3. fWait_' \in [Thread -> BOOLEAN]
  BY <1>1 DEF SendWait, TypeOK
<1>4. TypeOK'
  BY <1>1, <1>2, <1>3 DEF SendWait, TypeOK, queueVars, sendVars, msgVars
<1>5. QED
  BY <1>1, <1>4, GotoStep DEF SendWait, GoodAt, SendState, queueVars, sendVars, msgVars

\* A step that changes no queue and no stack.
LEMMA SameSend ==
  ASSUME SendInv, TypeOK', UNCHANGED <<msgq_, dmsgq_, sendlist_, stack, SendState>>
  PROVE  SendInv'
<1> USE DEF SendState
<1>1. \A u \in Thread : Pending(u)' = Pending(u)
  BY DEF Pending, Running, Top
<1>2. \A p \in Place, m \in Msgs : In(p, m)' = In(p, m)
  BY <1>1 DEF In, Place, Posted, Delayed, Sent
<1>3. \A m \in Msgs : Held(m)' = Held(m)
  BY <1>2 DEF Held
<1>4. \A m \in Msgs : NoHandler(m)' = NoHandler(m) /\ NoAwait(m)' = NoAwait(m)
  BY DEF NoHandler, NoAwait
<1>5. Shape' /\ NoDups' /\ Nested' /\ AwaitedRan'
  BY DEF SendInv, Shape, NoDups, Nested, AwaitedRan
<1>6. Once' /\ HeldExists'
  BY <1>2, <1>3 DEF SendInv, Once, HeldExists
<1>7. Untouched' /\ Outcome'
  BY <1>3, <1>4 DEF SendInv, Untouched, Outcome, Started0
<1>8. QED
  BY <1>5, <1>6, <1>7 DEF SendInv

LEMMA OutsideSend ==
  ASSUME SendInv, Tick \/ (\E t \in Quits : Quit(t))
  PROVE  SendInv'
<1>1. TypeOK
  BY DEF SendInv
<1>2. CASE Tick
  <2>1. ticks' \in 0..MaxTicks
    BY <1>1, <1>2, MsgBounds DEF Tick, TypeOK
  <2>2. TypeOK'
    BY <1>1, <1>2, <2>1 DEF Tick, TypeOK, queueVars, sendVars, waitVars, msgVars
  <2>3. QED
    BY <1>2, <2>2, SameSend DEF Tick, SendState, queueVars, sendVars, msgVars
<1>3. ASSUME NEW t \in Quits, Quit(t) PROVE SendInv'
  <2>1. fStop_' \in [Thread -> BOOLEAN]
    BY <1>1, <1>3 DEF Quit, TypeOK
  <2>2. signaled_' \in [Thread -> BOOLEAN]
    BY <1>3, WakeType DEF Quit
  <2>3. TypeOK'
    BY <1>1, <1>3, <2>1, <2>2 DEF Quit, TypeOK, queueVars, sendVars, waitVars, msgVars
  <2>4. QED
    BY <1>3, <2>3, SameSend DEF Quit, SendState, queueVars, sendVars, msgVars
<1>4. QED
  BY <1>2, <1>3

---------------------------------------------------------------------------
(* Messages on their way into a queue.                                      *)

LEMMA Places ==
  ASSUME NEW kind \in {"post", "delay", "sent", "frame"}, NEW u \in Thread
  PROVE  /\ <<kind, u>> \in Place /\ <<kind, u>>[1] = kind /\ <<kind, u>>[2] = u
         /\ \A p \in Place : /\ p[1] \in {"post", "delay", "sent", "frame"} /\ p[2] \in Thread
                             /\ p[1] = kind /\ p[2] = u => p = <<kind, u>>
BY DEF Place

\* A message that is about to be queued is in no queue yet.
LEMMA PendingMsg ==
  ASSUME SendInv, NEW t \in Thread, Running(t), Top(t).at \in {"check", "push"}
  PROVE  /\ Caller(Top(t)) /\ Top(t).msg \in Msgs /\ Top(t).msg \in 1..nmsgs
         /\ Pending(t) = {Top(t).msg} /\ Top(t).to \in Thread
         /\ \A u \in Thread : /\ Top(t).msg \notin Posted(u)
                              /\ Top(t).msg \notin Delayed(u)
                              /\ Top(t).msg \notin Sent(u)
                              /\ u # t => Top(t).msg \notin Pending(u)
<1>1. FrameOK(Top(t), nmsgs) /\ Top(t) \in Frame
  BY TopFacts
<1>2. Caller(Top(t)) /\ Top(t).msg \in 1..nmsgs /\ Top(t).to \in Thread
  BY <1>1 DEF FrameOK, Frame, Caller
<1>3. Top(t).msg \in Msgs
  BY <1>2, MsgBounds DEF SendInv, TypeOK, Msgs
<1>4. Pending(t) = {Top(t).msg}
  BY DEF Pending
<1>5. <<"frame", t>> \in Place /\ In(<<"frame", t>>, Top(t).msg)
  BY <1>4 DEF Place, In
<1>6. ASSUME NEW u \in Thread
      PROVE  /\ Top(t).msg \notin Posted(u) /\ Top(t).msg \notin Delayed(u)
             /\ Top(t).msg \notin Sent(u) /\ (u # t => Top(t).msg \notin Pending(u))
  <2>1. \A p \in Place : In(p, Top(t).msg) => p = <<"frame", t>>
    BY <1>3, <1>5 DEF SendInv, Once
  <2>2. /\ <<"post", u>> \in Place /\ <<"delay", u>> \in Place /\ <<"sent", u>> \in Place
        /\ <<"frame", u>> \in Place
    BY DEF Place
  <2>3. /\ ~In(<<"post", u>>, Top(t).msg) /\ ~In(<<"delay", u>>, Top(t).msg)
        /\ ~In(<<"sent", u>>, Top(t).msg) /\ (u # t => ~In(<<"frame", u>>, Top(t).msg))
    BY <2>1, <2>2
  <2>4. QED
    BY <2>3 DEF In
<1>7. QED
  BY <1>2, <1>3, <1>4, <1>6

LEMMA PopPending ==
  ASSUME SendInv, NEW t \in Thread, Running(t), Step(t, Front(stack[t]))
  PROVE  Pending(t)' = {} /\ \A u \in Thread \ {t} : Pending(u)' = Pending(u)
<1> DEFINE r == Front(stack[t])
<1> DEFINE n == Len(stack[t])
<1>1. TypeOK /\ n \in Nat \ {0}
  BY TopFacts DEF SendInv
<1>2. Changes(t, r, n - 1) /\ Len(r) = n - 1
  BY <1>1, PopChanges
<1> HIDE DEF r
<1>3. r = <<>> \/ r[Len(r)].at \notin {"check", "push"}
  <2>1. SUFFICES ASSUME r # <<>> PROVE r[Len(r)].at \notin {"check", "push"}
    OBVIOUS
  <2>2. Len(r) \in 1..(n - 1) /\ r[Len(r)] = stack[t][n - 1] /\ n - 1 \in 1..Len(stack[t])
    BY <1>1, <1>2, <2>1 DEF Changes
  <2>3. stack[t][n - 1].at \in {"check", "push"} => n - 1 = Len(stack[t])
    BY <2>2 DEF SendInv, Shape
  <2>4. QED
    BY <1>1, <2>2, <2>3
<1>4. QED
  BY <1>1, <1>2, <1>3, PendingChanges

\* The running activation puts its message into a queue of u.
LEMMA FrameMoves ==
  ASSUME NEW t \in Thread, NEW u \in Thread, NEW kind \in {"post", "delay", "sent"},
         Pending(t)' = {}, \A x \in Thread \ {t} : Pending(x)' = Pending(x),
         \A x \in Thread :
           /\ Posted(x)' \subseteq Posted(x) \cup (IF kind = "post" /\ x = u THEN Pending(t) ELSE {})
           /\ Delayed(x)' \subseteq Delayed(x) \cup (IF kind = "delay" /\ x = u THEN Pending(t) ELSE {})
           /\ Sent(x)' \subseteq Sent(x) \cup (IF kind = "sent" /\ x = u THEN Pending(t) ELSE {})
  PROVE  /\ <<"frame", t>> \in Place /\ <<kind, u>> \in Place
         /\ MovesTo(<<"frame", t>>, <<kind, u>>)
<1>1. /\ <<"frame", t>> \in Place /\ <<kind, u>> \in Place
      /\ \A p \in Place : /\ p[1] \in {"post", "delay", "sent", "frame"} /\ p[2] \in Thread
                          /\ p[1] = kind /\ p[2] = u => p = <<kind, u>>
                          /\ p[1] = "frame" /\ p[2] = t => p = <<"frame", t>>
  BY Places
<1>2. \A m : /\ In(<<"frame", t>>, m) <=> m \in Pending(t)
             /\ In(<<"frame", t>>, m)' <=> m \in Pending(t)'
  BY DEF In
<1>3. ASSUME NEW p \in Place, NEW m \in Msgs, In(p, m)'
      PROVE  In(p, m) \/ (p = <<kind, u>> /\ In(<<"frame", t>>, m))
  <2>1. p[2] \in Thread /\ p[1] \in {"post", "delay", "sent", "frame"}
    BY <1>1
  <2>2. CASE p[1] = "post" /\ m \in Posted(p[2])'
    BY <1>1, <1>2, <2>1, <2>2 DEF In
  <2>3. CASE p[1] = "delay" /\ m \in Delayed(p[2])'
    BY <1>1, <1>2, <2>1, <2>3 DEF In
  <2>4. CASE p[1] = "sent" /\ m \in Sent(p[2])'
    BY <1>1, <1>2, <2>1, <2>4 DEF In
  <2>5. CASE p[1] = "frame" /\ m \in Pending(p[2])'
    BY <2>1, <2>5 DEF In
  <2>6. QED
    BY <1>3, <2>2, <2>3, <2>4, <2>5 DEF In
<1>4. \A m \in Msgs : ~In(<<"frame", t>>, m)'
  BY <1>2
<1>5. QED
  BY <1>1, <1>3, <1>4 DEF MovesTo

\* A message leaves the running activation, which ends, for a queue.
LEMMA PopMoves ==
  ASSUME SendInv, TypeOK', NoDups', NEW t \in Thread, Running(t), Step(t, Front(stack[t])),
         NEW src \in Place, NEW dst \in Place, MovesTo(src, dst), UNCHANGED SendState
  PROVE  SendInv'
<1>1. TypeOK /\ Len(stack[t]) \in Nat \ {0}
  BY TopFacts DEF SendInv
<1> DEFINE r == Front(stack[t])
<1> DEFINE k == Len(stack[t]) - 1
<1>2. Changes(t, r, k) /\ Len(r) = k
  BY <1>1, PopChanges
<1>3. \A i \in (k + 1)..Len(r) : FALSE
  BY <1>1, <1>2
<1>4. k < Len(stack[t])
  BY <1>1
<1> HIDE DEF r, k
<1>5. QED
  BY <1>2, <1>3, <1>4, CalmStep DEF SendState

LEMMA PostSend ==
  ASSUME SendInv, NEW t \in Thread, Post(t)
  PROVE  SendInv'
<1> DEFINE u == Top(t).to
<1> DEFINE m == Top(t).msg
<1>1. TypeOK /\ Running(t) /\ Top(t).at = "push" /\ Step(t, Front(stack[t]))
  BY AtFacts DEF Post, SendInv
<1>2. m \in Msgs /\ Pending(t) = {m} /\ u \in Thread /\ m \notin Posted(u)
  BY <1>1, PendingMsg
<1>3. msgq_ \in [Thread -> Seq(Msgs)] /\ msgq_' = [msgq_ EXCEPT ![u] = Append(msgq_[u], m)]
  BY <1>1 DEF Post, TypeOK
<1> HIDE DEF u, m
<1>4. /\ Append(msgq_[u], m) \in Seq(Msgs)
      /\ ToSet(Append(msgq_[u], m)) = ToSet(msgq_[u]) \cup {m}
      /\ NoDup(msgq_[u]) => NoDup(Append(msgq_[u], m))
  BY <1>2, <1>3, AppendFacts DEF Posted
<1>5. TypeOK'
  <2>1. stack' \in [Thread -> Seq(Frame)]
    BY <1>1, StackType
  <2>2. signaled_' \in [Thread -> BOOLEAN]
    BY WakeType DEF Post
  <2>3. msgq_' \in [Thread -> Seq(Msgs)]
    BY <1>2, <1>3, <1>4
  <2>4. QED
    BY <1>1, <2>1, <2>2, <2>3 DEF TypeOK, Post, sendVars, waitVars, msgVars
<1>6. /\ msgq_'[u] = Append(msgq_[u], m) /\ \A x \in Thread \ {u} : msgq_'[x] = msgq_[x]
      /\ UNCHANGED <<dmsgq_, sendlist_, SendState>>
  BY <1>2, <1>3 DEF Post, sendVars, msgVars, SendState
<1>7. NoDups'
  <2>1. ASSUME NEW x \in Thread PROVE NoDup(msgq_'[x])
    BY <1>4, <1>6 DEF SendInv, NoDups
  <2>2. QED
    BY <1>6, <2>1 DEF SendInv, NoDups
<1>8. \A x \in Thread : /\ Posted(x)' \subseteq Posted(x) \cup (IF x = u THEN {m} ELSE {})
                        /\ Delayed(x)' = Delayed(x) /\ Sent(x)' = Sent(x)
  BY <1>4, <1>6 DEF Posted, Delayed, Sent
<1>9. Pending(t)' = {} /\ \A x \in Thread \ {t} : Pending(x)' = Pending(x)
  BY <1>1, PopPending
<1>10. /\ <<"frame", t>> \in Place /\ <<"post", u>> \in Place
       /\ MovesTo(<<"frame", t>>, <<"post", u>>)
  BY <1>2, <1>8, <1>9, FrameMoves
<1>11. QED
  BY <1>1, <1>5, <1>6, <1>7, <1>10, PopMoves

\* A delayed message is put among the others without touching them.
LEMMA InsertMsgs ==
  ASSUME NEW q \in Seq(DelayedMsg), NEW d \in DelayedMsg
  PROVE  /\ Insert(q, d) \in Seq(DelayedMsg)
         /\ MsgsOf(Insert(q, d)) \subseteq MsgsOf(q) \cup {d.msg}
         /\ NoDupMsg(q) /\ d.msg \notin MsgsOf(q) => NoDupMsg(Insert(q, d))
<1> DEFINE r == Insert(q, d)
<1>1. PICK p \in 0..Len(q) :
              /\ r \in Seq(DelayedMsg) /\ Len(r) = Len(q) + 1 /\ r[p + 1] = d
              /\ \A i \in 1..p : r[i] = q[i]
              /\ \A i \in (p + 2)..(Len(q) + 1) : r[i] = q[i - 1]
  BY InsertFacts
<1> HIDE DEF r
<1>2. Len(q) \in Nat /\ p \in Nat /\ p <= Len(q)
  OBVIOUS
\* The place in q of the element at place i of r.
<1> DEFINE was(i) == IF i <= p THEN i ELSE i - 1
<1>3. ASSUME NEW i \in 1..Len(r)
      PROVE  (i = p + 1 /\ r[i] = d) \/ (i # p + 1 /\ was(i) \in 1..Len(q) /\ r[i] = q[was(i)])
  <2>1. CASE i \in 1..p
    BY <1>1, <1>2, <2>1
  <2>2. CASE i = p + 1
    BY <1>1, <2>2
  <2>3. CASE i \in (p + 2)..(Len(q) + 1)
    BY <1>1, <1>2, <2>3
  <2>4. QED
    BY <1>1, <1>2, <2>1, <2>2, <2>3
<1>4. \A i, j \in 1..Len(r) : i # p + 1 /\ j # p + 1 /\ was(i) = was(j) => i = j
  BY <1>1, <1>2
<1> HIDE DEF was
<1>5. MsgsOf(r) \subseteq MsgsOf(q) \cup {d.msg}
  BY <1>3 DEF MsgsOf
<1>6. ASSUME NoDupMsg(q), d.msg \notin MsgsOf(q) PROVE NoDupMsg(r)
  <2>1. \A i \in 1..Len(q) : q[i].msg # d.msg
    BY <1>6 DEF MsgsOf
  <2>2. ASSUME NEW i \in 1..Len(r), NEW j \in 1..Len(r), r[i].msg = r[j].msg PROVE i = j
    BY <1>3, <1>4, <1>6, <2>1, <2>2 DEF NoDupMsg
  <2>3. QED
    BY <2>2 DEF NoDupMsg
<1>7. QED
  BY <1>1, <1>5, <1>6 DEF r

LEMMA DoDelayPostSend ==
  ASSUME SendInv, NEW t \in Thread, DoDelayPost(t)
  PROVE  SendInv'
<1> DEFINE u == Top(t).to
<1> DEFINE m == Top(t).msg
<1> DEFINE d == [trigger |-> Top(t).trigger, msg |-> Top(t).msg]
<1>1. TypeOK /\ Running(t) /\ Top(t).at = "push" /\ Step(t, Front(stack[t]))
  BY AtFacts DEF DoDelayPost, SendInv
<1>2. m \in Msgs /\ Pending(t) = {m} /\ u \in Thread /\ m \notin Delayed(u) /\ Top(t) \in Frame
  BY <1>1, PendingMsg, TopFacts
<1>3. d \in DelayedMsg /\ d.msg = m
  BY <1>2 DEF DelayedMsg, Frame
<1>4. /\ dmsgq_ \in [Thread -> Seq(DelayedMsg)]
      /\ dmsgq_' = [dmsgq_ EXCEPT ![u] = Insert(dmsgq_[u], d)]
  BY <1>1 DEF DoDelayPost, TypeOK, DelayedMsg
<1> HIDE DEF u, m, d
<1>5. /\ Insert(dmsgq_[u], d) \in Seq(DelayedMsg)
      /\ MsgsOf(Insert(dmsgq_[u], d)) \subseteq MsgsOf(dmsgq_[u]) \cup {m}
      /\ NoDupMsg(dmsgq_[u]) => NoDupMsg(Insert(dmsgq_[u], d))
  BY <1>2, <1>3, <1>4, InsertMsgs DEF Delayed, MsgsOf
<1>6. TypeOK'
  <2>1. stack' \in [Thread -> Seq(Frame)]
    BY <1>1, StackType
  <2>2. signaled_' \in [Thread -> BOOLEAN]
    BY WakeType DEF DoDelayPost
  <2>3. dmsgq_' \in [Thread -> Seq(DelayedMsg)]
    BY <1>2, <1>4, <1>5
  <2>4. QED
    BY <1>1, <2>1, <2>2, <2>3 DEF TypeOK, DoDelayPost, sendVars, waitVars, msgVars, DelayedMsg
<1>7. /\ dmsgq_'[u] = Insert(dmsgq_[u], d) /\ \A x \in Thread \ {u} : dmsgq_'[x] = dmsgq_[x]
      /\ UNCHANGED <<msgq_, sendlist_, SendState>>
  BY <1>2, <1>4 DEF DoDelayPost, sendVars, msgVars, SendState
<1>8. NoDups'
  <2>1. ASSUME NEW x \in Thread PROVE NoDupMsg(dmsgq_'[x])
    BY <1>5, <1>7 DEF SendInv, NoDups
  <2>2. QED
    BY <1>7, <2>1 DEF SendInv, NoDups
<1>9. \A x \in Thread : /\ Delayed(x)' \subseteq Delayed(x) \cup (IF x = u THEN {m} ELSE {})
                        /\ Posted(x)' = Posted(x) /\ Sent(x)' = Sent(x)
  <2>1. \A x \in Thread : Delayed(x) = MsgsOf(dmsgq_[x]) /\ Delayed(x)' = MsgsOf(dmsgq_'[x])
    BY DEF Delayed, MsgsOf
  <2>2. QED
    BY <1>5, <1>7, <2>1 DEF Posted, Sent
<1>10. Pending(t)' = {} /\ \A x \in Thread \ {t} : Pending(x)' = Pending(x)
  BY <1>1, PopPending
<1>11. /\ <<"frame", t>> \in Place /\ <<"delay", u>> \in Place
       /\ MovesTo(<<"frame", t>>, <<"delay", u>>)
  BY <1>2, <1>9, <1>10, FrameMoves
<1>12. QED
  BY <1>1, <1>6, <1>7, <1>8, <1>11, PopMoves

LEMMA GotoPending ==
  ASSUME SendInv, NEW t \in Thread, Running(t), NEW at \in Ats, at \notin {"check", "push"},
         Step(t, Goto(stack[t], at))
  PROVE  Pending(t)' = {} /\ \A u \in Thread \ {t} : Pending(u)' = Pending(u)
<1> DEFINE r == Goto(stack[t], at)
<1>1. TypeOK
  BY DEF SendInv
<1>2. Changes(t, r, Len(stack[t]) - 1) /\ r[Len(r)].at = at
  BY <1>1, GotoChanges
<1> HIDE DEF r
<1>3. QED
  BY <1>1, <1>2, PendingChanges

\* A message leaves the running activation, which goes on, for a queue.
LEMMA GotoMoves ==
  ASSUME SendInv, TypeOK', NoDups', NEW t \in Thread, Running(t), NEW at,
         GoodAt(Top(t).op, at), Step(t, Goto(stack[t], at)),
         NEW src \in Place, NEW dst \in Place, MovesTo(src, dst),
         UNCHANGED <<nmsgs, sender, handled, cleared>>
  PROVE  /\ Shape' /\ Once' /\ HeldExists' /\ Nested' /\ AwaitedRan'
         /\ \A m \in Msgs : Held(m)' => Held(m)
         /\ \A m \in Msgs : (NoHandler(m) => NoHandler(m)') /\ (NoAwait(m) => NoAwait(m)')
         /\ UNCHANGED <<ready, returned>> => SendInv'
<1> DEFINE r == Goto(stack[t], at)
<1> DEFINE n == Len(stack[t])
<1>1. TypeOK /\ at \in Ats
  BY DEF SendInv, GoodAt, Ats
<1>2. Changes(t, r, n - 1) /\ Len(r) = n /\ r[n].at = at /\ Moved(r[n], Top(t))
  BY <1>1, GotoChanges
<1>3. /\ FrameOK(Top(t), nmsgs) /\ (Top(t).op = "get" => n = 1)
      /\ Caller(Top(t)) => sender[Top(t).msg] = {t}
  BY TopFacts
<1>4. n \in Nat \ {0}
  BY TopFacts
<1> HIDE DEF r
<1>5. r[n].op = Top(t).op /\ r[n].msg = Top(t).msg
  BY <1>2 DEF Moved
<1>6. FrameOK(r[n], nmsgs) /\ CalmFrame(r[n]) /\ r[n].at \notin {"check", "push"}
  BY <1>2, <1>3, <1>5, MovedFrame
<1>7. Caller(r[n]) => sender[r[n].msg] = {t}
  BY <1>3, <1>5 DEF Caller
<1>8. n - 1 < Len(stack[t]) /\ \A i \in ((n - 1) + 1)..Len(r) : i = n
  BY <1>2, <1>4
<1> HIDE DEF n
<1> DEFINE k == n - 1
<1>9. \A i \in (k + 1)..Len(r) :
           /\ FrameOK(r[i], nmsgs) /\ CalmFrame(r[i])
           /\ r[i].op = "get" => i = 1
           /\ r[i].at \in {"check", "push"} => i = Len(r)
           /\ Caller(r[i]) => sender[r[i].msg] = {t}
  BY <1>3, <1>5, <1>6, <1>7, <1>8
<1>10. Changes(t, r, k) /\ k < Len(stack[t])
  BY <1>2, <1>8
<1> HIDE DEF k
<1>11. QED
  BY <1>9, <1>10, CalmStep

LEMMA SendPushSend ==
  ASSUME SendInv, NEW t \in Thread, SendPush(t)
  PROVE  SendInv'
<1> DEFINE u == Top(t).to
<1> DEFINE m == Top(t).msg
<1>1. /\ TypeOK /\ Running(t) /\ Top(t).at = "push" /\ Top(t).op = "send"
      /\ Step(t, Goto(stack[t], "wake")) /\ "wake" \in Ats
  BY AtFacts DEF SendPush, SendInv, Ats
<1>2. m \in Msgs /\ Pending(t) = {m} /\ u \in Thread /\ m \notin Sent(u)
  BY <1>1, PendingMsg
<1>3. /\ sendlist_ \in [Thread -> Seq(Msgs)]
      /\ sendlist_' = [sendlist_ EXCEPT ![u] = Append(sendlist_[u], m)]
  BY <1>1 DEF SendPush, TypeOK
<1> HIDE DEF u, m
<1>4. /\ Append(sendlist_[u], m) \in Seq(Msgs)
      /\ ToSet(Append(sendlist_[u], m)) = ToSet(sendlist_[u]) \cup {m}
      /\ NoDup(sendlist_[u]) => NoDup(Append(sendlist_[u], m))
  BY <1>2, <1>3, AppendFacts DEF Sent
<1>5. TypeOK'
  <2>1. stack' \in [Thread -> Seq(Frame)]
    BY <1>1, StackType
  <2>2. has_sends_' \in [Thread -> BOOLEAN]
    BY <1>1 DEF SendPush, TypeOK
  <2>3. sendlist_' \in [Thread -> Seq(Msgs)]
    BY <1>2, <1>3, <1>4
  <2>4. QED
    BY <1>1, <2>1, <2>2, <2>3 DEF TypeOK, SendPush, queueVars, waitVars, msgVars
<1>6. /\ sendlist_'[u] = Append(sendlist_[u], m)
      /\ \A x \in Thread \ {u} : sendlist_'[x] = sendlist_[x]
      /\ UNCHANGED <<msgq_, dmsgq_, SendState>>
  BY <1>2, <1>3 DEF SendPush, queueVars, msgVars, SendState
<1>7. NoDups'
  <2>1. ASSUME NEW x \in Thread PROVE NoDup(sendlist_'[x])
    BY <1>4, <1>6 DEF SendInv, NoDups
  <2>2. QED
    BY <1>6, <2>1 DEF SendInv, NoDups
<1>8. \A x \in Thread : /\ Sent(x)' \subseteq Sent(x) \cup (IF x = u THEN {m} ELSE {})
                        /\ Delayed(x)' = Delayed(x) /\ Posted(x)' = Posted(x)
  BY <1>4, <1>6 DEF Posted, Delayed, Sent
<1>9. Pending(t)' = {} /\ \A x \in Thread \ {t} : Pending(x)' = Pending(x)
  BY <1>1, GotoPending
<1>10. /\ <<"frame", t>> \in Place /\ <<"sent", u>> \in Place
       /\ MovesTo(<<"frame", t>>, <<"sent", u>>)
  BY <1>2, <1>8, <1>9, FrameMoves
<1>11. QED
  BY <1>1, <1>5, <1>6, <1>7, <1>10, GotoMoves DEF GoodAt, SendState

\* A sender may be told about a message whose handler is over or was cleared.
Over(m) == NoHandler(m) /\ ~Held(m) /\ m <= nmsgs /\ (handled[m] = 1 \/ m \in cleared)

LEMMA AwaitTop ==
  ASSUME SendInv, NEW t \in Thread, Running(t), Top(t).op \in {"receive", "send"},
         Top(t).at = "done"
  PROVE  Top(t).msg \in Msgs /\ Over(Top(t).msg)
<1> DEFINE m == Top(t).msg
<1> DEFINE n == Len(stack[t])
<1>1. /\ FrameOK(Top(t), nmsgs) /\ n \in Nat /\ n \in 1..Len(stack[t]) /\ Top(t) = stack[t][n]
  BY TopFacts
<1>2. m \in 1..nmsgs
  BY <1>1 DEF FrameOK, Caller
<1>3. nmsgs \in Nat /\ nmsgs <= MaxMsgs
  BY MsgBounds DEF SendInv, TypeOK
<1>4. m \in Msgs /\ m <= nmsgs
  BY <1>2, <1>3, MsgBounds DEF Msgs
<1>5. Awaits(stack[t][n], m)
  BY <1>1 DEF Awaits
<1>6. handled[m] = 1
  BY <1>1, <1>4, <1>5 DEF SendInv, AwaitedRan
<1>7. ~Held(m)
  BY <1>4, <1>6 DEF SendInv, Untouched, Started0
<1>8. NoHandler(m)
  <2>1. SUFFICES ASSUME NEW u \in Thread, NEW j \in 1..Len(stack[u]), Handles(stack[u][j], m)
                 PROVE  FALSE
    BY DEF NoHandler
  <2>2. u = t /\ j = n + 1
    BY <1>1, <1>4, <1>5, <2>1 DEF SendInv, Nested
  <2>3. QED
    BY <1>1, <2>2
<1>9. QED
  BY <1>4, <1>6, <1>7, <1>8 DEF Over

LEMMA ReadyOver ==
  ASSUME SendInv, NEW m \in Msgs, ready[m]
  PROVE  Over(m)
<1>1. ~Held(m) /\ ~(m > nmsgs)
  BY DEF SendInv, Untouched, Started0
<1>2. m <= nmsgs
  <2>1. m \in Int /\ nmsgs \in Int
    BY MsgBounds DEF SendInv, TypeOK, Msgs
  <2>2. QED
    BY <1>1, <2>1
<1>3. QED
  BY <1>1, <1>2 DEF SendInv, Outcome, Over

\* What else has to hold when a sender is told about x.
LEMMA Released ==
  ASSUME SendInv, TypeOK', NoDups', Shape', Once', HeldExists', Nested', AwaitedRan',
         \A m \in Msgs : Held(m)' => Held(m),
         \A m \in Msgs : (NoHandler(m) => NoHandler(m)') /\ (NoAwait(m) => NoAwait(m)'),
         UNCHANGED <<nmsgs, handled, cleared>>, NEW x \in Msgs, Over(x),
         \A m \in Msgs : ready'[m] => ready[m] \/ m = x, returned' \subseteq returned \cup {x}
  PROVE  SendInv'
<1>1. nmsgs \in Nat /\ x \in Nat /\ ready' \in [Msgs -> BOOLEAN]
  BY MsgBounds DEF SendInv, TypeOK, Msgs
<1>2. Untouched'
  <2>1. SUFFICES ASSUME NEW m \in Msgs, Held(m)' \/ m > nmsgs
                 PROVE  Started0(m)' /\ NoHandler(m)' /\ NoAwait(m)'
    BY DEF Untouched
  <2>2. Held(m) \/ m > nmsgs
    BY <2>1
  <2>3. Started0(m) /\ NoHandler(m) /\ NoAwait(m)
    BY <2>2 DEF SendInv, Untouched
  <2>4. m # x
    BY <1>1, <2>2 DEF Over
  <2>5. QED
    BY <2>3, <2>4 DEF Started0
<1>3. Outcome'
  <2>1. SUFFICES ASSUME NEW m \in Msgs
                 PROVE  /\ handled[m] = 1 => m \notin cleared
                        /\ ready'[m] => NoHandler(m)' /\ (handled[m] = 1 \/ m \in cleared)
                        /\ m \in returned' => NoHandler(m)' /\ (handled[m] = 1 \/ m \in cleared)
    BY DEF Outcome
  <2>2. QED
    BY DEF SendInv, Outcome, Over
<1>4. QED
  BY <1>2, <1>3 DEF SendInv

LEMMA ReceiveDoneSend ==
  ASSUME SendInv, NEW t \in Thread, ReceiveDone(t)
  PROVE  SendInv'
<1> DEFINE x == Top(t).msg
<1>1. /\ TypeOK /\ Running(t) /\ Top(t).at = "done" /\ Top(t).op = "receive"
      /\ Step(t, Goto(stack[t], "take")) /\ "take" \in Ats
  BY AtFacts DEF ReceiveDone, SendInv, Ats
<1>2. x \in Msgs /\ Over(x)
  BY <1>1, AwaitTop
<1>3. ready' = [ready EXCEPT ![x] = TRUE]
  BY DEF ReceiveDone
<1>4. TypeOK'
  <2>1. stack' \in [Thread -> Seq(Frame)]
    BY <1>1, StackType
  <2>2. signaled_' \in [Thread -> BOOLEAN]
    BY WakeType DEF ReceiveDone
  <2>3. ready' \in [Msgs -> BOOLEAN]
    BY <1>1, <1>3 DEF TypeOK
  <2>4. QED
    BY <1>1, <2>1, <2>2, <2>3 DEF TypeOK, ReceiveDone, queueVars, sendVars, waitVars
<1>5. /\ UNCHANGED <<msgq_, dmsgq_, sendlist_>> /\ UNCHANGED <<nmsgs, sender, handled, cleared>>
      /\ UNCHANGED returned
  BY DEF ReceiveDone, queueVars, sendVars
<1>6. \A u \in Thread : Pending(u)' \subseteq Pending(u)
  BY <1>1, GotoPending
<1>7. NoDups' /\ <<"frame", t>> \in Place /\ MovesTo(<<"frame", t>>, <<"frame", t>>)
  BY <1>5, <1>6, QueuesSame
<1>8. /\ Shape' /\ Once' /\ HeldExists' /\ Nested' /\ AwaitedRan'
      /\ \A m \in Msgs : Held(m)' => Held(m)
      /\ \A m \in Msgs : (NoHandler(m) => NoHandler(m)') /\ (NoAwait(m) => NoAwait(m)')
  BY <1>1, <1>4, <1>5, <1>7, GotoMoves DEF GoodAt
<1>9. \A m \in Msgs : ready'[m] => ready[m] \/ m = x
  BY <1>1, <1>3 DEF TypeOK
<1> HIDE DEF x
<1>10. QED
  BY <1>2, <1>4, <1>5, <1>7, <1>8, <1>9, Released

LEMMA SendReturnsSend ==
  ASSUME SendInv, NEW t \in Thread, SendReturns(t)
  PROVE  SendInv'
<1> DEFINE x == Top(t).msg
<1>1. TypeOK /\ Running(t) /\ Step(t, Front(stack[t])) /\ Top(t).op = "send"
  BY AtFacts DEF SendReturns, SendInv
<1>2. x \in Msgs /\ Over(x)
  <2>1. CASE At(t, "send", "done")
    BY <2>1, AtFacts, AwaitTop
  <2>2. CASE At(t, "send", "loop") /\ ready[Top(t).msg]
    <3>1. FrameOK(Top(t), nmsgs)
      BY <1>1, TopFacts
    <3>2. x \in Msgs
      BY <1>1, <3>1, MsgBounds DEF FrameOK, Caller, TypeOK, Msgs
    <3>3. QED
      BY <2>2, <3>2, ReadyOver
  <2>3. QED
    BY <2>1, <2>2 DEF SendReturns
<1>3. returned' = returned \cup {x}
  BY DEF SendReturns
<1>4. TypeOK'
  <2>1. stack' \in [Thread -> Seq(Frame)]
    BY <1>1, StackType
  <2>2. signaled_' \in [Thread -> BOOLEAN]
    BY <1>1, WakeType DEF SendReturns, TypeOK
  <2>3. returned' \subseteq Msgs
    BY <1>1, <1>2, <1>3 DEF TypeOK
  <2>4. QED
    BY <1>1, <2>1, <2>2, <2>3 DEF TypeOK, SendReturns, queueVars, sendVars, waitVars
<1>5. /\ UNCHANGED <<msgq_, dmsgq_, sendlist_>> /\ UNCHANGED <<nmsgs, sender, handled, cleared>>
      /\ UNCHANGED ready
  BY DEF SendReturns, queueVars, sendVars
<1>6. \A u \in Thread : Pending(u)' \subseteq Pending(u)
  BY <1>1, PopPending
<1>7. NoDups' /\ <<"frame", t>> \in Place /\ MovesTo(<<"frame", t>>, <<"frame", t>>)
  BY <1>5, <1>6, QueuesSame
<1>8. /\ Shape' /\ Once' /\ HeldExists' /\ Nested' /\ AwaitedRan'
      /\ \A m \in Msgs : Held(m)' => Held(m)
      /\ \A m \in Msgs : (NoHandler(m) => NoHandler(m)') /\ (NoAwait(m) => NoAwait(m)')
  <2> DEFINE r == Front(stack[t])
  <2> DEFINE k == Len(stack[t]) - 1
  <2>1. Len(stack[t]) \in Nat \ {0}
    BY <1>1, TopFacts
  <2>2. Changes(t, r, k) /\ Len(r) = k
    BY <1>1, PopChanges
  <2>3. k < Len(stack[t]) /\ \A i \in (k + 1)..Len(r) : FALSE
    BY <2>1, <2>2
  <2> HIDE DEF r, k
  <2>4. QED
    BY <1>4, <1>5, <1>7, <2>2, <2>3, CalmStep
<1> HIDE DEF x
<1>9. QED
  BY <1>2, <1>3, <1>4, <1>5, <1>7, <1>8, Released

---------------------------------------------------------------------------
(* Clear, and new messages.                                                 *)

LEMMA ClearSend ==
  ASSUME SendInv, NEW t \in Thread, NEW u \in Thread, NEW S \in SUBSET Queued(u), Clear(t, u, S)
  PROVE  SendInv'
<1>1. TypeOK
  BY DEF SendInv
<1>2. /\ msgq_ \in [Thread -> Seq(Msgs)] /\ sendlist_ \in [Thread -> Seq(Msgs)]
      /\ dmsgq_ \in [Thread -> Seq(DelayedMsg)]
  BY <1>1 DEF TypeOK, DelayedMsg
<1> DEFINE a == Without(msgq_[u], S)
<1> DEFINE b == WithoutDelayed(dmsgq_[u], S)
<1> DEFINE c == Without(sendlist_[u], S)
<1>3. a \in Seq(Msgs) /\ ToSet(a) \subseteq ToSet(msgq_[u]) \ S /\ (NoDup(msgq_[u]) => NoDup(a))
  BY <1>2, WithoutFacts
<1>4. /\ b \in Seq(DelayedMsg) /\ (NoDupMsg(dmsgq_[u]) => NoDupMsg(b))
      /\ \A k \in 1..Len(b) : \E i \in 1..Len(dmsgq_[u]) :
           b[k] = dmsgq_[u][i] /\ dmsgq_[u][i].msg \notin S
  BY <1>2, WithoutDelayedFacts
<1>5. c \in Seq(Msgs) /\ ToSet(c) \subseteq ToSet(sendlist_[u]) \ S
      /\ (NoDup(sendlist_[u]) => NoDup(c))
  BY <1>2, WithoutFacts
<1>6. /\ msgq_' = [msgq_ EXCEPT ![u] = a] /\ dmsgq_' = [dmsgq_ EXCEPT ![u] = b]
      /\ sendlist_' = [sendlist_ EXCEPT ![u] = c]
      /\ ready' = [m \in Msgs |-> ready[m] \/ m \in S \cap Sent(u)]
      /\ cleared' = cleared \cup S
      /\ UNCHANGED <<stack, nmsgs, sender, handled, returned>>
  BY DEF Clear, Sent
<1>7. \A i \in 1..Len(dmsgq_[u]) : dmsgq_[u][i].msg \in Msgs
  <2>1. \A i \in 1..Len(dmsgq_[u]) : dmsgq_[u][i] \in DelayedMsg
    BY <1>2
  <2>2. QED
    BY <2>1 DEF DelayedMsg
<1>8. S \subseteq Posted(u) \cup Delayed(u) \cup Sent(u) /\ S \subseteq Msgs
  <2>0. /\ DOMAIN dmsgq_[u] = 1..Len(dmsgq_[u]) /\ DOMAIN msgq_[u] = 1..Len(msgq_[u])
        /\ DOMAIN sendlist_[u] = 1..Len(sendlist_[u])
    BY <1>2
  <2>1. \A m \in S : m \in Posted(u) \cup Delayed(u) \cup Sent(u)
    BY <2>0 DEF Queued, Posted, Delayed, Sent, ToSet
  <2>2. Posted(u) \subseteq Msgs /\ Sent(u) \subseteq Msgs
    BY <1>2, <2>0 DEF Posted, Sent, ToSet
  <2>3. Delayed(u) \subseteq Msgs
    BY <1>7 DEF Delayed
  <2>4. QED
    BY <2>1, <2>2, <2>3
<1> HIDE DEF a, b, c
<1>9. TypeOK'
  <2>1. signaled_' \in [Thread -> BOOLEAN]
    BY WakeType DEF Clear
  <2>2. /\ msgq_' \in [Thread -> Seq(Msgs)] /\ sendlist_' \in [Thread -> Seq(Msgs)]
        /\ dmsgq_' \in [Thread -> Seq(DelayedMsg)]
    BY <1>2, <1>3, <1>4, <1>5, <1>6
  <2>3. ready' \in [Msgs -> BOOLEAN] /\ cleared' \subseteq Msgs
    BY <1>1, <1>6, <1>8 DEF TypeOK
  <2>4. QED
    BY <1>1, <2>1, <2>2, <2>3 DEF TypeOK, Clear, waitVars, DelayedMsg
<1>10. /\ msgq_'[u] = a /\ dmsgq_'[u] = b /\ sendlist_'[u] = c
       /\ \A x \in Thread \ {u} : /\ msgq_'[x] = msgq_[x] /\ dmsgq_'[x] = dmsgq_[x]
                                  /\ sendlist_'[x] = sendlist_[x]
  BY <1>2, <1>6
<1>11. NoDups'
  <2>1. SUFFICES ASSUME NEW x \in Thread
                 PROVE  NoDup(msgq_'[x]) /\ NoDupMsg(dmsgq_'[x]) /\ NoDup(sendlist_'[x])
    BY DEF NoDups
  <2>2. NoDup(msgq_[x]) /\ NoDupMsg(dmsgq_[x]) /\ NoDup(sendlist_[x])
    BY DEF SendInv, NoDups
  <2>3. QED
    BY <1>3, <1>4, <1>5, <1>10, <2>2
<1>12. \A x \in Thread :
         /\ Posted(x)' \subseteq Posted(x) /\ Delayed(x)' \subseteq Delayed(x)
         /\ Sent(x)' \subseteq Sent(x) /\ Pending(x)' = Pending(x)
  <2>1. Posted(u)' \subseteq Posted(u) /\ Sent(u)' \subseteq Sent(u)
    BY <1>3, <1>5, <1>10 DEF Posted, Sent
  <2>2. Delayed(u)' \subseteq Delayed(u)
    BY <1>4, <1>10 DEF Delayed
  <2>3. \A x \in Thread : Pending(x)' = Pending(x)
    BY <1>6 DEF Pending, Running, Top
  <2>4. \A x \in Thread \ {u} : Posted(x)' = Posted(x) /\ Sent(x)' = Sent(x) /\ Delayed(x)' = Delayed(x)
    BY <1>10 DEF Posted, Sent, Delayed
  <2>5. QED
    BY <2>1, <2>2, <2>3, <2>4
<1>13. Posted(u)' \cap S = {} /\ Delayed(u)' \cap S = {} /\ Sent(u)' \cap S = {}
  <2>1. Posted(u)' \cap S = {} /\ Sent(u)' \cap S = {}
    BY <1>3, <1>5, <1>10 DEF Posted, Sent
  <2>2. \A k \in 1..Len(b) : b[k].msg \notin S
    BY <1>4
  <2>3. QED
    BY <1>10, <2>1, <2>2 DEF Delayed
<1>14. \A p \in Place : p[1] \in {"post", "delay", "sent", "frame"} /\ p[2] \in Thread
  BY DEF Place
<1>15. \A p \in Place, m \in Msgs : In(p, m)' => In(p, m)
  BY <1>12, <1>14 DEF In
<1>16. ASSUME NEW m \in S
       PROVE  m \in Msgs /\ Held(m) /\ ~Held(m)'
  <2>1. m \in Msgs
    BY <1>8
  <2>2. PICK kind \in {"post", "delay", "sent"} : In(<<kind, u>>, m)
    <3>1. m \in Posted(u) \/ m \in Delayed(u) \/ m \in Sent(u)
      BY <1>8
    <3>2. CASE m \in Posted(u)
      BY <3>2 DEF In
    <3>3. CASE m \in Delayed(u)
      BY <3>3 DEF In
    <3>4. CASE m \in Sent(u)
      BY <3>4 DEF In
    <3>5. QED
      BY <3>1, <3>2, <3>3, <3>4
  <2>3. <<kind, u>> \in Place
    BY Places
  <2>4. ~In(<<kind, u>>, m)'
    BY <1>13 DEF In
  <2>5. \A p \in Place : In(p, m)' => p = <<kind, u>>
    BY <1>15, <2>1, <2>2, <2>3 DEF SendInv, Once
  <2>6. QED
    BY <2>1, <2>2, <2>3, <2>4, <2>5 DEF Held
<1>17. \A m \in Msgs : Held(m)' => Held(m) /\ m \notin S
  BY <1>15, <1>16 DEF Held
<1>18. \A m \in Msgs : NoHandler(m)' = NoHandler(m) /\ NoAwait(m)' = NoAwait(m)
  BY <1>6 DEF NoHandler, NoAwait
<1>19. Shape' /\ Nested' /\ AwaitedRan'
  BY <1>6 DEF SendInv, Shape, Nested, AwaitedRan
<1>20. Once' /\ HeldExists'
  BY <1>6, <1>15, <1>17 DEF SendInv, Once, HeldExists
<1>21. \A m \in S : m \in Msgs /\ m <= nmsgs /\ Started0(m) /\ NoHandler(m)
  BY <1>16 DEF SendInv, HeldExists, Untouched
<1>22. \A m \in Msgs : m > nmsgs => m \notin S
  BY <1>1, <1>21, MsgBounds DEF TypeOK, Msgs
<1>23. \A m \in Msgs : ready'[m] <=> ready[m] \/ m \in S \cap Sent(u)
  BY <1>6
<1>24. Untouched'
  <2>1. SUFFICES ASSUME NEW m \in Msgs, Held(m)' \/ m > nmsgs
                 PROVE  Started0(m)' /\ NoHandler(m)' /\ NoAwait(m)'
    BY <1>6 DEF Untouched
  <2>2. (Held(m) \/ m > nmsgs) /\ m \notin S
    BY <1>17, <1>22, <2>1
  <2>3. Started0(m) /\ NoHandler(m) /\ NoAwait(m)
    BY <2>2 DEF SendInv, Untouched
  <2>4. QED
    BY <1>6, <1>18, <1>23, <2>2, <2>3 DEF Started0
<1>25. Outcome'
  <2>1. SUFFICES ASSUME NEW m \in Msgs
                 PROVE  /\ handled[m] = 1 => m \notin cleared'
                        /\ ready'[m] => NoHandler(m) /\ (handled[m] = 1 \/ m \in cleared')
                        /\ m \in returned => NoHandler(m) /\ (handled[m] = 1 \/ m \in cleared')
    BY <1>6, <1>18 DEF Outcome
  <2>2. /\ handled[m] = 1 => m \notin cleared
        /\ ready[m] => NoHandler(m) /\ (handled[m] = 1 \/ m \in cleared)
        /\ m \in returned => NoHandler(m) /\ (handled[m] = 1 \/ m \in cleared)
    BY DEF SendInv, Outcome
  <2>3. m \in S => handled[m] = 0 /\ NoHandler(m)
    BY <1>21 DEF Started0
  <2>4. QED
    BY <1>6, <1>23, <2>2, <2>3
<1>26. QED
  BY <1>9, <1>11, <1>19, <1>20, <1>24, <1>25 DEF SendInv

LEMMA HandlerCallsSend ==
  ASSUME SendInv, NEW t \in Thread, NEW op \in {"post", "delay", "send"}, NEW u \in Thread,
         NEW d \in Nat, HandlerCalls(t, op, u, d)
  PROVE  SendInv'
<1> DEFINE x == nmsgs + 1
<1> DEFINE f == [NewFrame(op, "check", x, u) EXCEPT !.trigger = (Time + d) % TimeMod]
<1> DEFINE r == Append(stack[t], f)
<1> DEFINE n == Len(stack[t])
<1>1. TypeOK /\ Running(t) /\ Top(t).op = "handle" /\ Top(t).at = "run"
  BY AtFacts DEF HandlerCalls, InHandler, SendInv
<1>2. nmsgs \in Nat /\ x \in Msgs /\ nmsgs' = x /\ x > nmsgs /\ x \in 1..nmsgs'
  BY <1>1, MsgBounds DEF HandlerCalls, TypeOK, Msgs
<1>3. f \in Frame /\ f.op = op /\ f.at = "check" /\ f.msg = x
  <2>1. Time \in Nat
    BY <1>1, TimeType, TimeAssumption
  <2>2. (Time + d) % TimeMod \in 0..(TimeMod - 1)
    BY <1>1, <2>1, TimeType
  <2>3. NewFrame(op, "check", x, u) \in Frame
    BY <1>2, NewFrameType DEF Ats
  <2>4. QED
    BY <2>2, <2>3 DEF Frame, NewFrame
<1>4. Step(t, Append(stack[t], f)) /\ sender' = [sender EXCEPT ![x] = {t}]
  BY DEF HandlerCalls
<1> HIDE DEF f, x
<1>5. Changes(t, r, n) /\ Len(r) = n + 1 /\ r[Len(r)] = f
  BY <1>1, <1>3, <1>4, PushChanges
<1>6. n \in Nat
  BY <1>1, TopFacts
<1> HIDE DEF r
<1>7. /\ sender' \in [Msgs -> SUBSET Thread] /\ sender'[x] = {t}
      /\ \A m \in 1..nmsgs : sender'[m] = sender[m]
  <2>1. sender \in [Msgs -> SUBSET Thread]
    BY <1>1 DEF TypeOK
  <2>2. \A m \in 1..nmsgs : m # x /\ m \in Msgs
    BY <1>1, <1>2, MsgBounds DEF TypeOK, Msgs
  <2>3. QED
    BY <1>2, <1>4, <2>1, <2>2
<1>8. TypeOK'
  <2>1. stack' \in [Thread -> Seq(Frame)]
    BY <1>1, <1>5, ChangesFacts
  <2>2. nmsgs' \in 0..MaxMsgs
    BY <1>2, MsgBounds DEF Msgs
  <2>3. QED
    BY <1>1, <1>7, <2>1, <2>2 DEF TypeOK, HandlerCalls, queueVars, sendVars, waitVars
<1>9. /\ UNCHANGED <<msgq_, dmsgq_, sendlist_, handled, cleared, ready, returned>>
  BY DEF HandlerCalls, queueVars, sendVars
<1>10. \A i \in (n + 1)..Len(r) : r[i] = f /\ i = Len(r)
  BY <1>5, <1>6
<1>11. FrameOK(f, nmsgs') /\ CalmFrame(f) /\ f.op # "get"
  BY <1>2, <1>3 DEF FrameOK, CalmFrame, Caller
<1>12. Shape'
  <2>1. nmsgs <= nmsgs' /\ nmsgs' \in Nat
    BY <1>2 DEF x
  <2>2. Top(t).at \notin {"check", "push"}
    BY <1>1
  <2> HIDE DEF n
  <2>3. \A i \in (n + 1)..Len(r) :
           /\ FrameOK(r[i], nmsgs')
           /\ r[i].op = "get" => i = 1
           /\ r[i].at \in {"check", "push"} => i = Len(r)
           /\ Caller(r[i]) => sender'[r[i].msg] = {t}
    BY <1>3, <1>7, <1>10, <1>11
  <2>4. QED
    BY <1>1, <1>5, <1>7, <2>1, <2>2, <2>3, ShapeStep DEF SendInv
<1>13. /\ \A m \in Msgs : (NoHandler(m) => NoHandler(m)') /\ (NoAwait(m) => NoAwait(m)')
       /\ Nested' /\ AwaitedRan'
  <2>1. \A i \in (n + 1)..Len(r) : CalmFrame(r[i])
    BY <1>10, <1>11
  <2>2. QED
    BY <1>1, <1>5, <1>9, <2>1, CalmFrames DEF SendInv
<1>14. Pending(t)' = {x} /\ \A v \in Thread \ {t} : Pending(v)' = Pending(v)
  <2>1. r # <<>> /\ r[Len(r)].at \in {"check", "push"} /\ r[Len(r)].msg = x
    BY <1>3, <1>5, <1>6
  <2>2. QED
    BY <1>1, <1>5, <2>1, PendingChanges
<1>15. \A v \in Thread : Posted(v)' = Posted(v) /\ Delayed(v)' = Delayed(v) /\ Sent(v)' = Sent(v)
  BY <1>9 DEF Posted, Delayed, Sent
<1>16. /\ <<"frame", t>> \in Place
       /\ \A p \in Place : /\ p[1] \in {"post", "delay", "sent", "frame"} /\ p[2] \in Thread
                           /\ p[1] = "frame" /\ p[2] = t => p = <<"frame", t>>
  BY Places
<1>17. \A p \in Place, m \in Msgs : In(p, m)' => In(p, m) \/ (m = x /\ p = <<"frame", t>>)
  BY <1>14, <1>15, <1>16 DEF In
<1>18. ~Held(x)
  BY <1>2 DEF SendInv, HeldExists
<1>19. Once'
  <2>1. SUFFICES ASSUME NEW p \in Place, NEW q \in Place, NEW m \in Msgs, In(p, m)', In(q, m)'
                 PROVE  p = q
    BY DEF Once, In
  <2>2. CASE m = x
    BY <1>17, <1>18, <2>1, <2>2 DEF Held
  <2>3. CASE m # x
    BY <1>17, <2>1, <2>3 DEF SendInv, Once
  <2>4. QED
    BY <2>2, <2>3
<1>20. \A m \in Msgs : Held(m)' => Held(m) \/ m = x
  BY <1>17 DEF Held
<1>21. HeldExists'
  <2>1. \A m \in Msgs : m <= nmsgs \/ m = x => m <= nmsgs'
    BY <1>2 DEF x, Msgs
  <2>2. QED
    BY <1>20, <2>1 DEF SendInv, HeldExists
<1>22. Untouched'
  <2>1. SUFFICES ASSUME NEW m \in Msgs, Held(m)' \/ m > nmsgs'
                 PROVE  Started0(m)' /\ NoHandler(m)' /\ NoAwait(m)'
    BY DEF Untouched
  <2>2. m > nmsgs' => m > nmsgs
    BY <1>2 DEF x, Msgs
  <2>3. Held(m) \/ m > nmsgs
    BY <1>2, <1>20, <2>1, <2>2
  <2>4. Started0(m) /\ NoHandler(m) /\ NoAwait(m)
    BY <2>3 DEF SendInv, Untouched
  <2>5. QED
    BY <1>9, <1>13, <2>4 DEF Started0
<1>23. Outcome'
  BY <1>9, <1>13 DEF SendInv, Outcome
<1>24. NoDups'
  BY <1>9 DEF SendInv, NoDups
<1>25. QED
  BY <1>8, <1>12, <1>13, <1>19, <1>21, <1>22, <1>23, <1>24 DEF SendInv

---------------------------------------------------------------------------
(* A handler starts.                                                        *)

LEMMA HeldFresh ==
  ASSUME SendInv, NEW m \in Msgs, Held(m), Started(m)
  PROVE  /\ handled' \in [Msgs -> 0..1] /\ handled[m] = 0 /\ handled'[m] = 1
         /\ \A x \in Msgs \ {m} : handled'[x] = handled[x]
         /\ m <= nmsgs /\ m \in 1..nmsgs
<1>1. handled \in [Msgs -> 0..1] /\ nmsgs \in Nat /\ m \in Nat /\ m >= 1
  BY MsgBounds DEF SendInv, TypeOK, Msgs
<1>2. handled[m] = 0 /\ m <= nmsgs
  BY DEF SendInv, Untouched, Started0, HeldExists
<1>3. QED
  BY <1>1, <1>2 DEF Started

\* The handler of m starts on top of the stack of t; the frame below may wait for it.
LEMMA StartStep ==
  ASSUME SendInv, TypeOK', NoDups', NEW t \in Thread, NEW r, NEW n, n = Len(stack[t]),
         n \in Nat \ {0}, NEW m \in Msgs, Changes(t, r, n - 1), Len(r) = n + 1,
         r[n + 1] = NewFrame("handle", "run", m, t),
         FrameOK(r[n], nmsgs), r[n].op # "handle", r[n].at \notin {"check", "push"},
         \A x \in Msgs : Awaits(r[n], x) => x = m,
         r[n].op = "get" => n = 1, Caller(r[n]) => sender[r[n].msg] = {t},
         Held(m), ~Held(m)', Started(m),
         NEW src \in Place, NEW dst \in Place, MovesTo(src, dst),
         UNCHANGED <<nmsgs, sender, cleared, ready, returned>>
  PROVE  SendInv'
<1> DEFINE f == NewFrame("handle", "run", m, t)
<1> DEFINE k == n - 1
<1>1. /\ handled[m] = 0 /\ handled'[m] = 1 /\ \A x \in Msgs \ {m} : handled'[x] = handled[x]
      /\ m <= nmsgs /\ m \in 1..nmsgs
  BY HeldFresh
<1>2. TypeOK /\ Started0(m) /\ NoHandler(m) /\ NoAwait(m)
  BY DEF SendInv, Untouched
<1>3. /\ stack'[t] = r /\ \A u \in Thread \ {t} : stack'[u] = stack[u]
      /\ \A i \in 1..Len(r) : i \in 1..k \/ i \in (k + 1)..Len(r)
      /\ \A i \in 1..k : i \in 1..Len(r) /\ i \in 1..Len(stack[t]) /\ r[i] = stack[t][i]
  BY <1>2, ChangesFacts
<1>4. \A i \in (k + 1)..Len(r) : i = n \/ i = n + 1
  OBVIOUS
<1>5. n \in (k + 1)..Len(r) /\ n + 1 \in (k + 1)..Len(r) /\ k < Len(stack[t]) /\ n # n + 1
  OBVIOUS
<1>6. /\ FrameOK(f, nmsgs) /\ f.op = "handle" /\ f.msg = m /\ f.at = "run" /\ ~Caller(f)
  BY <1>1 DEF NewFrame, FrameOK, Caller
<1>7. Changes(t, r, k) /\ r[n + 1] = f
  OBVIOUS
<1> HIDE DEF f, k
<1>8. Shape'
  <2>1. nmsgs <= nmsgs' /\ nmsgs' \in Nat
    BY <1>2 DEF TypeOK
  <2>2. \A i \in (k + 1)..Len(r) :
           /\ FrameOK(r[i], nmsgs')
           /\ r[i].op = "get" => i = 1
           /\ r[i].at \in {"check", "push"} => i = Len(r)
           /\ Caller(r[i]) => sender'[r[i].msg] = {t}
    BY <1>4, <1>6, <1>7
  <2>3. QED
    BY <1>2, <1>5, <1>7, <2>1, <2>2, ShapeStep DEF SendInv
<1>9. Once' /\ HeldExists' /\ \A x \in Msgs : Held(x)' => Held(x)
  BY MovesOnce DEF SendInv
<1>10. ASSUME NEW u \in Thread, NEW j \in 1..Len(stack'[u]), NEW x \in Msgs,
              Handles(stack'[u][j], x)
       PROVE  \/ u = t /\ j = n + 1 /\ x = m
              \/ x # m /\ j \in 1..Len(stack[u]) /\ stack'[u][j] = stack[u][j]
  <2>1. CASE u # t
    <3>1. stack'[u] = stack[u]
      BY <1>3, <2>1
    <3>2. x # m
      BY <1>2, <1>10, <3>1 DEF NoHandler
    <3>3. QED
      BY <3>1, <3>2
  <2>2. CASE u = t /\ j \in 1..k
    <3>1. j \in 1..Len(stack[u]) /\ stack'[u][j] = stack[u][j]
      BY <1>3, <2>2
    <3>2. QED
      BY <1>2, <1>10, <3>1 DEF NoHandler
  <2>3. CASE u = t /\ j \in (k + 1)..Len(r)
    BY <1>3, <1>4, <1>6, <1>7, <1>10, <2>3 DEF Handles
  <2>4. QED
    BY <1>3, <2>1, <2>2, <2>3
<1>11. ASSUME NEW u \in Thread, NEW i \in 1..Len(stack'[u]), NEW x \in Msgs,
              Awaits(stack'[u][i], x)
       PROVE  \/ u = t /\ i = n /\ x = m
              \/ x # m /\ i \in 1..Len(stack[u]) /\ stack'[u][i] = stack[u][i]
  <2>1. CASE u # t
    <3>1. stack'[u] = stack[u]
      BY <1>3, <2>1
    <3>2. x # m
      BY <1>2, <1>11, <3>1 DEF NoAwait
    <3>3. QED
      BY <3>1, <3>2
  <2>2. CASE u = t /\ i \in 1..k
    <3>1. i \in 1..Len(stack[u]) /\ stack'[u][i] = stack[u][i]
      BY <1>3, <2>2
    <3>2. QED
      BY <1>2, <1>11, <3>1 DEF NoAwait
  <2>3. CASE u = t /\ i \in (k + 1)..Len(r)
    <3>1. ~Awaits(f, x)
      BY <1>6 DEF Awaits
    <3>2. QED
      BY <1>3, <1>4, <1>7, <1>11, <2>3, <3>1
  <2>4. QED
    BY <1>3, <2>1, <2>2, <2>3
<1>12. Nested'
  <2>1. SUFFICES ASSUME NEW y \in Thread, NEW u \in Thread, NEW x \in Msgs,
                        NEW i \in 1..Len(stack'[y]), NEW j \in 1..Len(stack'[u]),
                        Awaits(stack'[y][i], x), Handles(stack'[u][j], x)
                 PROVE  u = y /\ j = i + 1
    BY DEF Nested, Awaits, Handles
  <2>2. CASE x = m
    BY <1>10, <1>11, <2>1, <2>2
  <2>3. CASE x # m
    <3>1. /\ i \in 1..Len(stack[y]) /\ Awaits(stack[y][i], x)
          /\ j \in 1..Len(stack[u]) /\ Handles(stack[u][j], x)
      BY <1>10, <1>11, <2>1, <2>3
    <3>2. QED
      BY <3>1 DEF SendInv, Nested
  <2>4. QED
    BY <2>2, <2>3
<1>13. AwaitedRan'
  <2>1. SUFFICES ASSUME NEW y \in Thread, NEW x \in Msgs, NEW i \in 1..Len(stack'[y]),
                        Awaits(stack'[y][i], x)
                 PROVE  handled'[x] = 1
    BY DEF AwaitedRan, Awaits
  <2>2. CASE x = m
    BY <1>1, <2>2
  <2>3. CASE x # m
    <3>1. i \in 1..Len(stack[y]) /\ Awaits(stack[y][i], x)
      BY <1>11, <2>1, <2>3
    <3>2. QED
      BY <1>1, <2>3, <3>1 DEF SendInv, AwaitedRan
  <2>4. QED
    BY <2>2, <2>3
<1>14. \A x \in Msgs \ {m} : (NoHandler(x) => NoHandler(x)') /\ (NoAwait(x) => NoAwait(x)')
  <2>1. ASSUME NEW x \in Msgs \ {m}, NoHandler(x) PROVE NoHandler(x)'
    <3>1. SUFFICES ASSUME NEW u \in Thread, NEW j \in 1..Len(stack'[u]), Handles(stack'[u][j], x)
                   PROVE  FALSE
      BY DEF NoHandler, Handles
    <3>2. QED
      BY <1>10, <2>1, <3>1 DEF NoHandler
  <2>2. ASSUME NEW x \in Msgs \ {m}, NoAwait(x) PROVE NoAwait(x)'
    <3>1. SUFFICES ASSUME NEW u \in Thread, NEW j \in 1..Len(stack'[u]), Awaits(stack'[u][j], x)
                   PROVE  FALSE
      BY DEF NoAwait, Awaits
    <3>2. QED
      BY <1>11, <2>2, <3>1 DEF NoAwait
  <2>3. QED
    BY <2>1, <2>2
<1>15. Untouched'
  <2>1. SUFFICES ASSUME NEW x \in Msgs, Held(x)' \/ x > nmsgs
                 PROVE  Started0(x)' /\ NoHandler(x)' /\ NoAwait(x)'
    BY DEF Untouched
  <2>2. m \in Int /\ nmsgs \in Int
    BY <1>2, MsgBounds DEF TypeOK, Msgs
  <2>3. x # m /\ (Held(x) \/ x > nmsgs)
    <3>1. Held(x)' => x # m
      BY DEF Held, In
    <3>2. QED
      BY <1>1, <1>9, <2>1, <2>2, <3>1
  <2>4. Started0(x) /\ NoHandler(x) /\ NoAwait(x)
    BY <2>3 DEF SendInv, Untouched
  <2>5. QED
    BY <1>1, <1>14, <2>3, <2>4 DEF Started0
<1>16. Outcome'
  <2>1. SUFFICES ASSUME NEW x \in Msgs
                 PROVE  /\ handled'[x] = 1 => x \notin cleared
                        /\ ready[x] => NoHandler(x)' /\ (handled'[x] = 1 \/ x \in cleared)
                        /\ x \in returned => NoHandler(x)' /\ (handled'[x] = 1 \/ x \in cleared)
    BY DEF Outcome
  <2>2. CASE x = m
    BY <1>2, <2>2 DEF Started0
  <2>3. CASE x # m
    <3>1. /\ handled[x] = 1 => x \notin cleared
          /\ ready[x] => NoHandler(x) /\ (handled[x] = 1 \/ x \in cleared)
          /\ x \in returned => NoHandler(x) /\ (handled[x] = 1 \/ x \in cleared)
      BY DEF SendInv, Outcome
    <3>2. QED
      BY <1>1, <1>14, <2>3, <3>1
  <2>4. QED
    BY <2>2, <2>3
<1>17. QED
  BY <1>8, <1>9, <1>12, <1>13, <1>15, <1>16 DEF SendInv

\* The running activation of t goes to at and calls f.
GoesAndCalls(t, r, at, f) ==
  r = Append(Goto(stack[t], at), f) /\ stack' = [stack EXCEPT ![t] = r]

LEMMA GotoPushTo ==
  ASSUME TypeOK, NEW t \in Thread, Running(t), NEW at \in Ats, NEW f \in Frame, NEW r,
         GoesAndCalls(t, r, at, f)
  PROVE  /\ Changes(t, r, Len(stack[t]) - 1) /\ Len(r) = Len(stack[t]) + 1
         /\ r[Len(stack[t])].at = at /\ Moved(r[Len(stack[t])], Top(t))
         /\ r[Len(stack[t]) + 1] = f
<1>1. /\ stack[t] \in Seq(Frame) /\ stack[t] # <<>> /\ Len(stack[t]) \in Nat \ {0}
      /\ Top(t) = stack[t][Len(stack[t])]
  BY RunningTop
<1> DEFINE g == Goto(stack[t], at)
<1>2. /\ g \in Seq(Frame) /\ Len(g) = Len(stack[t])
      /\ \A i \in 1..(Len(stack[t]) - 1) : g[i] = stack[t][i]
      /\ g[Len(stack[t])].at = at /\ Moved(g[Len(stack[t])], Top(t))
  BY <1>1, GotoFacts
<1>3. r = Append(g, f) /\ stack' = [stack EXCEPT ![t] = r]
  BY DEF GoesAndCalls
<1> HIDE DEF g
<1>4. /\ r \in Seq(Frame) /\ Len(r) = Len(g) + 1
      /\ r[Len(g) + 1] = f /\ \A i \in 1..Len(g) : r[i] = g[i]
  BY <1>2, <1>3, PushFacts
<1>5. Changes(t, r, Len(stack[t]) - 1)
  BY <1>1, <1>2, <1>3, <1>4 DEF Changes
<1>6. QED
  BY <1>1, <1>2, <1>4, <1>5

LEMMA CheckStopSend ==
  ASSUME SendInv, NEW t \in Thread, CheckStop(t)
  PROVE  SendInv'
<1> DEFINE n == Len(stack[t])
<1>1. TypeOK /\ Running(t) /\ Top(t).at = "check"
  BY DEF CheckStop, SendInv
<1>0. PICK m \in Msgs : m = Top(t).msg
  BY <1>1, PendingMsg
<1>2. /\ FrameOK(Top(t), nmsgs) /\ (Top(t).op = "get" => n = 1)
      /\ (Caller(Top(t)) => sender[Top(t).msg] = {t}) /\ n \in Nat \ {0}
  BY <1>1, TopFacts
<1>3. /\ Caller(Top(t)) /\ m \in 1..nmsgs /\ Pending(t) = {m} /\ Top(t).to \in Thread
  BY <1>0, <1>1, PendingMsg
<1>4. /\ UNCHANGED <<msgq_, dmsgq_, sendlist_>>
      /\ UNCHANGED <<nmsgs, sender, cleared, ready, returned>>
  BY DEF CheckStop, queueVars, sendVars
<1>5. stack' \in [Thread -> Seq(Frame)] /\ refused' \subseteq Msgs /\ handled' \in [Msgs -> 0..1] => TypeOK'
  BY <1>1 DEF TypeOK, CheckStop, queueVars, sendVars, waitVars
<1>6. CASE fStop_[Top(t).to]
  <2>1. Step(t, Front(stack[t])) /\ refused' = refused \cup {m} /\ UNCHANGED handled
    BY <1>0, <1>6 DEF CheckStop
  <2>2. stack' \in [Thread -> Seq(Frame)]
    BY <1>1, <2>1, StackType
  <2>3. TypeOK'
    BY <1>1, <1>3, <1>5, <2>1, <2>2 DEF TypeOK
  <2>4. QED
    BY <1>1, <1>4, <2>1, <2>3, PopStep DEF SendState
<1>7. CASE ~fStop_[Top(t).to] /\ Top(t).op = "send" /\ Top(t).to = t
  <2>1. PICK f \in Frame : f = NewFrame("handle", "run", m, t)
    BY <1>3, NewFrameType DEF Ats
  <2>2. PICK at \in Ats : at = "done"
    BY DEF Ats
  <2>3. PICK r : r = Append(Goto(stack[t], at), f)
    OBVIOUS
  <2>4. GoesAndCalls(t, r, at, f) /\ Started(m) /\ UNCHANGED refused /\ f.at = "run"
    BY <1>0, <1>7, <2>1, <2>2, <2>3 DEF CheckStop, Call, Step, NewFrame, GoesAndCalls
  <2>5. /\ Changes(t, r, n - 1) /\ Len(r) = n + 1
        /\ r[n].at = at /\ Moved(r[n], Top(t)) /\ r[n + 1] = f
    BY <1>1, <2>4, GotoPushTo
  <2>6. stack' \in [Thread -> Seq(Frame)]
    BY <1>1, <2>5, ChangesFacts
  <2>7. Held(m)
    <3>1. <<"frame", t>> \in Place /\ In(<<"frame", t>>, m)
      BY <1>3 DEF Place, In
    <3>2. QED
      BY <3>1 DEF Held
  <2>8. TypeOK'
    BY <1>1, <1>3, <1>5, <2>4, <2>6, <2>7, HeldFresh DEF TypeOK
  <2>9. Pending(t)' = {} /\ \A u \in Thread \ {t} : Pending(u)' = Pending(u)
    <3>1. r[Len(r)].at \notin {"check", "push"}
      BY <2>4, <2>5
    <3>2. QED
      BY <1>1, <2>5, <3>1, PendingChanges
  <2>10. NoDups' /\ <<"frame", t>> \in Place /\ MovesTo(<<"frame", t>>, <<"frame", t>>)
    BY <1>4, <2>9, QueuesSame
  <2>11. ~Held(m)'
    <3>1. \A p \in Place : In(p, m)' => In(p, m)
      BY <1>3, <2>10 DEF MovesTo
    <3>2. \A p \in Place : In(p, m)' => p = <<"frame", t>>
      <4>1. <<"frame", t>> \in Place /\ In(<<"frame", t>>, m)
        BY <1>3 DEF Place, In
      <4>2. QED
        BY <1>3, <3>1, <4>1 DEF SendInv, Once
    <3>3. ~In(<<"frame", t>>, m)'
      BY <2>9 DEF In
    <3>4. QED
      BY <3>2, <3>3 DEF Held
  <2>12. r[n].op = "send" /\ r[n].msg = m
    BY <1>0, <1>7, <2>5 DEF Moved
  <2>13. /\ FrameOK(r[n], nmsgs) /\ r[n].op # "handle" /\ r[n].at \notin {"check", "push"}
         /\ \A x \in Msgs : Awaits(r[n], x) => x = m
         /\ r[n].op # "get" /\ Caller(r[n]) /\ sender[r[n].msg] = {t}
    BY <1>0, <1>2, <1>3, <2>2, <2>5, <2>12 DEF FrameOK, Caller, Awaits
  <2>14. r[n + 1] = NewFrame("handle", "run", m, t)
    BY <2>1, <2>5
  <2>15. QED
    BY <1>2, <1>3, <1>4, <2>4, <2>5, <2>7, <2>8, <2>10, <2>11, <2>13, <2>14, StartStep
<1>8. CASE ~fStop_[Top(t).to] /\ ~(Top(t).op = "send" /\ Top(t).to = t)
  <2> DEFINE r == Goto(stack[t], "push")
  <2>1. Step(t, Goto(stack[t], "push")) /\ UNCHANGED <<refused, handled>> /\ "push" \in Ats
    BY <1>8 DEF CheckStop, Ats
  <2>2. stack' \in [Thread -> Seq(Frame)]
    BY <1>1, <2>1, StackType
  <2>3. TypeOK'
    BY <1>1, <1>5, <2>1, <2>2 DEF TypeOK
  <2>4. Changes(t, r, n - 1) /\ Len(r) = n /\ r[n].at = "push" /\ Moved(r[n], Top(t))
    BY <1>1, <2>1, GotoChanges
  <2> HIDE DEF r
  <2>5. r[n].op = Top(t).op /\ r[n].msg = m /\ r # <<>>
    BY <1>0, <1>2, <2>4 DEF Moved
  <2>6. \A u \in Thread : Pending(u)' \subseteq Pending(u)
    BY <1>1, <1>3, <2>4, <2>5, PendingChanges
  <2>7. NoDups' /\ <<"frame", t>> \in Place /\ MovesTo(<<"frame", t>>, <<"frame", t>>)
    BY <1>4, <2>6, QueuesSame
  <2>8. FrameOK(r[n], nmsgs) /\ CalmFrame(r[n]) /\ r[n].op # "get" /\ sender[r[n].msg] = {t}
    BY <1>0, <1>2, <1>3, <2>4, <2>5 DEF FrameOK, CalmFrame, Caller
  <2> DEFINE k == n - 1
  <2>9. \A i \in (k + 1)..Len(r) : i = n
    BY <1>2, <2>4
  <2>10. k < Len(stack[t]) /\ Changes(t, r, k)
    BY <1>2, <2>4
  <2>11. \A i \in (k + 1)..Len(r) :
           /\ FrameOK(r[i], nmsgs) /\ CalmFrame(r[i])
           /\ r[i].op = "get" => i = 1
           /\ r[i].at \in {"check", "push"} => i = Len(r)
           /\ Caller(r[i]) => sender[r[i].msg] = {t}
    BY <2>4, <2>8, <2>9
  <2> HIDE DEF k, n
  <2>12. QED
    BY <1>4, <2>1, <2>3, <2>7, <2>10, <2>11, CalmStep
<1>9. QED
  BY <1>6, <1>7, <1>8

\* ReceiveSends notes which message it handles.
TakesAndCalls(t, r, m, f) ==
  r = Append([stack[t] EXCEPT ![Len(stack[t])].at = "done", ![Len(stack[t])].msg = m], f)

LEMMA TakeFacts ==
  ASSUME SendInv, NEW t \in Thread, At(t, "receive", "take"), NEW m \in Msgs, m <= nmsgs, NEW r,
         NEW f \in Frame, TakesAndCalls(t, r, m, f)
  PROVE  LET n == Len(stack[t])
         IN /\ r \in Seq(Frame) /\ Len(r) = n + 1 /\ r[n + 1] = f
            /\ \A i \in 1..(n - 1) : r[i] = stack[t][i]
            /\ r[n].op = "receive" /\ r[n].at = "done" /\ r[n].msg = m
            /\ FrameOK(r[n], nmsgs)
<1> DEFINE s == stack[t]
<1> DEFINE n == Len(s)
<1> DEFINE g == [s[n] EXCEPT !.at = "done", !.msg = m]
<1>1. /\ s \in Seq(Frame) /\ s # <<>> /\ n \in Nat \ {0} /\ s[n] \in Frame
      /\ s[n].op = "receive"
  BY AtFacts, TopFacts DEF Running
<1>2. g \in Frame /\ g.at = "done" /\ g.msg = m /\ g.op = "receive"
  BY <1>1 DEF Frame
<1>3. FrameOK(g, nmsgs)
  <2>1. m \in 1..nmsgs
    BY MsgBounds DEF SendInv, TypeOK, Msgs
  <2> HIDE DEF g
  <2>2. QED
    BY <1>2, <2>1 DEF FrameOK, Caller
<1>4. [s EXCEPT ![n].at = "done", ![n].msg = m] = [s EXCEPT ![n] = g]
  BY <1>1
<1> HIDE DEF g
<1> DEFINE h == [s EXCEPT ![n] = g]
<1>5. h \in Seq(Frame) /\ Len(h) = n /\ h[n] = g /\ \A i \in 1..(n - 1) : h[i] = s[i]
  BY <1>1, <1>2, ReplaceTop
<1>6. r = Append(h, f)
  BY <1>4 DEF TakesAndCalls
<1> HIDE DEF h
<1>7. /\ r \in Seq(Frame) /\ Len(r) = Len(h) + 1 /\ r[Len(h) + 1] = f
      /\ \A i \in 1..Len(h) : r[i] = h[i]
  BY <1>5, <1>6, PushFacts
<1>8. r[n] = g /\ \A i \in 1..(n - 1) : r[i] = s[i]
  BY <1>1, <1>5, <1>7
<1>9. QED
  BY <1>2, <1>3, <1>5, <1>7, <1>8

LEMMA ReceiveTakeSend ==
  ASSUME SendInv, NEW t \in Thread, ReceiveTake(t)
  PROVE  SendInv'
<1> DEFINE n == Len(stack[t])
<1>1. TypeOK /\ At(t, "receive", "take") /\ Running(t) /\ Top(t).at = "take" /\ n \in Nat \ {0}
  BY AtFacts, TopFacts DEF ReceiveTake, SendInv
<1>2. /\ UNCHANGED <<msgq_, dmsgq_>>
      /\ UNCHANGED <<nmsgs, sender, cleared, ready, returned>>
  BY DEF ReceiveTake, queueVars
<1>3. /\ stack' \in [Thread -> Seq(Frame)] /\ handled' \in [Msgs -> 0..1]
      /\ sendlist_' \in [Thread -> Seq(Msgs)] /\ has_sends_' \in [Thread -> BOOLEAN]
      => TypeOK'
  BY <1>1 DEF TypeOK, ReceiveTake, queueVars, waitVars
<1>4. CASE sendlist_[t] = <<>>
  <2>1. /\ Step(t, Front(stack[t])) /\ UNCHANGED <<sendlist_, handled>>
        /\ has_sends_' = [has_sends_ EXCEPT ![t] = FALSE]
    BY <1>4 DEF ReceiveTake
  <2>2. stack' \in [Thread -> Seq(Frame)]
    BY <1>1, <2>1, StackType
  <2>3. TypeOK'
    BY <1>1, <1>3, <2>1, <2>2 DEF TypeOK
  <2>4. QED
    BY <1>1, <1>2, <2>1, <2>3, PopStep DEF SendState
<1>5. CASE sendlist_[t] # <<>>
  <2>1. sendlist_ \in [Thread -> Seq(Msgs)]
    BY <1>1 DEF TypeOK
  <2>2. PICK m \in Msgs : m = Head(sendlist_[t])
    BY <1>5, <2>1, TailFacts
  <2>3. PICK q \in Seq(Msgs) : q = Tail(sendlist_[t])
    BY <1>5, <2>1, TailFacts
  <2>4. m \in Sent(t) /\ ToSet(q) \subseteq Sent(t) /\ NoDup(q) /\ m \notin ToSet(q)
    BY <1>5, <2>1, <2>2, <2>3, TailFacts DEF Sent, SendInv, NoDups
  <2>5. PICK f \in Frame : f = NewFrame("handle", "run", m, t)
    BY NewFrameType DEF Ats
  <2>6. PICK r : r = Append([stack[t] EXCEPT ![Len(stack[t])].at = "done",
                                             ![Len(stack[t])].msg = m], f)
    OBVIOUS
  <2>7. /\ stack' = [stack EXCEPT ![t] = r] /\ sendlist_' = [sendlist_ EXCEPT ![t] = q]
        /\ Started(m) /\ UNCHANGED has_sends_ /\ f.at = "run" /\ TakesAndCalls(t, r, m, f)
    BY <1>5, <2>2, <2>3, <2>5, <2>6 DEF ReceiveTake, Call, Step, NewFrame, TakesAndCalls
  <2>8. <<"sent", t>> \in Place /\ In(<<"sent", t>>, m)
    BY <2>4 DEF Place, In
  <2>9. Held(m) /\ m <= nmsgs
    BY <2>8 DEF Held, SendInv, HeldExists
  <2>10. /\ r \in Seq(Frame) /\ Len(r) = n + 1 /\ r[n + 1] = f
         /\ \A i \in 1..(n - 1) : r[i] = stack[t][i]
         /\ r[n].op = "receive" /\ r[n].at = "done" /\ r[n].msg = m
         /\ FrameOK(r[n], nmsgs)
    BY <1>1, <2>7, <2>9, TakeFacts
  <2>11. Changes(t, r, n - 1)
    BY <1>1, <2>7, <2>10 DEF Changes
  <2>12. TypeOK'
    <3>1. stack' \in [Thread -> Seq(Frame)]
      BY <1>1, <2>11, ChangesFacts
    <3>2. handled' \in [Msgs -> 0..1]
      BY <2>7, <2>9, HeldFresh
    <3>3. sendlist_' \in [Thread -> Seq(Msgs)] /\ has_sends_' \in [Thread -> BOOLEAN]
      BY <1>1, <2>1, <2>7 DEF TypeOK
    <3>4. QED
      BY <1>3, <3>1, <3>2, <3>3
  <2>13. sendlist_'[t] = q /\ \A x \in Thread \ {t} : sendlist_'[x] = sendlist_[x]
    BY <2>1, <2>7
  <2>14. NoDups'
    <3>1. ASSUME NEW x \in Thread PROVE NoDup(sendlist_'[x])
      BY <2>4, <2>13 DEF SendInv, NoDups
    <3>2. QED
      BY <1>2, <3>1 DEF SendInv, NoDups
  <2>15. \A x \in Thread : /\ Posted(x)' = Posted(x) /\ Delayed(x)' = Delayed(x)
                           /\ Sent(x)' \subseteq Sent(x) /\ Pending(x)' \subseteq Pending(x)
    <3>1. \A x \in Thread : /\ Posted(x)' = Posted(x) /\ Delayed(x)' = Delayed(x)
                            /\ Sent(x)' \subseteq Sent(x)
      BY <1>2, <2>4, <2>13 DEF Posted, Delayed, Sent
    <3>2. r[Len(r)].at \notin {"check", "push"}
      BY <2>7, <2>10
    <3>3. QED
      BY <1>1, <2>11, <3>1, <3>2, PendingChanges
  <2>16. \A p \in Place, x \in Msgs : In(p, x)' => In(p, x)
    BY <2>15 DEF In, Place
  <2>17. MovesTo(<<"sent", t>>, <<"sent", t>>)
    BY <2>16 DEF MovesTo
  <2>18. ~Held(m)'
    <3>1. \A p \in Place : In(p, m)' => p = <<"sent", t>>
      BY <2>8, <2>16 DEF SendInv, Once
    <3>2. ~In(<<"sent", t>>, m)'
      BY <2>4, <2>13 DEF In, Sent
    <3>3. QED
      BY <3>1, <3>2 DEF Held
  <2>19. /\ r[n].op # "handle" /\ r[n].at \notin {"check", "push"} /\ r[n].op # "get"
         /\ ~Caller(r[n]) /\ \A x \in Msgs : Awaits(r[n], x) => x = m
    BY <2>10 DEF Caller, Awaits
  <2>20. r[n + 1] = NewFrame("handle", "run", m, t)
    BY <2>5, <2>10
  <2>21. QED
    BY <1>1, <1>2, <2>7, <2>8, <2>9, <2>10, <2>11, <2>12, <2>14, <2>17, <2>18, <2>19, <2>20,
       StartStep
<1>6. QED
  BY <1>4, <1>5

LEMMA DueType ==
  ASSUME TypeOK, NEW t \in Thread
  PROVE  Due(t) \in 0..Len(dmsgq_[t])
<1>1. Len(dmsgq_[t]) \in Nat
  BY DEF TypeOK
<1>2. QED
  BY <1>1, UpToFacts DEF Due

LEMMA GetPullSend ==
  ASSUME SendInv, NEW t \in Thread, GetPull(t)
  PROVE  SendInv'
<1> DEFINE n == Len(stack[t])
<1>1. /\ TypeOK /\ Running(t) /\ Top(t).op = "get" /\ Top(t).at = "pull" /\ n \in Nat \ {0}
  BY AtFacts, TopFacts DEF GetPull, SendInv
<1>2. msgq_ \in [Thread -> Seq(Msgs)] /\ dmsgq_ \in [Thread -> Seq(DelayedMsg)]
  BY <1>1 DEF TypeOK, DelayedMsg
<1>3. PICK k \in 0..Len(dmsgq_[t]) : k = Due(t)
  BY <1>1, DueType
<1>4. PICK q : q = msgq_[t] \o [i \in 1..k |-> dmsgq_[t][i].msg]
  OBVIOUS
<1>5. PICK rest : rest = SubSeq(dmsgq_[t], k + 1, Len(dmsgq_[t]))
  OBVIOUS
<1>6. Posted(t) \cap Delayed(t) = {}
  <2>1. <<"post", t>> \in Place /\ <<"delay", t>> \in Place /\ <<"post", t>> # <<"delay", t>>
    BY DEF Place
  <2>2. \A m \in Msgs : m \in Posted(t) /\ m \in Delayed(t) => FALSE
    BY <2>1 DEF SendInv, Once, In
  <2>3. Posted(t) \subseteq Msgs
    BY <1>2 DEF Posted, ToSet
  <2>4. QED
    BY <2>2, <2>3
<1>7. Delayed(t) = MsgsOf(dmsgq_[t]) /\ Posted(t) = ToSet(msgq_[t])
  BY DEF Delayed, MsgsOf, Posted
<1>8. /\ q \in Seq(Msgs) /\ rest \in Seq(DelayedMsg)
      /\ ToSet(q) \subseteq Posted(t) \cup Delayed(t) /\ MsgsOf(rest) \subseteq Delayed(t)
      /\ NoDup(q) /\ NoDupMsg(rest) /\ ToSet(q) \cap MsgsOf(rest) = {}
  <2>1. NoDup(msgq_[t]) /\ NoDupMsg(dmsgq_[t])
    BY DEF SendInv, NoDups
  <2>2. ToSet(msgq_[t]) \cap MsgsOf(dmsgq_[t]) = {}
    BY <1>6, <1>7
  <2>3. LET a == msgq_[t] \o [i \in 1..k |-> dmsgq_[t][i].msg]
            b == SubSeq(dmsgq_[t], k + 1, Len(dmsgq_[t]))
        IN /\ a \in Seq(Msgs) /\ b \in Seq(DelayedMsg)
           /\ ToSet(a) \subseteq ToSet(msgq_[t]) \cup MsgsOf(dmsgq_[t])
           /\ MsgsOf(b) \subseteq MsgsOf(dmsgq_[t])
           /\ NoDup(a) /\ NoDupMsg(b) /\ ToSet(a) \cap MsgsOf(b) = {}
    <3> DEFINE q0 == msgq_[t]
    <3> DEFINE d0 == dmsgq_[t]
    <3>1. /\ q0 \in Seq(Msgs) /\ d0 \in Seq(DelayedMsg) /\ k \in 0..Len(d0)
          /\ NoDup(q0) /\ NoDupMsg(d0) /\ ToSet(q0) \cap MsgsOf(d0) = {}
      BY <1>2, <2>1, <2>2
    <3> HIDE DEF q0, d0
    <3>2. LET a == q0 \o [i \in 1..k |-> d0[i].msg]
              b == SubSeq(d0, k + 1, Len(d0))
          IN /\ a \in Seq(Msgs) /\ b \in Seq(DelayedMsg)
             /\ ToSet(a) \subseteq ToSet(q0) \cup MsgsOf(d0)
             /\ MsgsOf(b) \subseteq MsgsOf(d0)
             /\ NoDup(a) /\ NoDupMsg(b) /\ ToSet(a) \cap MsgsOf(b) = {}
      BY <3>1, PullFacts
    <3>3. QED
      BY <3>2 DEF q0, d0
  <2>4. QED
    BY <1>4, <1>5, <1>7, <2>3
<1>9. /\ UNCHANGED sendlist_ /\ UNCHANGED <<nmsgs, sender, cleared, ready, returned>>
      /\ dmsgq_' = [dmsgq_ EXCEPT ![t] = rest]
  BY <1>3, <1>5 DEF GetPull, sendVars
<1>10. /\ stack' \in [Thread -> Seq(Frame)] /\ handled' \in [Msgs -> 0..1]
       /\ msgq_' \in [Thread -> Seq(Msgs)] /\ wakeAt' \in [Thread -> Int]
       => TypeOK'
  <2>1. dmsgq_' \in [Thread -> Seq(DelayedMsg)]
    BY <1>2, <1>8, <1>9
  <2>2. QED
    BY <1>1, <2>1 DEF TypeOK, GetPull, sendVars, DelayedMsg
<1>11. /\ dmsgq_'[t] = rest /\ \A x \in Thread \ {t} : dmsgq_'[x] = dmsgq_[x]
  BY <1>2, <1>9
<1>12. Delayed(t)' = MsgsOf(rest) /\ \A x \in Thread \ {t} : Delayed(x)' = Delayed(x)
  BY <1>11 DEF Delayed, MsgsOf
<1>13. \A x \in Thread : NoDupMsg(dmsgq_'[x])
  BY <1>8, <1>11 DEF SendInv, NoDups
<1>14. /\ <<"delay", t>> \in Place /\ <<"post", t>> \in Place
       /\ \A p \in Place : /\ p[1] \in {"post", "delay", "sent", "frame"} /\ p[2] \in Thread
                           /\ p[1] = "post" /\ p[2] = t => p = <<"post", t>>
  BY Places
<1>15. CASE q # <<>>
  <2>1. PICK m \in Msgs : m = Head(q)
    BY <1>8, <1>15, TailFacts
  <2>2. PICK a \in Seq(Msgs) : a = Tail(q)
    BY <1>8, <1>15, TailFacts
  <2>3. m \in ToSet(q) /\ ToSet(a) \subseteq ToSet(q) /\ NoDup(a) /\ m \notin ToSet(a)
    BY <1>8, <1>15, <2>1, <2>2, TailFacts
  <2>4. PICK f \in Frame : f = NewFrame("handle", "run", m, t)
    BY NewFrameType DEF Ats
  <2>5. PICK at \in Ats : at = "enter"
    BY DEF Ats
  <2>6. PICK r : r = Append(Goto(stack[t], at), f)
    OBVIOUS
  <2>7. /\ GoesAndCalls(t, r, at, f) /\ Started(m) /\ UNCHANGED wakeAt /\ f.at = "run"
        /\ msgq_' = [msgq_ EXCEPT ![t] = a]
    BY <1>3, <1>4, <1>15, <2>1, <2>2, <2>4, <2>5, <2>6
       DEF GetPull, Call, Step, NewFrame, GoesAndCalls
  <2>8. /\ Changes(t, r, n - 1) /\ Len(r) = n + 1
        /\ r[n].at = at /\ Moved(r[n], Top(t)) /\ r[n + 1] = f
    BY <1>1, <2>7, GotoPushTo
  <2>9. PICK kind \in {"post", "delay"} : In(<<kind, t>>, m)
    <3>1. m \in Posted(t) \/ m \in Delayed(t)
      BY <1>8, <2>3
    <3>2. CASE m \in Posted(t)
      BY <3>2 DEF In
    <3>3. CASE m \in Delayed(t)
      BY <3>3 DEF In
    <3>4. QED
      BY <3>1, <3>2, <3>3
  <2>10. <<kind, t>> \in Place
    BY <1>14
  <2>11. Held(m)
    BY <2>9, <2>10 DEF Held
  <2>12. TypeOK'
    <3>1. stack' \in [Thread -> Seq(Frame)]
      BY <1>1, <2>8, ChangesFacts
    <3>2. handled' \in [Msgs -> 0..1]
      BY <2>7, <2>11, HeldFresh
    <3>3. msgq_' \in [Thread -> Seq(Msgs)] /\ wakeAt' \in [Thread -> Int]
      BY <1>1, <1>2, <2>7 DEF TypeOK
    <3>4. QED
      BY <1>10, <3>1, <3>2, <3>3
  <2>13. msgq_'[t] = a /\ \A x \in Thread \ {t} : msgq_'[x] = msgq_[x]
    BY <1>2, <2>7
  <2>14. NoDups'
    <3>1. ASSUME NEW x \in Thread PROVE NoDup(msgq_'[x])
      BY <2>3, <2>13 DEF SendInv, NoDups
    <3>2. QED
      BY <1>9, <1>13, <3>1 DEF SendInv, NoDups
  <2>15. /\ Posted(t)' = ToSet(a) /\ \A x \in Thread \ {t} : Posted(x)' = Posted(x)
         /\ \A x \in Thread : Sent(x)' = Sent(x)
    BY <1>9, <2>13 DEF Posted, Sent
  <2>16. \A x \in Thread : Pending(x)' \subseteq Pending(x)
    <3>1. r[Len(r)].at \notin {"check", "push"}
      BY <2>7, <2>8
    <3>2. QED
      BY <1>1, <2>8, <3>1, PendingChanges
  <2>17. ASSUME NEW p \in Place, NEW x \in Msgs, In(p, x)'
         PROVE  In(p, x) \/ (p = <<"post", t>> /\ In(<<"delay", t>>, x))
    <3>1. p[2] \in Thread
      BY <1>14
    <3>2. CASE p[1] = "post" /\ x \in Posted(p[2])'
      <4>1. CASE p[2] = t
        BY <1>8, <1>14, <2>3, <2>15, <3>2, <4>1 DEF In
      <4>2. CASE p[2] # t
        BY <2>15, <3>1, <3>2, <4>2 DEF In
      <4>3. QED
        BY <4>1, <4>2
    <3>3. CASE p[1] = "delay" /\ x \in Delayed(p[2])'
      BY <1>8, <1>12, <3>1, <3>3 DEF In
    <3>4. CASE p[1] = "sent" /\ x \in Sent(p[2])'
      BY <2>15, <3>1, <3>4 DEF In
    <3>5. CASE p[1] = "frame" /\ x \in Pending(p[2])'
      BY <2>16, <3>1, <3>5 DEF In
    <3>6. QED
      BY <2>17, <3>2, <3>3, <3>4, <3>5 DEF In
  <2>18. \A x \in Msgs : ~(In(<<"delay", t>>, x)' /\ In(<<"post", t>>, x)')
    BY <1>8, <1>12, <2>3, <2>15 DEF In
  <2>19. MovesTo(<<"delay", t>>, <<"post", t>>)
    BY <2>17, <2>18 DEF MovesTo
  <2>20. ~In(<<"delay", t>>, m)' /\ ~In(<<"post", t>>, m)'
    BY <1>8, <1>12, <2>3, <2>15 DEF In
  <2>21. ~Held(m)'
    <3>1. ASSUME NEW p \in Place, In(p, m)' PROVE FALSE
      <4>1. In(p, m) \/ p = <<"post", t>>
        BY <2>17, <3>1
      <4>2. In(p, m) => p = <<kind, t>>
        BY <2>9, <2>10 DEF SendInv, Once
      <4>3. p = <<"post", t>> \/ p = <<"delay", t>>
        BY <4>1, <4>2
      <4>4. QED
        BY <2>20, <3>1, <4>3 DEF In
    <3>2. QED
      BY <3>1 DEF Held
  <2>22. r[n].op = "get" /\ r[n].at = "enter" /\ n = 1
    BY <1>1, <2>5, <2>8, TopFacts DEF Moved
  <2>23. /\ FrameOK(r[n], nmsgs) /\ r[n].op # "handle" /\ r[n].at \notin {"check", "push"}
         /\ ~Caller(r[n]) /\ \A x \in Msgs : Awaits(r[n], x) => x = m
    BY <2>22 DEF FrameOK, Caller, Awaits
  <2>24. r[n + 1] = NewFrame("handle", "run", m, t)
    BY <2>4, <2>8
  <2>25. QED
    BY <1>1, <1>9, <1>14, <2>7, <2>8, <2>11, <2>12, <2>14, <2>19, <2>21, <2>22, <2>23, <2>24,
       StartStep
<1>16. CASE q = <<>>
  <2>1. /\ Step(t, Goto(stack[t], "stop")) /\ UNCHANGED <<msgq_, handled>> /\ "stop" \in Ats
        /\ wakeAt' = [wakeAt EXCEPT ![t] = IF rest = <<>> THEN Never
                                           ELSE (rest[1].trigger - msCurrent[t]) % TimeMod]
    BY <1>3, <1>4, <1>5, <1>16 DEF GetPull, Ats
  <2>2. TypeOK'
    <3>1. stack' \in [Thread -> Seq(Frame)]
      BY <1>1, <2>1, StackType
    <3>2. rest # <<>> => (rest[1].trigger - msCurrent[t]) % TimeMod \in Int
      <4>1. rest # <<>> => rest[1] \in DelayedMsg
        BY <1>8
      <4>2. \A d \in DelayedMsg : d.trigger \in Int
        BY TimeAssumption DEF DelayedMsg
      <4>3. \A x \in Int : x % TimeMod \in Int
        BY TimeAssumption
      <4>4. msCurrent[t] \in Int
        <5>1. msCurrent[t] \in 0..(TimeMod - 1)
          BY <1>1 DEF TypeOK
        <5>2. QED
          BY <5>1, TimeAssumption
      <4>5. rest # <<>> => rest[1].trigger - msCurrent[t] \in Int
        BY <4>1, <4>2, <4>4
      <4>6. QED
        BY <4>3, <4>5
    <3>3. wakeAt' \in [Thread -> Int]
      <4>1. (IF rest = <<>> THEN Never ELSE (rest[1].trigger - msCurrent[t]) % TimeMod) \in Int
        BY <3>2 DEF Never
      <4>2. wakeAt \in [Thread -> Int]
        BY <1>1 DEF TypeOK
      <4>3. QED
        BY <2>1, <4>1, <4>2
    <3>4. QED
      BY <1>1, <1>10, <2>1, <3>1, <3>3 DEF TypeOK
  <2>3. NoDups'
    BY <1>9, <1>13, <2>1 DEF SendInv, NoDups
  <2>4. \A x \in Thread : /\ Posted(x)' = Posted(x) /\ Sent(x)' = Sent(x)
                          /\ Delayed(x)' \subseteq Delayed(x)
    BY <1>8, <1>9, <1>12, <2>1 DEF Posted, Sent
  <2>5. \A x \in Thread : Pending(x)' \subseteq Pending(x)
    BY <1>1, <2>1, GotoPending
  <2>6. \A p \in Place, x \in Msgs : In(p, x)' => In(p, x)
    BY <1>14, <2>4, <2>5 DEF In
  <2>7. MovesTo(<<"post", t>>, <<"post", t>>)
    BY <2>6 DEF MovesTo
  <2>8. QED
    BY <1>1, <1>9, <1>14, <2>1, <2>2, <2>3, <2>7, GotoMoves DEF GoodAt
<1>17. QED
  BY <1>15, <1>16

---------------------------------------------------------------------------
(* SendInv is an invariant.                                                 *)

LEMMA InitSend ==
  ASSUME Init
  PROVE  SendInv
<1>1. \A t \in Thread : NewFrame("get", "enter", NoMsg, t) \in Frame
  BY NewFrameType DEF Ats
<1>2. TypeOK
  <2>1. stack \in [Thread -> Seq(Frame)]
    BY <1>1 DEF Init
  <2>2. /\ ticks \in 0..MaxTicks /\ nmsgs \in 0..MaxMsgs /\ ios \in 0..MaxIo
        /\ handled \in [Msgs -> 0..1] /\ wakeAt \in [Thread -> Int]
        /\ msCurrent \in [Thread -> 0..(TimeMod - 1)]
    BY MsgBounds, TimeAssumption DEF Init, Never
  <2>3. /\ msgq_ \in [Thread -> Seq(Msgs)] /\ sendlist_ \in [Thread -> Seq(Msgs)]
        /\ dmsgq_ \in [Thread -> Seq([trigger : 0..(TimeMod - 1), msg : Msgs])]
    BY DEF Init
  <2>4. QED
    BY <2>1, <2>2, <2>3 DEF Init, TypeOK
<1>3. \A t \in Thread : /\ Len(stack[t]) = 1 /\ Top(t) = stack[t][1]
                        /\ stack[t][1] = NewFrame("get", "enter", NoMsg, t)
  BY DEF Init, Top
<1>4. \A t \in Thread : \A i \in 1..Len(stack[t]) :
        i = 1 /\ stack[t][i].op = "get" /\ stack[t][i].at = "enter"
  <2>1. SUFFICES ASSUME NEW t \in Thread, NEW i \in 1..Len(stack[t])
                 PROVE  i = 1 /\ stack[t][i].op = "get" /\ stack[t][i].at = "enter"
    OBVIOUS
  <2>2. i = 1
    <3>1. Len(stack[t]) = 1
      BY <1>3
    <3>2. i \in 1..1
      BY <3>1
    <3>3. QED
      BY <3>2
  <2>3. stack[t][1] = NewFrame("get", "enter", NoMsg, t)
    BY <1>3
  <2>4. QED
    BY <2>2, <2>3 DEF NewFrame
<1>5. Shape
  BY <1>4 DEF Shape, FrameOK, Caller
<1>6. \A t \in Thread : Posted(t) = {} /\ Delayed(t) = {} /\ Sent(t) = {} /\ Pending(t) = {}
  <2>1. \A t \in Thread : Top(t).at = "enter"
    <3>1. SUFFICES ASSUME NEW t \in Thread PROVE Top(t).at = "enter"
      OBVIOUS
    <3>2. Top(t) = NewFrame("get", "enter", NoMsg, t)
      BY <1>3
    <3>3. QED
      BY <3>2 DEF NewFrame
  <2>2. \A t \in Thread : Posted(t) = {} /\ Sent(t) = {}
    BY DEF Init, Posted, Sent, ToSet
  <2>3. \A t \in Thread : Delayed(t) = {}
    BY DEF Init, Delayed
  <2>4. QED
    BY <2>1, <2>2, <2>3 DEF Pending
<1>7. \A p \in Place, m \in Msgs : ~In(p, m)
  BY <1>6 DEF In, Place
<1>8. Once /\ HeldExists /\ \A m \in Msgs : ~Held(m)
  BY <1>7 DEF Once, HeldExists, Held
<1>9. NoDups
  BY DEF Init, NoDups, NoDup, NoDupMsg
<1>10. \A m \in Msgs : NoHandler(m) /\ NoAwait(m)
  BY <1>4 DEF NoHandler, NoAwait, Handles, Awaits
<1>11. Untouched /\ Outcome
  BY <1>10 DEF Init, Untouched, Outcome, Started0
<1>12. Nested /\ AwaitedRan
  BY <1>4 DEF Nested, AwaitedRan, Awaits
<1>13. QED
  BY <1>2, <1>5, <1>8, <1>9, <1>11, <1>12 DEF SendInv

LEMMA RunsSend ==
  ASSUME SendInv, NEW t \in Thread, Runs(t)
  PROVE  SendInv'
BY GetEnterSend, ReceiveSendsSend, GetPullSend, GetStopSend, ReceiveTakeSend, ReceiveDoneSend,
   WaitWokenSend, WaitTimeoutSend, HandlerReturnsSend, CheckStopSend, PostSend, DoDelayPostSend,
   SendPushSend, SendWakeSend, SendLoopSend, SendWaitSend, SendReturnsSend
   DEF Runs

LEMMA HandlerActsSend ==
  ASSUME SendInv, NEW t \in Thread, HandlerActs(t) \/ HandlerClears(t)
  PROVE  SendInv'
<1>1. CASE HandlerActs(t)
  <2>1. PICK op \in Ops \ {"clear"}, u \in Thread, d \in Delays \cup {0} : HandlerCalls(t, op, u, d)
    BY <1>1 DEF HandlerActs
  <2>2. op \in {"post", "delay", "send"}
    BY OpsAssumption
  <2>3. d \in Nat
    BY DelaysAssumption, TimeAssumption
  <2>4. QED
    BY <2>1, <2>2, <2>3, HandlerCallsSend
<1>2. CASE HandlerClears(t)
  <2>1. PICK u \in Thread : \E S \in SUBSET Queued(u) : Clear(t, u, S)
    BY <1>2 DEF HandlerClears
  <2>2. PICK S \in SUBSET Queued(u) : Clear(t, u, S)
    BY <2>1
  <2>3. QED
    BY <2>2, ClearSend
<1>3. QED
  BY <1>1, <1>2

LEMMA NextSend ==
  ASSUME SendInv, [Next]_vars
  PROVE  SendInv'
<1>1. CASE UNCHANGED vars
  <2>1. /\ UNCHANGED <<msgq_, dmsgq_, sendlist_, has_sends_, fStop_, signaled_, fWait_, msCurrent>>
        /\ UNCHANGED <<wakeAt, ticks, stack, sender, ready, refused, cleared, handled, returned>>
        /\ UNCHANGED <<nmsgs, ios>>
    BY <1>1 DEF vars, queueVars, sendVars, waitVars, msgVars
  <2>2. TypeOK'
    BY <2>1 DEF SendInv, TypeOK
  <2>3. QED
    BY <2>1, <2>2, SameSend DEF SendState
<1>2. ASSUME NEW t \in Thread, Runs(t) PROVE SendInv'
  BY <1>2, RunsSend
<1>3. ASSUME NEW t \in Thread, WaitIo(t) PROVE SendInv'
  BY <1>3, WaitIoSend
<1>4. ASSUME NEW t \in Thread, HandlerActs(t) \/ HandlerClears(t) PROVE SendInv'
  BY <1>4, HandlerActsSend
<1>5. ASSUME Tick \/ (\E t \in Quits : Quit(t)) PROVE SendInv'
  BY <1>5, OutsideSend
<1>6. QED
  BY <1>1, <1>2, <1>3, <1>4, <1>5 DEF Next

LEMMA SpecSendInv == Spec => []SendInv
<1>1. Init => SendInv
  BY InitSend
<1>2. SendInv /\ [Next]_vars => SendInv'
  BY NextSend
<1>3. QED
  BY <1>1, <1>2, PTL DEF Spec

\* The state keeps its type.  It is not only a matter of types: handled counts the times
\* Dispatch starts a message's handler and is never more than one.
THEOREM SpecTypeOK == Spec => []TypeOK
<1>1. SendInv => TypeOK
  BY DEF SendInv
<1>2. QED
  BY <1>1, SpecSendInv, PTL

\* MessageQueue::Send (Thread::Send): when a send that was not refused has returned, its
\* handler has run, once, and is over, or the message was cleared and its handler has not run.
THEOREM SpecSendMeansHandled == Spec => []SendMeansHandled
<1>1. SendInv => SendMeansHandled
  <2>1. SUFFICES ASSUME SendInv, NEW m \in returned
                 PROVE  /\ handled[m] = 1 <=> m \notin cleared
                        /\ \A t \in Thread : \A i \in 1..Len(stack[t]) :
                             ~(stack[t][i].op = "handle" /\ stack[t][i].msg = m)
    BY DEF SendMeansHandled
  <2>2. m \in Msgs
    BY <2>1 DEF SendInv, TypeOK
  <2>3. /\ handled[m] = 1 => m \notin cleared
        /\ NoHandler(m) /\ (handled[m] = 1 \/ m \in cleared)
    BY <2>1, <2>2 DEF SendInv, Outcome
  <2>4. QED
    BY <2>3 DEF NoHandler, Handles
<1>2. QED
  BY <1>1, SpecSendInv, PTL

---------------------------------------------------------------------------
(* What a step of one thread changes for the others, and for its own         *)
(* activations that stay.                                                   *)

\* The stack of t becomes r; what stands below place k stays, with what stands above it.
Keeps(s, r, k, l2, sig2) ==
  /\ k \in Nat /\ Len(s) \in Nat /\ Len(r) \in Nat /\ k <= Len(s) /\ k <= Len(r)
  /\ \A i \in 1..k : r[i] = s[i]
  /\ \/ l2 = <<>>
     \/ \A j \in (k + 1)..Len(s) : s[j].op # "receive"
     \/ \E j \in (k + 1)..Len(r) : r[j].op = "receive"
  /\ \/ sig2
     \/ \A j \in (k + 1)..Len(s) : ~Gives(s[j])
     \/ \E j \in (k + 1)..Len(r) : Gives(r[j])

\* There is no more to do for f: of q2, l2, c2 and rd2 than of q, l, c and rd.
NoMore(f, q, l, c, rd, q2, l2, c2, rd2) ==
  /\ q2 # <<>> => q # <<>>
  /\ l2 # <<>> => l # <<>> \/ c2
  /\ c => c2
  /\ f.op = "send" /\ rd2[f.msg] => rd[f.msg]

LEMMA CauseKept ==
  ASSUME NEW s, NEW r, NEW k, NEW i \in 1..k, NEW q, NEW l, NEW c, NEW rd,
         NEW q2, NEW l2, NEW c2, NEW rd2, NEW sig2, Keeps(s, r, k, l2, sig2),
         NoMore(s[i], q, l, c, rd, q2, l2, c2, rd2),
         Cause(r, i, q2, l2, c2, rd2)
  PROVE  Cause(s, i, q, l, c, rd) /\ i \in 1..Len(s) /\ r[i] = s[i]
<1>1. /\ k \in Nat /\ Len(s) \in Nat /\ Len(r) \in Nat /\ k <= Len(s) /\ k <= Len(r)
      /\ r[i] = s[i] /\ i \in 1..Len(s) /\ i \in Nat /\ i <= k
  BY DEF Keeps
<1>0. /\ (q2 # <<>> => q # <<>>) /\ (l2 # <<>> => l # <<>> \/ c2) /\ (c => c2)
      /\ (s[i].op = "send" /\ rd2[s[i].msg] => rd[s[i].msg])
  BY DEF NoMore
<1>2. CASE r[i].op = "get" /\ r[i].at \in {"stop", "select"} /\ q2 # <<>>
  BY <1>0, <1>1, <1>2 DEF Cause
<1>3. CASE Blind(r[i]) /\ l2 # <<>> /\ ~c2 /\ \A j \in (i + 1)..Len(r) : r[j].op # "receive"
  <2>1. \A j \in (k + 1)..Len(r) : j \in (i + 1)..Len(r)
    BY <1>1
  <2>2. \A j \in (k + 1)..Len(s) : s[j].op # "receive"
    BY <1>3, <2>1 DEF Keeps
  <2>3. ASSUME NEW j \in (i + 1)..k PROVE s[j].op # "receive"
    <3>1. j \in 1..k /\ j \in (i + 1)..Len(r)
      BY <1>1
    <3>2. r[j] = s[j]
      BY <3>1 DEF Keeps
    <3>3. QED
      BY <1>3, <3>1, <3>2
  <2>4. \A j \in (i + 1)..Len(s) : j \in (i + 1)..k \/ j \in (k + 1)..Len(s)
    BY <1>1
  <2>5. \A j \in (i + 1)..Len(s) : s[j].op # "receive"
    BY <2>2, <2>3, <2>4
  <2>6. Blind(s[i]) /\ l # <<>> /\ ~c
    BY <1>0, <1>1, <1>3
  <2>7. QED
    BY <1>1, <2>5, <2>6 DEF Cause
<1>4. CASE r[i].op = "send" /\ r[i].at \in {"serve", "wait", "select"} /\ rd2[r[i].msg]
  BY <1>0, <1>1, <1>4 DEF Cause
<1>5. QED
  BY <1>2, <1>3, <1>4 DEF Cause

LEMMA ReliefKept ==
  ASSUME NEW s, NEW r, NEW k, NEW i \in 1..k, NEW l2, NEW sig, NEW sig2, NEW wait,
         Keeps(s, r, k, l2, sig2), sig => sig2, Relief(s, i, sig, wait)
  PROVE  Relief(r, i, sig2, wait)
<1>1. /\ k \in Nat /\ Len(s) \in Nat /\ Len(r) \in Nat /\ k <= Len(s) /\ k <= Len(r)
      /\ r[i] = s[i] /\ i \in Nat /\ i <= k
  BY DEF Keeps
<1>2. CASE sig
  BY <1>2 DEF Relief
<1>3. CASE s[i].at = "select" /\ ~wait
  BY <1>1, <1>3 DEF Relief
<1>4. ASSUME NEW j \in (i + 1)..Len(s), Gives(s[j]) PROVE Relief(r, i, sig2, wait)
  <2>1. CASE j \in (i + 1)..k
    <3>1. j \in 1..k /\ j \in (i + 1)..Len(r)
      BY <1>1, <2>1
    <3>2. r[j] = s[j]
      BY <3>1 DEF Keeps
    <3>3. QED
      BY <1>4, <3>1, <3>2 DEF Relief
  <2>2. CASE j \in (k + 1)..Len(s)
    <3>1. sig2 \/ \E h \in (k + 1)..Len(r) : Gives(r[h])
      BY <1>4, <2>2 DEF Keeps
    <3>2. \A h \in (k + 1)..Len(r) : h \in (i + 1)..Len(r)
      BY <1>1
    <3>3. QED
      BY <3>1, <3>2 DEF Relief
  <2>3. QED
    BY <1>1, <2>1, <2>2
<1>5. QED
  BY <1>2, <1>3, <1>4 DEF Relief

\* x has no more to do than before.
NoNews(x) ==
  /\ msgq_'[x] # <<>> => msgq_[x] # <<>>
  /\ sendlist_'[x] # <<>> => sendlist_[x] # <<>> \/ Coming(x)'
  /\ Coming(x) => Coming(x)'
  /\ \A m \in Msgs : sender[m] = {x} /\ ready'[m] => ready[m]

LEMMA SendFrame ==
  ASSUME SendInv, NEW t \in Thread, NEW i \in 1..Len(stack[t]), stack[t][i].op = "send"
  PROVE  stack[t][i].msg \in Msgs /\ sender[stack[t][i].msg] = {t}
<1>1. FrameOK(stack[t][i], nmsgs) /\ (Caller(stack[t][i]) => sender[stack[t][i].msg] = {t})
  BY DEF SendInv, Shape
<1>2. stack[t][i].msg \in 1..nmsgs
  BY <1>1 DEF FrameOK, Caller
<1>3. nmsgs \in Nat /\ nmsgs <= MaxMsgs
  BY MsgBounds DEF SendInv, TypeOK
<1>4. QED
  BY <1>1, <1>2, <1>3, MsgBounds DEF Caller, Msgs

LEMMA ComingKept ==
  ASSUME TypeOK, NEW t \in Thread, NEW r, NEW k, Changes(t, r, k), ~At(t, "send", "wake"),
         NEW x \in Thread, Coming(x)
  PROVE  Coming(x)'
<1>1. PICK u \in Thread : At(u, "send", "wake") /\ Top(u).to = x
  BY DEF Coming
<1>2. u # t
  BY <1>1
<1>3. stack'[u] = stack[u]
  BY <1>2, ChangesFacts
<1>4. At(u, "send", "wake")' /\ Top(u)'.to = x
  BY <1>1, <1>3 DEF At, Running, Top
<1>5. QED
  BY <1>4 DEF Coming

LEMMA NoNewsQuiet ==
  ASSUME TypeOK, NEW t \in Thread, NEW r, NEW k, Changes(t, r, k), ~At(t, "send", "wake"),
         UNCHANGED <<msgq_, sendlist_, ready>>
  PROVE  \A x \in Thread : NoNews(x)
BY ComingKept DEF NoNews

\* A thread whose stack stays, or whose stack keeps its first k frames.
LEMMA Below ==
  ASSUME SendInv, WakeInv, NEW x \in Thread, NEW r, NEW k,
         Keeps(stack[x], r, k, sendlist_'[x], signaled_'[x]),
         signaled_[x] => signaled_'[x], fWait_'[x] = fWait_[x], NoNews(x) \/ signaled_'[x],
         NEW i \in 1..k,
         Cause(r, i, msgq_'[x], sendlist_'[x], Coming(x)', ready')
  PROVE  Relief(r, i, signaled_'[x], fWait_'[x])
<1>1. CASE signaled_'[x]
  BY <1>1 DEF Relief
<1>2. CASE NoNews(x)
  <2>1. i \in 1..Len(stack[x])
    BY DEF Keeps
  <2>2. stack[x][i].op = "send" /\ ready'[stack[x][i].msg] => ready[stack[x][i].msg]
    BY <1>2, <2>1, SendFrame DEF NoNews
  <2>3. Cause(stack[x], i, msgq_[x], sendlist_[x], Coming(x), ready)
    <3>1. /\ msgq_'[x] # <<>> => msgq_[x] # <<>>
          /\ sendlist_'[x] # <<>> => sendlist_[x] # <<>> \/ Coming(x)'
          /\ Coming(x) => Coming(x)'
      BY <1>2 DEF NoNews
    <3>2. NoMore(stack[x][i], msgq_[x], sendlist_[x], Coming(x), ready,
                 msgq_'[x], sendlist_'[x], Coming(x)', ready')
      BY <2>2, <3>1 DEF NoMore
    <3>3. QED
      BY <3>2, CauseKept
  <2>4. Woke(stack[x], msgq_[x], sendlist_[x], Coming(x), ready, signaled_[x], fWait_[x])
    BY DEF WakeInv, AllWoken
  <2>5. Relief(stack[x], i, signaled_[x], fWait_[x])
    BY <2>1, <2>3, <2>4 DEF Woke
  <2>6. Relief(r, i, signaled_'[x], fWait_[x])
    BY <2>5, ReliefKept
  <2>7. QED
    BY <2>6
<1>3. QED
  BY <1>1, <1>2

OwnWoke(t, r) ==
  Woke(r, msgq_'[t], sendlist_'[t], Coming(t)', ready', signaled_'[t], fWait_'[t])

\* Threads other than t.
Undisturbed(x) ==
  (signaled_[x] => signaled_'[x]) /\ fWait_'[x] = fWait_[x] /\ (NoNews(x) \/ signaled_'[x])

LEMMA WakeStep ==
  ASSUME SendInv, WakeInv, NEW t \in Thread, NEW r, NEW k, Changes(t, r, k),
         \A x \in Thread \ {t} : Undisturbed(x), OwnWoke(t, r), SendsNoticed',
         \A i \in (k + 1)..Len(r) : r[i].at = "check" => ~r[i].waited
  PROVE  WakeInv'
<1>0. TypeOK
  BY DEF SendInv
<1>1. /\ stack'[t] = r /\ \A u \in Thread \ {t} : stack'[u] = stack[u]
      /\ \A i \in 1..Len(r) : i \in 1..k \/ i \in (k + 1)..Len(r)
      /\ \A i \in 1..k : i \in 1..Len(r) /\ i \in 1..Len(stack[t]) /\ r[i] = stack[t][i]
  BY <1>0, ChangesFacts
<1>2. ASSUME NEW x \in Thread
      PROVE  Woke(stack'[x], msgq_'[x], sendlist_'[x], Coming(x)', ready', signaled_'[x], fWait_'[x])
  <2>1. CASE x = t
    BY <1>1, <2>1 DEF OwnWoke
  <2>2. CASE x # t
    <3>1. stack'[x] = stack[x] /\ Undisturbed(x)
      BY <1>1, <2>2
    <3>2. Len(stack[x]) \in Nat
      BY <1>0 DEF TypeOK
    <3>3. Keeps(stack[x], stack[x], Len(stack[x]), sendlist_'[x], signaled_'[x])
      <4>1. \A j \in (Len(stack[x]) + 1)..Len(stack[x]) : FALSE
        BY <3>2
      <4>2. QED
        BY <3>2, <4>1 DEF Keeps
    <3>4. \A i \in 1..Len(stack[x]) :
            Cause(stack[x], i, msgq_'[x], sendlist_'[x], Coming(x)', ready')
              => Relief(stack[x], i, signaled_'[x], fWait_'[x])
      BY <3>1, <3>3, Below DEF Undisturbed
    <3>5. QED
      BY <3>1, <3>4 DEF Woke
  <2>3. QED
    BY <2>1, <2>2
<1>3. AllWoken'
  BY <1>2 DEF AllWoken
<1>4. NotWaitedYet'
  <2>1. SUFFICES ASSUME NEW x \in Thread, NEW i \in 1..Len(stack'[x]), stack'[x][i].at = "check"
                 PROVE  ~stack'[x][i].waited
    BY DEF NotWaitedYet
  <2>2. CASE x = t /\ i \in (k + 1)..Len(r)
    BY <1>1, <2>1, <2>2
  <2>3. CASE x = t /\ i \in 1..k
    BY <1>1, <2>1, <2>3 DEF WakeInv, NotWaitedYet
  <2>4. CASE x # t
    BY <1>1, <2>1, <2>4 DEF WakeInv, NotWaitedYet
  <2>5. QED
    BY <1>1, <2>2, <2>3, <2>4
<1>5. QED
  BY <1>3, <1>4 DEF WakeInv

\* An activation that sees everything before it sleeps.
Awake(f) ==
  /\ f.op = "get" => f.at \in {"enter", "serve"}
  /\ f.op = "send" => f.at \notin {"serve", "wait", "select"}

LEMMA AwakeFrame ==
  ASSUME NEW s, NEW i, NEW q, NEW l, NEW c, NEW rd, Awake(s[i])
  PROVE  ~Cause(s, i, q, l, c, rd)
BY DEF Awake, Cause, Blind

\* The activations that stay keep what relieves them; of the new ones it is shown.
LEMMA OwnStep ==
  ASSUME SendInv, WakeInv, NEW t \in Thread, NEW r, NEW k, Changes(t, r, k), Undisturbed(t),
         Keeps(stack[t], r, k, sendlist_'[t], signaled_'[t]),
         \A i \in (k + 1)..Len(r) :
           Cause(r, i, msgq_'[t], sendlist_'[t], Coming(t)', ready')
             => Relief(r, i, signaled_'[t], fWait_'[t])
  PROVE  OwnWoke(t, r)
<1>1. \A i \in 1..Len(r) : i \in 1..k \/ i \in (k + 1)..Len(r)
  BY ChangesFacts DEF SendInv
<1>2. \A i \in 1..k : Cause(r, i, msgq_'[t], sendlist_'[t], Coming(t)', ready')
                        => Relief(r, i, signaled_'[t], fWait_'[t])
  BY Below DEF Undisturbed
<1>3. QED
  BY <1>1, <1>2 DEF OwnWoke, Woke

\* No new activation sleeps.
LEMMA AwakeStep ==
  ASSUME SendInv, WakeInv, NEW t \in Thread, NEW r, NEW k, Changes(t, r, k),
         \A x \in Thread : Undisturbed(x), SendsNoticed',
         Keeps(stack[t], r, k, sendlist_'[t], signaled_'[t]),
         \A i \in (k + 1)..Len(r) : Awake(r[i]) /\ (r[i].at = "check" => ~r[i].waited)
  PROVE  WakeInv'
<1>1. \A i \in (k + 1)..Len(r) : ~Cause(r, i, msgq_'[t], sendlist_'[t], Coming(t)', ready')
  BY AwakeFrame
<1>2. OwnWoke(t, r)
  BY <1>1, OwnStep
<1>3. QED
  BY <1>2, WakeStep

LEMMA KeepsTop ==
  ASSUME TypeOK, NEW t \in Thread, Running(t), NEW r, Changes(t, r, Len(stack[t]) - 1),
         Len(r) >= Len(stack[t]), r[Len(stack[t])].op = Top(t).op, NEW l2, NEW sig2,
         Gives(Top(t)) => Gives(r[Len(stack[t])]) \/ sig2
  PROVE  Keeps(stack[t], r, Len(stack[t]) - 1, l2, sig2)
<1> DEFINE n == Len(stack[t])
<1> DEFINE k == n - 1
<1>1. n \in Nat \ {0} /\ Top(t) = stack[t][n]
  BY RunningTop
<1>2. /\ Len(r) \in Nat /\ k \in Nat /\ k <= n /\ k <= Len(r)
      /\ \A i \in 1..k : r[i] = stack[t][i]
  BY <1>1, ChangesFacts DEF Changes
<1>3. n \in (k + 1)..Len(r) /\ \A j \in (k + 1)..Len(stack[t]) : j = n
  BY <1>1, <1>2
<1>4. \/ \A j \in (k + 1)..Len(stack[t]) : stack[t][j].op # "receive"
      \/ \E j \in (k + 1)..Len(r) : r[j].op = "receive"
  BY <1>1, <1>3
<1>5. \/ sig2
      \/ \A j \in (k + 1)..Len(stack[t]) : ~Gives(stack[t][j])
      \/ \E j \in (k + 1)..Len(r) : Gives(r[j])
  BY <1>1, <1>3
<1> HIDE DEF k
<1>6. Keeps(stack[t], r, k, l2, sig2)
  BY <1>1, <1>2, <1>4, <1>5 DEF Keeps
<1>7. QED
  BY <1>6 DEF k

LEMMA KeepsPop ==
  ASSUME TypeOK, NEW t \in Thread, Running(t), NEW r, Changes(t, r, Len(stack[t]) - 1),
         NEW l2, NEW sig2, Top(t).op # "receive" \/ l2 = <<>>, ~Gives(Top(t)) \/ sig2
  PROVE  Keeps(stack[t], r, Len(stack[t]) - 1, l2, sig2)
<1> DEFINE n == Len(stack[t])
<1> DEFINE k == n - 1
<1>1. n \in Nat \ {0} /\ Top(t) = stack[t][n]
  BY RunningTop
<1>2. /\ Len(r) \in Nat /\ k \in Nat /\ k <= n /\ k <= Len(r)
      /\ \A i \in 1..k : r[i] = stack[t][i]
  BY <1>1, ChangesFacts DEF Changes
<1>3. \A j \in (k + 1)..Len(stack[t]) : j = n
  BY <1>1
<1>4. l2 = <<>> \/ \A j \in (k + 1)..Len(stack[t]) : stack[t][j].op # "receive"
  BY <1>1, <1>3
<1>5. sig2 \/ \A j \in (k + 1)..Len(stack[t]) : ~Gives(stack[t][j])
  BY <1>1, <1>3
<1> HIDE DEF k
<1>6. Keeps(stack[t], r, k, l2, sig2)
  BY <1>1, <1>2, <1>4, <1>5 DEF Keeps
<1>7. QED
  BY <1>6 DEF k

LEMMA KeepsPush ==
  ASSUME TypeOK, NEW t \in Thread, Running(t), NEW r, Changes(t, r, Len(stack[t])),
         NEW l2, NEW sig2
  PROVE  Keeps(stack[t], r, Len(stack[t]), l2, sig2)
<1> DEFINE k == Len(stack[t])
<1>1. k \in Nat /\ Len(r) \in Nat /\ k <= Len(r) /\ \A i \in 1..k : r[i] = stack[t][i]
  BY ChangesFacts DEF Changes
<1>2. \A j \in (k + 1)..k : FALSE
  BY <1>1
<1>3. QED
  BY <1>1, <1>2 DEF Keeps

WakeState == <<msgq_, sendlist_, ready, signaled_, fWait_>>

LEMMA AllUndisturbed ==
  ASSUME TypeOK, NEW t \in Thread, NEW r, NEW k, Changes(t, r, k), ~At(t, "send", "wake"),
         UNCHANGED WakeState
  PROVE  \A x \in Thread : Undisturbed(x)
BY NoNewsQuiet DEF WakeState, Undisturbed

\* What the invariant says of a running activation.
LEMMA TopWoken ==
  ASSUME SendInv, WakeInv, NEW t \in Thread, Running(t),
         \/ Top(t).op = "get" /\ Top(t).at \in {"stop", "select"} /\ msgq_[t] # <<>>
         \/ Blind(Top(t)) /\ sendlist_[t] # <<>> /\ ~Coming(t)
         \/ Top(t).op = "send" /\ Top(t).at \in {"serve", "wait", "select"} /\ ready[Top(t).msg]
  PROVE  signaled_[t] \/ (Top(t).at = "select" /\ ~fWait_[t])
<1> DEFINE n == Len(stack[t])
<1>1. n \in Nat \ {0} /\ Top(t) = stack[t][n] /\ n \in 1..Len(stack[t])
  BY TopFacts
<1>2. \A j \in (n + 1)..Len(stack[t]) : FALSE
  BY <1>1
<1>3. Cause(stack[t], n, msgq_[t], sendlist_[t], Coming(t), ready)
  BY <1>1, <1>2 DEF Cause
<1>4. Relief(stack[t], n, signaled_[t], fWait_[t])
  BY <1>1, <1>3 DEF WakeInv, AllWoken, Woke
<1>5. QED
  BY <1>1, <1>2, <1>4 DEF Relief

\* An activation goes on and looks at everything again before it sleeps.
LEMMA GotoAwake ==
  ASSUME SendInv, WakeInv, NEW t \in Thread, Running(t), NEW at \in Ats,
         Step(t, Goto(stack[t], at)), \A x \in Thread : Undisturbed(x), SendsNoticed',
         Top(t).op = "get" => at \in {"enter", "serve"},
         Top(t).op = "send" => at \notin {"serve", "wait", "select"},
         Top(t).at # "select", at # "check"
  PROVE  WakeInv'
<1> DEFINE r == Goto(stack[t], at)
<1> DEFINE n == Len(stack[t])
<1>1. TypeOK /\ n \in Nat \ {0}
  BY TopFacts DEF SendInv
<1>2. Changes(t, r, n - 1) /\ Len(r) = n /\ r[n].at = at /\ Moved(r[n], Top(t))
  BY <1>1, GotoChanges
<1> HIDE DEF r
<1>3. r[n].op = Top(t).op /\ r[n].waited = Top(t).waited
  BY <1>2 DEF Moved
<1>4. Keeps(stack[t], r, n - 1, sendlist_'[t], signaled_'[t])
  <2>1. Gives(Top(t)) => Gives(r[n])
    BY <1>3 DEF Gives
  <2>2. Len(r) >= n
    BY <1>1, <1>2
  <2>3. QED
    BY <1>1, <1>2, <1>3, <2>1, <2>2, KeepsTop
<1>5. \A i \in ((n - 1) + 1)..Len(r) : i = n
  BY <1>1, <1>2
<1>6. Awake(r[n]) /\ r[n].at # "check"
  BY <1>2, <1>3 DEF Awake
<1> DEFINE k == n - 1
<1>7. /\ Changes(t, r, k) /\ Keeps(stack[t], r, k, sendlist_'[t], signaled_'[t])
      /\ \A i \in (k + 1)..Len(r) : Awake(r[i]) /\ (r[i].at = "check" => ~r[i].waited)
  BY <1>2, <1>4, <1>5, <1>6
<1> HIDE DEF k
<1>8. QED
  BY <1>7, AwakeStep

\* An activation ends.
LEMMA PopAwake ==
  ASSUME SendInv, WakeInv, NEW t \in Thread, Running(t), Step(t, Front(stack[t])),
         \A x \in Thread : Undisturbed(x), SendsNoticed',
         Top(t).op # "receive" \/ sendlist_'[t] = <<>>, ~Gives(Top(t)) \/ signaled_'[t]
  PROVE  WakeInv'
<1> DEFINE r == Front(stack[t])
<1> DEFINE k == Len(stack[t]) - 1
<1>1. TypeOK /\ Len(stack[t]) \in Nat \ {0}
  BY TopFacts DEF SendInv
<1>2. Changes(t, r, k) /\ Len(r) = k
  BY <1>1, PopChanges
<1> HIDE DEF r
<1>3. Keeps(stack[t], r, k, sendlist_'[t], signaled_'[t])
  BY <1>1, <1>2, KeepsPop
<1>4. \A i \in (k + 1)..Len(r) : FALSE
  BY <1>1, <1>2
<1> HIDE DEF k
<1>5. QED
  BY <1>2, <1>3, <1>4, AwakeStep

\* A call.
LEMMA PushAwake ==
  ASSUME SendInv, WakeInv, NEW t \in Thread, Running(t), NEW f \in Frame,
         Step(t, Append(stack[t], f)), \A x \in Thread : Undisturbed(x), SendsNoticed',
         Awake(f), f.at = "check" => ~f.waited
  PROVE  WakeInv'
<1> DEFINE r == Append(stack[t], f)
<1> DEFINE k == Len(stack[t])
<1>1. TypeOK /\ k \in Nat \ {0}
  BY TopFacts DEF SendInv
<1>2. Changes(t, r, k) /\ Len(r) = k + 1 /\ r[Len(r)] = f
  BY <1>1, PushChanges
<1> HIDE DEF r
<1>3. Keeps(stack[t], r, k, sendlist_'[t], signaled_'[t])
  BY <1>1, <1>2, KeepsPush
<1>4. \A i \in (k + 1)..Len(r) : r[i] = f
  BY <1>1, <1>2
<1> HIDE DEF k
<1>5. QED
  BY <1>2, <1>3, <1>4, AwakeStep

LEMMA NoticedStays ==
  ASSUME WakeInv, UNCHANGED sendVars
  PROVE  SendsNoticed'
BY DEF WakeInv, SendsNoticed, sendVars

\* Whoever is told of something is woken.
LEMMA ToldUndisturbed ==
  ASSUME TypeOK, NEW t \in Thread, NEW r, NEW k, Changes(t, r, k), ~At(t, "send", "wake"),
         UNCHANGED <<sendlist_, fWait_>>,
         \A x \in Thread : signaled_[x] => signaled_'[x],
         \A x \in Thread : \/ signaled_'[x]
                           \/ /\ msgq_'[x] # <<>> => msgq_[x] # <<>>
                              /\ \A m \in Msgs : sender[m] = {x} /\ ready'[m] => ready[m]
  PROVE  \A x \in Thread : Undisturbed(x)
<1>1. SUFFICES ASSUME NEW x \in Thread PROVE Undisturbed(x)
  OBVIOUS
<1>2. Coming(x) => Coming(x)'
  BY ComingKept
<1>3. signaled_'[x] \/ NoNews(x)
  BY <1>2 DEF NoNews
<1>4. QED
  BY <1>3 DEF Undisturbed

LEMMA GetEnterWake ==
  ASSUME SendInv, WakeInv, NEW t \in Thread, GetEnter(t)
  PROVE  WakeInv'
<1>1. TypeOK /\ Running(t) /\ Top(t).op = "get" /\ Top(t).at = "enter" /\ "serve" \in Ats
      /\ ~At(t, "send", "wake") /\ Step(t, Goto(stack[t], "serve"))
  BY AtFacts DEF GetEnter, SendInv, Ats
<1>2. SendsNoticed'
  BY NoticedStays DEF GetEnter
<1>3. UNCHANGED WakeState
  BY DEF GetEnter, WakeState, queueVars, sendVars, msgVars
<1>4. \A x \in Thread : Undisturbed(x)
  BY <1>1, <1>3, GotoChanges, AllUndisturbed
<1>5. QED
  BY <1>1, <1>2, <1>4, GotoAwake

LEMMA HandlerReturnsWake ==
  ASSUME SendInv, WakeInv, NEW t \in Thread, HandlerReturns(t)
  PROVE  WakeInv'
<1>1. TypeOK /\ Running(t) /\ Top(t).op = "handle" /\ ~At(t, "send", "wake")
      /\ Step(t, Front(stack[t]))
  BY AtFacts DEF HandlerReturns, InHandler, SendInv
<1>2. SendsNoticed'
  BY NoticedStays DEF HandlerReturns
<1>3. UNCHANGED WakeState
  BY DEF HandlerReturns, WakeState, queueVars, sendVars, waitVars, msgVars
<1>4. \A x \in Thread : Undisturbed(x)
  BY <1>1, <1>3, PopChanges, AllUndisturbed
<1>5. ~Gives(Top(t))
  BY <1>1 DEF Gives
<1>6. QED
  BY <1>1, <1>2, <1>4, <1>5, PopAwake

LEMMA HandlerCallsWake ==
  ASSUME SendInv, WakeInv, NEW t \in Thread, NEW op \in {"post", "delay", "send"},
         NEW u \in Thread, NEW d \in Delays \cup {0}, HandlerCalls(t, op, u, d)
  PROVE  WakeInv'
<1> DEFINE f == [NewFrame(op, "check", nmsgs + 1, u) EXCEPT !.trigger = (Time + d) % TimeMod]
<1>1. TypeOK /\ Running(t) /\ Top(t).op = "handle" /\ ~At(t, "send", "wake")
      /\ Step(t, Append(stack[t], f))
  BY AtFacts DEF HandlerCalls, InHandler, SendInv
<1>2. /\ f \in Frame /\ f.op = op /\ f.at = "check" /\ f.waited = FALSE
  <2>1. nmsgs + 1 \in Msgs
    BY <1>1, MsgBounds DEF HandlerCalls, TypeOK, Msgs
  <2>2. (Time + d) % TimeMod \in 0..(TimeMod - 1)
    <3>1. Time \in Int /\ d \in Int
      BY <1>1, TimeType, TimeAssumption, DelaysAssumption
    <3>2. QED
      BY <1>1, <3>1, TimeType
  <2>3. QED
    BY <2>1, <2>2 DEF NewFrame, Frame
<1> HIDE DEF f
<1>3. SendsNoticed'
  BY NoticedStays DEF HandlerCalls
<1>4. UNCHANGED WakeState
  BY DEF HandlerCalls, WakeState, queueVars, sendVars, waitVars, msgVars
<1>5. \A x \in Thread : Undisturbed(x)
  BY <1>1, <1>2, <1>4, PushChanges, AllUndisturbed
<1>6. Awake(f)
  BY <1>2 DEF Awake
<1>7. QED
  BY <1>1, <1>2, <1>3, <1>5, <1>6, PushAwake

LEMMA PostWake ==
  ASSUME SendInv, WakeInv, NEW t \in Thread, Post(t)
  PROVE  WakeInv'
<1>1. TypeOK /\ Running(t) /\ Top(t).op = "post" /\ ~At(t, "send", "wake")
      /\ Step(t, Front(stack[t])) /\ Wake({Top(t).to})
  BY AtFacts DEF Post, SendInv
<1>2. SendsNoticed'
  BY NoticedStays DEF Post
<1>3. \A x \in Thread : signaled_[x] => signaled_'[x]
  BY <1>1 DEF Wake
<1>4. \A x \in Thread : signaled_'[x] \/ msgq_'[x] = msgq_[x]
  <2>1. SUFFICES ASSUME NEW x \in Thread, x # Top(t).to PROVE msgq_'[x] = msgq_[x]
    BY <1>1 DEF Wake
  <2>2. QED
    BY <1>1, <2>1 DEF Post, TypeOK
<1>5. UNCHANGED <<sendlist_, fWait_>> /\ ready' = ready
  BY DEF Post, sendVars, waitVars, msgVars
<1>6. \A x \in Thread : Undisturbed(x)
  BY <1>1, <1>3, <1>4, <1>5, PopChanges, ToldUndisturbed
<1>7. ~Gives(Top(t))
  BY <1>1 DEF Gives
<1>8. QED
  BY <1>1, <1>2, <1>6, <1>7, PopAwake

LEMMA DoDelayPostWake ==
  ASSUME SendInv, WakeInv, NEW t \in Thread, DoDelayPost(t)
  PROVE  WakeInv'
<1>1. TypeOK /\ Running(t) /\ Top(t).op = "delay" /\ ~At(t, "send", "wake")
      /\ Step(t, Front(stack[t])) /\ Wake({Top(t).to})
  BY AtFacts DEF DoDelayPost, SendInv
<1>2. SendsNoticed'
  BY NoticedStays DEF DoDelayPost
<1>3. \A x \in Thread : signaled_[x] => signaled_'[x]
  BY <1>1 DEF Wake
<1>4. UNCHANGED <<sendlist_, fWait_>> /\ ready' = ready /\ msgq_' = msgq_
  BY DEF DoDelayPost, sendVars, waitVars, msgVars
<1>5. \A x \in Thread : Undisturbed(x)
  BY <1>1, <1>3, <1>4, PopChanges, ToldUndisturbed
<1>6. ~Gives(Top(t))
  BY <1>1 DEF Gives
<1>7. QED
  BY <1>1, <1>2, <1>5, <1>6, PopAwake

LEMMA ReceiveDoneWake ==
  ASSUME SendInv, WakeInv, NEW t \in Thread, ReceiveDone(t)
  PROVE  WakeInv'
<1>1. TypeOK /\ Running(t) /\ Top(t).op = "receive" /\ Top(t).at = "done" /\ "take" \in Ats
      /\ ~At(t, "send", "wake") /\ Step(t, Goto(stack[t], "take")) /\ Wake(sender[Top(t).msg])
  BY AtFacts DEF ReceiveDone, SendInv, Ats
<1>2. SendsNoticed'
  BY NoticedStays DEF ReceiveDone
<1>3. \A x \in Thread : signaled_[x] => signaled_'[x]
  BY <1>1 DEF Wake
<1>4. UNCHANGED <<sendlist_, fWait_>> /\ msgq_' = msgq_
  BY DEF ReceiveDone, queueVars, sendVars, waitVars
<1>5. ASSUME NEW x \in Thread, ~signaled_'[x], NEW m \in Msgs, sender[m] = {x}, ready'[m]
      PROVE  ready[m]
  <2>1. m # Top(t).msg
    BY <1>1, <1>5 DEF Wake
  <2>2. QED
    BY <1>1, <1>5, <2>1 DEF ReceiveDone, TypeOK
<1>6. \A x \in Thread : Undisturbed(x)
  BY <1>1, <1>3, <1>4, <1>5, GotoChanges, ToldUndisturbed
<1>7. QED
  BY <1>1, <1>2, <1>6, GotoAwake

LEMMA SendReturnsWake ==
  ASSUME SendInv, WakeInv, NEW t \in Thread, SendReturns(t)
  PROVE  WakeInv'
<1>1. TypeOK /\ Running(t) /\ Top(t).op = "send" /\ Top(t).at \in {"loop", "done"}
      /\ ~At(t, "send", "wake") /\ Step(t, Front(stack[t]))
  BY AtFacts DEF SendReturns, SendInv
<1>2. SendsNoticed'
  BY NoticedStays DEF SendReturns
<1>3. (\A x \in Thread : signaled_[x] => signaled_'[x]) /\ (Top(t).waited => signaled_'[t])
  BY <1>1 DEF SendReturns, Wake
<1>4. UNCHANGED <<sendlist_, fWait_>> /\ msgq_' = msgq_ /\ ready' = ready
  BY DEF SendReturns, queueVars, sendVars, waitVars
<1>5. \A x \in Thread : Undisturbed(x)
  BY <1>1, <1>3, <1>4, PopChanges, ToldUndisturbed
<1>6. ~Gives(Top(t)) \/ signaled_'[t]
  BY <1>1, <1>3 DEF Gives
<1>7. QED
  BY <1>1, <1>2, <1>5, <1>6, PopAwake

\* A step that concerns t alone.
LEMMA OthersUndisturbed ==
  ASSUME TypeOK, NEW t \in Thread, NEW r, NEW k, Changes(t, r, k), ~At(t, "send", "wake"),
         UNCHANGED <<sendlist_, ready>>,
         \A x \in Thread \ {t} :
           msgq_'[x] = msgq_[x] /\ signaled_'[x] = signaled_[x] /\ fWait_'[x] = fWait_[x]
  PROVE  \A x \in Thread \ {t} : Undisturbed(x)
<1>1. SUFFICES ASSUME NEW x \in Thread \ {t} PROVE Undisturbed(x)
  OBVIOUS
<1>2. Coming(x) => Coming(x)'
  BY ComingKept
<1>3. NoNews(x)
  BY <1>2 DEF NoNews
<1>4. QED
  BY <1>3 DEF Undisturbed

LEMMA ReceiveSendsWake ==
  ASSUME SendInv, WakeInv, NEW t \in Thread, ReceiveSends(t)
  PROVE  WakeInv'
<1> DEFINE n == Len(stack[t])
<1>1. TypeOK /\ Running(t) /\ Top(t).at = "serve" /\ ~At(t, "send", "wake")
  BY DEF ReceiveSends, SendInv, At
<1>2. /\ FrameOK(Top(t), nmsgs) /\ n \in Nat \ {0} /\ Top(t) \in Frame
  BY <1>1, TopFacts
<1>3. Top(t).op \in {"get", "send"}
  BY <1>1, <1>2 DEF FrameOK, Frame
<1>4. PICK at \in Ats : at = IF Top(t).op = "get" THEN "pull" ELSE "wait"
  BY DEF Ats
<1>5. PICK f \in Frame : f = NewFrame("receive", "take", NoMsg, t)
  BY NewFrameType DEF Ats
<1>6. Step(t, IF has_sends_[t] THEN Append(Goto(stack[t], at), f) ELSE Goto(stack[t], at))
  BY <1>4, <1>5 DEF ReceiveSends
<1>7. UNCHANGED WakeState /\ SendsNoticed'
  BY NoticedStays DEF ReceiveSends, WakeState, queueVars, sendVars, waitVars, msgVars
<1>8. PICK r : r = IF has_sends_[t] THEN Append(Goto(stack[t], at), f) ELSE Goto(stack[t], at)
  OBVIOUS
<1>9. /\ Changes(t, r, n - 1) /\ r[n].at = at /\ Moved(r[n], Top(t))
      /\ \/ has_sends_[t] /\ Len(r) = n + 1 /\ r[n + 1] = f
         \/ ~has_sends_[t] /\ Len(r) = n
  <2>1. CASE has_sends_[t]
    <3>1. GoesAndCalls(t, r, at, f)
      BY <1>6, <1>8, <2>1 DEF GoesAndCalls, Step
    <3>2. QED
      BY <1>1, <2>1, <3>1, GotoPushTo
  <2>2. CASE ~has_sends_[t]
    <3>1. r = Goto(stack[t], at) /\ Step(t, Goto(stack[t], at))
      BY <1>6, <1>8, <2>2
    <3>2. QED
      BY <1>1, <2>2, <3>1, GotoChanges
  <2>3. QED
    BY <2>1, <2>2
<1>10. r[n].op = Top(t).op /\ r[n].waited = Top(t).waited /\ r[n].msg = Top(t).msg
  BY <1>9 DEF Moved
<1>11. \A x \in Thread : Undisturbed(x)
  BY <1>1, <1>7, <1>9, AllUndisturbed
<1>12. Keeps(stack[t], r, n - 1, sendlist_'[t], signaled_'[t])
  <2>1. Gives(Top(t)) => Gives(r[n])
    BY <1>1, <1>10 DEF Gives
  <2>2. Len(r) >= n
    BY <1>2, <1>9
  <2>3. QED
    BY <1>1, <1>9, <1>10, <2>1, <2>2, KeepsTop
<1>13. Cause(r, n, msgq_'[t], sendlist_'[t], Coming(t)', ready')
         => Relief(r, n, signaled_'[t], fWait_'[t])
  <2>1. SUFFICES ASSUME Cause(r, n, msgq_'[t], sendlist_'[t], Coming(t)', ready')
                 PROVE  signaled_'[t]
    BY DEF Relief
  <2>2. CASE r[n].op = "get" /\ r[n].at \in {"stop", "select"}
    BY <1>4, <1>9, <1>10, <2>2
  <2>3. CASE sendlist_'[t] # <<>> /\ \A j \in (n + 1)..Len(r) : r[j].op # "receive"
    <3>1. has_sends_[t]
      BY <1>7, <2>3 DEF WakeInv, SendsNoticed, WakeState
    <3>2. n + 1 \in (n + 1)..Len(r) /\ r[n + 1].op = "receive"
      BY <1>2, <1>5, <1>9, <3>1 DEF NewFrame
    <3>3. QED
      BY <2>3, <3>2
  <2>4. CASE r[n].op = "send" /\ ready'[r[n].msg]
    <3>1. ready[Top(t).msg] /\ Top(t).op = "send"
      BY <1>7, <1>10, <2>4 DEF WakeState
    <3>2. signaled_[t]
      BY <1>1, <3>1, TopWoken
    <3>3. QED
      BY <1>7, <3>2 DEF WakeState
  <2>5. QED
    BY <2>1, <2>2, <2>3, <2>4 DEF Cause
<1>14. \A i \in ((n - 1) + 1)..Len(r) : i = n \/ (i = n + 1 /\ r[i] = f)
  BY <1>2, <1>9
<1>15. Awake(f) /\ f.at # "check" /\ r[n].at # "check"
  BY <1>4, <1>5, <1>9 DEF Awake, NewFrame
<1>16. \A i \in ((n - 1) + 1)..Len(r) :
         Cause(r, i, msgq_'[t], sendlist_'[t], Coming(t)', ready')
           => Relief(r, i, signaled_'[t], fWait_'[t])
  BY <1>13, <1>14, <1>15, AwakeFrame
<1> DEFINE k == n - 1
<1>17. /\ Changes(t, r, k) /\ Keeps(stack[t], r, k, sendlist_'[t], signaled_'[t])
       /\ \A i \in (k + 1)..Len(r) :
            /\ Cause(r, i, msgq_'[t], sendlist_'[t], Coming(t)', ready')
                 => Relief(r, i, signaled_'[t], fWait_'[t])
            /\ r[i].at # "check"
  BY <1>9, <1>12, <1>14, <1>15, <1>16
<1> HIDE DEF k
<1>18. OwnWoke(t, r)
  BY <1>11, <1>17, OwnStep
<1>19. QED
  BY <1>7, <1>11, <1>17, <1>18, WakeStep

LEMMA SendLoopWake ==
  ASSUME SendInv, WakeInv, NEW t \in Thread, SendLoop(t)
  PROVE  WakeInv'
<1> DEFINE n == Len(stack[t])
<1>1. TypeOK /\ Running(t) /\ Top(t).op = "send" /\ Top(t).at = "loop" /\ ~At(t, "send", "wake")
      /\ ~ready[Top(t).msg]
  BY DEF SendLoop, SendInv, At
<1>2. n \in Nat \ {0}
  BY <1>1, TopFacts
<1>3. PICK at \in Ats : at = "serve"
  BY DEF Ats
<1>4. UNCHANGED WakeState /\ SendsNoticed' /\ Step(t, Goto(stack[t], at))
  BY <1>3, NoticedStays DEF SendLoop, WakeState, queueVars, sendVars, waitVars, msgVars
<1>5. PICK r : r = Goto(stack[t], at)
  OBVIOUS
<1>6. Changes(t, r, n - 1) /\ r[n].at = at /\ Moved(r[n], Top(t)) /\ Len(r) = n
  BY <1>1, <1>4, <1>5, GotoChanges
<1>7. r[n].op = Top(t).op /\ r[n].waited = Top(t).waited /\ r[n].msg = Top(t).msg
  BY <1>6 DEF Moved
<1>8. \A x \in Thread : Undisturbed(x)
  BY <1>1, <1>4, <1>6, AllUndisturbed
<1>9. Keeps(stack[t], r, n - 1, sendlist_'[t], signaled_'[t])
  <2>1. Gives(Top(t)) => Gives(r[n])
    BY <1>1, <1>7 DEF Gives
  <2>2. Len(r) >= n
    BY <1>2, <1>6
  <2>3. QED
    BY <1>1, <1>6, <1>7, <2>1, <2>2, KeepsTop
<1>10. ready' = ready
  BY <1>4 DEF WakeState
<1>11. ~Cause(r, n, msgq_'[t], sendlist_'[t], Coming(t)', ready')
  BY <1>1, <1>3, <1>6, <1>7, <1>10 DEF Cause, Blind
<1>12. \A i \in ((n - 1) + 1)..Len(r) : i = n
  BY <1>2, <1>6
<1> DEFINE k == n - 1
<1>13. /\ Changes(t, r, k) /\ Keeps(stack[t], r, k, sendlist_'[t], signaled_'[t])
       /\ \A i \in (k + 1)..Len(r) :
            ~Cause(r, i, msgq_'[t], sendlist_'[t], Coming(t)', ready') /\ r[i].at # "check"
  BY <1>3, <1>6, <1>9, <1>11, <1>12
<1> HIDE DEF k
<1>14. OwnWoke(t, r)
  BY <1>8, <1>13, OwnStep
<1>15. QED
  BY <1>4, <1>8, <1>13, <1>14, WakeStep

\* ReceiveSends takes a message off the list and runs it, or is over.
LEMMA ReceiveTakeWake ==
  ASSUME SendInv, WakeInv, NEW t \in Thread, ReceiveTake(t)
  PROVE  WakeInv'
<1> DEFINE n == Len(stack[t])
<1>1. TypeOK /\ At(t, "receive", "take") /\ Running(t) /\ n \in Nat \ {0}
      /\ Top(t).op = "receive" /\ ~At(t, "send", "wake")
  BY AtFacts, TopFacts DEF ReceiveTake, SendInv
<1>2. UNCHANGED <<msgq_, ready, signaled_, fWait_>>
  BY DEF ReceiveTake, queueVars, waitVars
<1>3. sendlist_ \in [Thread -> Seq(Msgs)] /\ has_sends_ \in [Thread -> BOOLEAN]
  BY <1>1 DEF TypeOK
<1>4. CASE sendlist_[t] = <<>>
  <2>1. /\ Step(t, Front(stack[t])) /\ sendlist_' = sendlist_
        /\ has_sends_' = [has_sends_ EXCEPT ![t] = FALSE]
    BY <1>4 DEF ReceiveTake
  <2>2. SendsNoticed'
    BY <1>3, <1>4, <2>1 DEF WakeInv, SendsNoticed
  <2>3. \A x \in Thread : Undisturbed(x)
    BY <1>1, <1>2, <2>1, PopChanges, AllUndisturbed DEF WakeState
  <2>4. ~Gives(Top(t))
    BY <1>1 DEF Gives
  <2>5. QED
    BY <1>1, <1>4, <2>1, <2>2, <2>3, <2>4, PopAwake
<1>5. CASE sendlist_[t] # <<>>
  <2>1. PICK m \in Msgs : m = Head(sendlist_[t])
    BY <1>3, <1>5, TailFacts
  <2>2. m <= nmsgs
    <3>1. m \in Sent(t)
      BY <1>3, <1>5, <2>1, TailFacts DEF Sent
    <3>2. <<"sent", t>> \in Place /\ In(<<"sent", t>>, m)
      BY <3>1 DEF Place, In
    <3>3. QED
      BY <3>2 DEF SendInv, HeldExists, Held
  <2>3. PICK f \in Frame : f = NewFrame("handle", "run", m, t)
    BY NewFrameType DEF Ats
  <2>4. PICK r : TakesAndCalls(t, r, m, f)
    BY DEF TakesAndCalls
  <2>5. /\ stack' = [stack EXCEPT ![t] = r] /\ has_sends_' = has_sends_
        /\ sendlist_' = [sendlist_ EXCEPT ![t] = Tail(@)]
    BY <1>5, <2>1, <2>3, <2>4 DEF ReceiveTake, TakesAndCalls, Call, Step, sendVars
  <2>6. /\ r \in Seq(Frame) /\ Len(r) = n + 1 /\ r[n + 1] = f
        /\ \A i \in 1..(n - 1) : r[i] = stack[t][i]
        /\ r[n].op = "receive" /\ r[n].at = "done"
    BY <1>1, <2>2, <2>4, TakeFacts
  <2>7. Changes(t, r, n - 1)
    BY <1>1, <2>5, <2>6 DEF Changes
  <2>8. SendsNoticed' /\ \A x \in Thread : sendlist_'[x] # <<>> => sendlist_[x] # <<>>
    BY <1>3, <1>5, <2>5 DEF WakeInv, SendsNoticed
  <2>9. \A x \in Thread : Undisturbed(x)
    <3>1. \A x \in Thread : Coming(x) => Coming(x)'
      BY <1>1, <2>7, ComingKept
    <3>2. \A x \in Thread : NoNews(x)
      BY <1>2, <2>8, <3>1 DEF NoNews
    <3>3. QED
      BY <1>2, <3>2 DEF Undisturbed
  <2>10. Keeps(stack[t], r, n - 1, sendlist_'[t], signaled_'[t])
    <3>1. ~Gives(Top(t)) /\ Len(r) >= n
      BY <1>1, <2>6 DEF Gives
    <3>2. QED
      BY <1>1, <2>6, <2>7, <3>1, KeepsTop
  <2>11. Awake(r[n]) /\ Awake(f) /\ r[n].at # "check" /\ f.at # "check"
    BY <2>3, <2>6 DEF Awake, NewFrame
  <2>12. \A i \in ((n - 1) + 1)..Len(r) : i = n \/ i = n + 1
    BY <1>1, <2>6
  <2> DEFINE k == n - 1
  <2>13. /\ Changes(t, r, k) /\ Keeps(stack[t], r, k, sendlist_'[t], signaled_'[t])
         /\ \A i \in (k + 1)..Len(r) : Awake(r[i]) /\ r[i].at # "check"
    BY <2>6, <2>7, <2>10, <2>11, <2>12
  <2> HIDE DEF k
  <2>14. QED
    BY <2>8, <2>9, <2>13, AwakeStep
<1>6. QED
  BY <1>4, <1>5

LEMMA CheckStopWake ==
  ASSUME SendInv, WakeInv, NEW t \in Thread, CheckStop(t)
  PROVE  WakeInv'
<1> DEFINE n == Len(stack[t])
<1>1. TypeOK /\ Running(t) /\ Top(t).at = "check" /\ ~At(t, "send", "wake")
  BY DEF CheckStop, SendInv, At
<1>2. PICK m \in Msgs : m = Top(t).msg
  BY <1>1, PendingMsg
<1>3. n \in Nat \ {0} /\ Top(t) = stack[t][n] /\ n \in 1..Len(stack[t]) /\ Caller(Top(t))
  BY <1>1, TopFacts, PendingMsg
<1>4. ~Gives(Top(t))
  <2>1. ~Top(t).waited
    BY <1>1, <1>3 DEF WakeInv, NotWaitedYet
  <2>2. QED
    BY <1>1, <2>1 DEF Gives
<1>5. UNCHANGED WakeState /\ SendsNoticed'
  BY NoticedStays DEF CheckStop, WakeState, queueVars, sendVars, waitVars
<1>6. CASE fStop_[Top(t).to]
  <2>1. Step(t, Front(stack[t]))
    BY <1>6 DEF CheckStop
  <2>2. \A x \in Thread : Undisturbed(x)
    BY <1>1, <1>5, <2>1, PopChanges, AllUndisturbed
  <2>3. QED
    BY <1>1, <1>3, <1>4, <1>5, <2>1, <2>2, PopAwake DEF Caller
<1>7. CASE ~fStop_[Top(t).to] /\ Top(t).op = "send" /\ Top(t).to = t
  <2>1. PICK f \in Frame : f = NewFrame("handle", "run", m, t)
    BY NewFrameType DEF Ats
  <2>2. PICK at \in Ats : at = "done"
    BY DEF Ats
  <2>3. PICK r : r = Append(Goto(stack[t], at), f)
    OBVIOUS
  <2>4. GoesAndCalls(t, r, at, f)
    BY <1>2, <1>7, <2>1, <2>2, <2>3 DEF CheckStop, Call, Step, GoesAndCalls
  <2>5. /\ Changes(t, r, n - 1) /\ Len(r) = n + 1
        /\ r[n].at = at /\ Moved(r[n], Top(t)) /\ r[n + 1] = f
    BY <1>1, <2>4, GotoPushTo
  <2>6. r[n].op = Top(t).op /\ Len(r) >= n
    BY <1>3, <2>5 DEF Moved
  <2>7. \A x \in Thread : Undisturbed(x)
    BY <1>1, <1>5, <2>5, AllUndisturbed
  <2>8. Keeps(stack[t], r, n - 1, sendlist_'[t], signaled_'[t])
    BY <1>1, <1>4, <2>5, <2>6, KeepsTop
  <2>9. Awake(r[n]) /\ Awake(f) /\ r[n].at # "check" /\ f.at # "check"
    BY <1>7, <2>1, <2>2, <2>5, <2>6 DEF Awake, NewFrame
  <2>10. \A i \in ((n - 1) + 1)..Len(r) : i = n \/ i = n + 1
    BY <1>3, <2>5
  <2> DEFINE k == n - 1
  <2>11. /\ Changes(t, r, k) /\ Keeps(stack[t], r, k, sendlist_'[t], signaled_'[t])
         /\ \A i \in (k + 1)..Len(r) : Awake(r[i]) /\ r[i].at # "check"
    BY <2>5, <2>8, <2>9, <2>10
  <2> HIDE DEF k
  <2>12. QED
    BY <1>5, <2>7, <2>11, AwakeStep
<1>8. CASE ~fStop_[Top(t).to] /\ ~(Top(t).op = "send" /\ Top(t).to = t)
  <2>1. Step(t, Goto(stack[t], "push")) /\ "push" \in Ats
    BY <1>8 DEF CheckStop, Ats
  <2>2. \A x \in Thread : Undisturbed(x)
    BY <1>1, <1>5, <2>1, GotoChanges, AllUndisturbed
  <2>3. QED
    BY <1>1, <1>3, <1>5, <2>1, <2>2, GotoAwake DEF Caller
<1>9. QED
  BY <1>6, <1>7, <1>8

\* A message is on the list before its thread is woken; meanwhile the sender is coming.
LEMMA SendPushWake ==
  ASSUME SendInv, WakeInv, NEW t \in Thread, SendPush(t)
  PROVE  WakeInv'
<1> DEFINE n == Len(stack[t])
<1>1. TypeOK /\ Running(t) /\ Top(t).op = "send" /\ Top(t).at = "push" /\ ~At(t, "send", "wake")
      /\ Step(t, Goto(stack[t], "wake")) /\ "wake" \in Ats /\ n \in Nat \ {0}
  BY AtFacts, TopFacts DEF SendPush, SendInv, Ats
<1>2. PICK r : r = Goto(stack[t], "wake")
  OBVIOUS
<1>3. Changes(t, r, n - 1) /\ Len(r) = n /\ r[n].at = "wake" /\ Moved(r[n], Top(t))
  BY <1>1, <1>2, GotoChanges
<1>4. PICK u \in Thread : u = Top(t).to
  BY <1>1, TopFacts DEF Frame
<1>5. Coming(u)'
  <2>1. stack'[t] = r /\ r # <<>>
    BY <1>1, <1>3, ChangesFacts
  <2>2. r[Len(r)].op = "send" /\ r[Len(r)].at = "wake" /\ r[Len(r)].to = u
    BY <1>1, <1>3, <1>4 DEF Moved
  <2>3. At(t, "send", "wake")' /\ Top(t)'.to = u
    BY <2>1, <2>2 DEF At, Running, Top
  <2>4. QED
    BY <2>3 DEF Coming
<1>6. UNCHANGED <<msgq_, ready, signaled_, fWait_>>
  BY DEF SendPush, queueVars, waitVars, msgVars
<1>7. \A x \in Thread \ {u} : sendlist_'[x] = sendlist_[x] /\ has_sends_'[x] = has_sends_[x]
  BY <1>1, <1>4 DEF SendPush, TypeOK
<1>8. has_sends_'[u]
  BY <1>1, <1>4 DEF SendPush, TypeOK
<1>9. SendsNoticed'
  BY <1>7, <1>8 DEF WakeInv, SendsNoticed
<1>10. \A x \in Thread : Undisturbed(x)
  <2>1. \A x \in Thread : Coming(x) => Coming(x)'
    BY <1>1, <1>3, ComingKept
  <2>2. \A x \in Thread : NoNews(x)
    BY <1>5, <1>6, <1>7, <2>1 DEF NoNews
  <2>3. QED
    BY <1>6, <2>2 DEF Undisturbed
<1>11. QED
  BY <1>1, <1>9, <1>10, GotoAwake

LEMMA SendWakeWake ==
  ASSUME SendInv, WakeInv, NEW t \in Thread, SendWake(t)
  PROVE  WakeInv'
<1>1. TypeOK /\ Running(t) /\ Top(t).op = "send" /\ Top(t).at = "wake"
      /\ Step(t, Goto(stack[t], "loop")) /\ "loop" \in Ats /\ Wake({Top(t).to})
  BY AtFacts DEF SendWake, SendInv, Ats
<1>2. SendsNoticed'
  BY NoticedStays DEF SendWake
<1>3. UNCHANGED <<msgq_, sendlist_, ready, fWait_>>
  BY DEF SendWake, queueVars, sendVars, waitVars, msgVars
<1>4. ASSUME NEW x \in Thread PROVE Undisturbed(x)
  <2>1. (signaled_[x] => signaled_'[x]) /\ fWait_'[x] = fWait_[x]
    BY <1>1, <1>3 DEF Wake
  <2>2. CASE x = Top(t).to
    BY <1>1, <2>1, <2>2 DEF Undisturbed, Wake
  <2>3. CASE x # Top(t).to
    <3>1. ASSUME Coming(x) PROVE Coming(x)'
      <4>1. PICK u \in Thread : At(u, "send", "wake") /\ Top(u).to = x
        BY <3>1 DEF Coming
      <4>2. stack'[u] = stack[u]
        BY <1>1, <2>3, <4>1 DEF Step, TypeOK
      <4>3. At(u, "send", "wake")' /\ Top(u)'.to = x
        BY <4>1, <4>2 DEF At, Running, Top
      <4>4. QED
        BY <4>3 DEF Coming
    <3>2. NoNews(x)
      BY <1>3, <3>1 DEF NoNews
    <3>3. QED
      BY <2>1, <3>2 DEF Undisturbed
  <2>4. QED
    BY <2>2, <2>3
<1>5. QED
  BY <1>1, <1>2, <1>4, GotoAwake

LEMMA GetStopWake ==
  ASSUME SendInv, WakeInv, NEW t \in Thread, GetStop(t)
  PROVE  WakeInv'
<1> DEFINE n == Len(stack[t])
<1>1. TypeOK /\ Running(t) /\ Top(t).op = "get" /\ Top(t).at = "stop" /\ ~At(t, "send", "wake")
  BY AtFacts DEF GetStop, SendInv
<1>2. n = 1 /\ Top(t) = stack[t][1]
  BY <1>1, TopFacts
<1>3. UNCHANGED <<msgq_, sendlist_, ready, signaled_>> /\ SendsNoticed'
  BY NoticedStays DEF GetStop, queueVars, sendVars, msgVars
<1>4. \A x \in Thread \ {t} : fWait_'[x] = fWait_[x]
  BY <1>1 DEF GetStop, TypeOK
<1>5. CASE Step(t, <<>>)
  <2>1. PICK r : r = <<>>
    OBVIOUS
  <2>2. Changes(t, r, 0)
    BY <1>2, <1>5, <2>1 DEF Step, Changes
  <2>3. \A i \in 1..Len(r) : FALSE
    BY <2>1
  <2>4. OwnWoke(t, r)
    BY <2>3 DEF OwnWoke, Woke
  <2>5. \A x \in Thread \ {t} : Undisturbed(x)
    BY <1>1, <1>3, <1>4, <2>2, OthersUndisturbed
  <2>6. \A i \in (0 + 1)..Len(r) : r[i].at = "check" => ~r[i].waited
    BY <2>3
  <2>7. QED
    BY <1>3, <2>2, <2>4, <2>5, <2>6, WakeStep
<1>6. CASE Step(t, Goto(stack[t], "select"))
  <2>1. PICK r : r = Goto(stack[t], "select")
    OBVIOUS
  <2>2. "select" \in Ats
    BY DEF Ats
  <2>3. Changes(t, r, 0) /\ Len(r) = 1 /\ r[1].at = "select" /\ Moved(r[1], Top(t))
    <3>1. Changes(t, r, n - 1) /\ Len(r) = n /\ r[n].at = "select" /\ Moved(r[n], Top(t))
      BY <1>1, <1>6, <2>1, <2>2, GotoChanges
    <3>2. QED
      BY <1>2, <3>1
  <2>4. r[1].op = "get"
    BY <1>1, <2>3 DEF Moved
  <2>5. \A x \in Thread \ {t} : Undisturbed(x)
    BY <1>1, <1>3, <1>4, <2>3, OthersUndisturbed
  <2>6. Coming(t) => Coming(t)'
    BY <1>1, <2>3, ComingKept
  <2>7. ASSUME Cause(r, 1, msgq_'[t], sendlist_'[t], Coming(t)', ready') PROVE signaled_'[t]
    <3>1. msgq_[t] # <<>> \/ (sendlist_[t] # <<>> /\ ~Coming(t))
      BY <1>3, <2>4, <2>6, <2>7 DEF Cause
    <3>2. Blind(Top(t))
      BY <1>1 DEF Blind
    <3>3. signaled_[t]
      BY <1>1, <3>1, <3>2, TopWoken
    <3>4. QED
      BY <1>3, <3>3
  <2>8. OwnWoke(t, r)
    <3>1. \A i \in 1..Len(r) : i = 1
      BY <2>3
    <3>2. QED
      BY <2>7, <3>1 DEF OwnWoke, Woke, Relief
  <2>9. \A i \in (0 + 1)..Len(r) : r[i].at = "check" => ~r[i].waited
    <3>1. \A i \in (0 + 1)..Len(r) : i = 1
      BY <2>3
    <3>2. QED
      BY <2>3, <3>1
  <2>10. QED
    BY <1>3, <2>3, <2>5, <2>8, <2>9, WakeStep
<1>7. QED
  BY <1>5, <1>6 DEF GetStop

LEMMA QueueFacts ==
  ASSUME NEW a \in Seq(Msgs), NEW k \in Nat, NEW b \in [1..k -> Msgs]
  PROVE  a \o b \in Seq(Msgs) /\ (a \o b = <<>> => a = <<>>)
<1>1. b \in Seq(Msgs)
  OBVIOUS
<1>2. Len(a \o b) = Len(a) + Len(b) /\ Len(a) \in Nat /\ Len(b) \in Nat
  BY <1>1
<1>3. QED
  BY <1>1, <1>2

LEMMA GetPullWake ==
  ASSUME SendInv, WakeInv, NEW t \in Thread, GetPull(t)
  PROVE  WakeInv'
<1> DEFINE n == Len(stack[t])
<1>1. TypeOK /\ Running(t) /\ Top(t).op = "get" /\ Top(t).at = "pull" /\ ~At(t, "send", "wake")
  BY AtFacts DEF GetPull, SendInv
<1>2. n = 1 /\ Top(t) = stack[t][1]
  BY <1>1, TopFacts
<1>3. UNCHANGED <<sendlist_, ready, signaled_, fWait_>> /\ SendsNoticed'
  BY NoticedStays DEF GetPull, sendVars
<1>4. \A x \in Thread \ {t} : msgq_'[x] = msgq_[x]
  BY <1>1 DEF GetPull, TypeOK
<1>5. PICK k \in 0..Len(dmsgq_[t]) : k = Due(t)
  BY <1>1, DueType
<1>6. PICK q : q = msgq_[t] \o [i \in 1..k |-> dmsgq_[t][i].msg]
  OBVIOUS
<1>7. q \in Seq(Msgs) /\ (q = <<>> => msgq_[t] = <<>>)
  <2>1. msgq_[t] \in Seq(Msgs) /\ dmsgq_[t] \in Seq(DelayedMsg)
    BY <1>1 DEF TypeOK, DelayedMsg
  <2>2. \A i \in 1..k : dmsgq_[t][i] \in DelayedMsg
    BY <2>1
  <2>3. PICK b : b = [i \in 1..k |-> dmsgq_[t][i].msg]
    OBVIOUS
  <2>4. b \in [1..k -> Msgs] /\ k \in Nat
    BY <2>1, <2>2, <2>3 DEF DelayedMsg
  <2>5. q = msgq_[t] \o b
    BY <1>6, <2>3
  <2>6. QED
    BY <2>1, <2>4, <2>5, QueueFacts
<1>8. CASE q # <<>>
  <2>1. PICK m \in Msgs : m = Head(q)
    BY <1>7, <1>8, TailFacts
  <2>2. PICK f \in Frame : f = NewFrame("handle", "run", m, t)
    BY NewFrameType DEF Ats
  <2>3. PICK at \in Ats : at = "enter"
    BY DEF Ats
  <2>4. PICK r : r = Append(Goto(stack[t], at), f)
    OBVIOUS
  <2>5. GoesAndCalls(t, r, at, f)
    BY <1>5, <1>6, <1>8, <2>1, <2>2, <2>3, <2>4 DEF GetPull, Call, Step, GoesAndCalls
  <2>6. /\ Changes(t, r, 0) /\ Len(r) = 2
        /\ r[1].at = at /\ Moved(r[1], Top(t)) /\ r[2] = f
    <3>1. /\ Changes(t, r, n - 1) /\ Len(r) = n + 1
          /\ r[n].at = at /\ Moved(r[n], Top(t)) /\ r[n + 1] = f
      BY <1>1, <2>5, GotoPushTo
    <3>2. QED
      BY <1>2, <3>1
  <2>7. Awake(r[1]) /\ Awake(r[2]) /\ r[1].at # "check" /\ r[2].at # "check"
    BY <1>1, <2>2, <2>3, <2>6 DEF Awake, NewFrame, Moved
  <2>8. \A i \in 1..Len(r) : Awake(r[i]) /\ r[i].at # "check"
    <3>1. \A i \in 1..Len(r) : i = 1 \/ i = 2
      BY <2>6
    <3>2. QED
      BY <2>7, <3>1
  <2>9. OwnWoke(t, r)
    BY <2>8, AwakeFrame DEF OwnWoke, Woke
  <2>10. \A x \in Thread \ {t} : Undisturbed(x)
    BY <1>1, <1>3, <1>4, <2>6, OthersUndisturbed
  <2>11. \A i \in (0 + 1)..Len(r) : r[i].at = "check" => ~r[i].waited
    BY <2>8
  <2>12. QED
    BY <1>3, <2>6, <2>9, <2>10, <2>11, WakeStep
<1>9. CASE q = <<>>
  <2>1. PICK at \in Ats : at = "stop"
    BY DEF Ats
  <2>2. PICK r : r = Goto(stack[t], at)
    OBVIOUS
  <2>3. Step(t, Goto(stack[t], at)) /\ msgq_' = msgq_
    BY <1>5, <1>6, <1>9, <2>1 DEF GetPull
  <2>4. Changes(t, r, 0) /\ Len(r) = 1 /\ r[1].at = "stop" /\ Moved(r[1], Top(t))
    <3>1. Changes(t, r, n - 1) /\ Len(r) = n /\ r[n].at = at /\ Moved(r[n], Top(t))
      BY <1>1, <2>2, <2>3, GotoChanges
    <3>2. QED
      BY <1>2, <2>1, <3>1
  <2>5. r[1].op = "get"
    BY <1>1, <2>4 DEF Moved
  <2>6. \A x \in Thread \ {t} : Undisturbed(x)
    BY <1>1, <1>3, <1>4, <2>4, OthersUndisturbed
  <2>7. Coming(t) => Coming(t)'
    BY <1>1, <2>4, ComingKept
  <2>8. ASSUME Cause(r, 1, msgq_'[t], sendlist_'[t], Coming(t)', ready') PROVE signaled_'[t]
    <3>1. sendlist_[t] # <<>> /\ ~Coming(t)
      BY <1>3, <1>7, <1>9, <2>3, <2>5, <2>7, <2>8 DEF Cause
    <3>2. Blind(Top(t))
      BY <1>1 DEF Blind
    <3>3. signaled_[t]
      BY <1>1, <3>1, <3>2, TopWoken
    <3>4. QED
      BY <1>3, <3>3
  <2>9. \A i \in 1..Len(r) : i = 1
    BY <2>4
  <2>10. OwnWoke(t, r)
    BY <2>8, <2>9 DEF OwnWoke, Woke, Relief
  <2>11. \A i \in (0 + 1)..Len(r) : r[i].at = "check" => ~r[i].waited
    BY <2>4, <2>9
  <2>12. QED
    BY <1>3, <2>4, <2>6, <2>10, <2>11, WakeStep
<1>10. QED
  BY <1>8, <1>9

\* The activations below a send that gives its wake-up back.
LEMMA GivenBack ==
  ASSUME NEW r, NEW n \in Nat, Len(r) \in Nat, n <= Len(r), Gives(r[n]),
         NEW i \in 1..(n - 1), NEW sig, NEW wait
  PROVE  Relief(r, i, sig, wait)
<1>1. n \in (i + 1)..Len(r)
  OBVIOUS
<1>2. QED
  BY <1>1 DEF Relief

LEMMA SendWaitWake ==
  ASSUME SendInv, WakeInv, NEW t \in Thread, SendWait(t)
  PROVE  WakeInv'
<1> DEFINE n == Len(stack[t])
<1>1. TypeOK /\ Running(t) /\ Top(t).op = "send" /\ Top(t).at = "wait" /\ ~At(t, "send", "wake")
  BY AtFacts DEF SendWait, SendInv
<1>2. n \in Nat \ {0}
  BY <1>1, TopFacts
<1>3. UNCHANGED <<msgq_, sendlist_, ready, signaled_>> /\ SendsNoticed'
  BY NoticedStays DEF SendWait, queueVars, sendVars, msgVars
<1>4. \A x \in Thread \ {t} : fWait_'[x] = fWait_[x]
  BY <1>1 DEF SendWait, TypeOK
<1>5. PICK at \in Ats : at = "select"
  BY DEF Ats
<1>6. PICK r : r = Goto(stack[t], at)
  OBVIOUS
<1>7. Changes(t, r, n - 1) /\ Len(r) = n /\ r[n].at = "select" /\ Moved(r[n], Top(t))
  BY <1>1, <1>5, <1>6, GotoChanges DEF SendWait
<1>8. r[n].op = "send" /\ r[n].msg = Top(t).msg
  BY <1>1, <1>7 DEF Moved
<1>9. \A x \in Thread \ {t} : Undisturbed(x)
  BY <1>1, <1>3, <1>4, <1>7, OthersUndisturbed
<1>10. Coming(t) => Coming(t)'
  BY <1>1, <1>7, ComingKept
<1>11. ASSUME Cause(r, n, msgq_'[t], sendlist_'[t], Coming(t)', ready') PROVE signaled_'[t]
  <2>1. (sendlist_[t] # <<>> /\ ~Coming(t)) \/ ready[Top(t).msg]
    BY <1>3, <1>8, <1>10, <1>11 DEF Cause
  <2>2. Blind(Top(t))
    BY <1>1 DEF Blind
  <2>3. signaled_[t]
    BY <1>1, <2>1, <2>2, TopWoken
  <2>4. QED
    BY <1>3, <2>3
<1>12. Gives(r[n])
  BY <1>7, <1>8 DEF Gives
<1>13. OwnWoke(t, r)
  <2>1. SUFFICES ASSUME NEW i \in 1..Len(r),
                        Cause(r, i, msgq_'[t], sendlist_'[t], Coming(t)', ready')
                 PROVE  Relief(r, i, signaled_'[t], fWait_'[t])
    BY DEF OwnWoke, Woke
  <2>2. CASE i = n
    BY <1>11, <2>1, <2>2 DEF Relief
  <2>3. CASE i # n
    <3>1. i \in 1..(n - 1) /\ n <= Len(r) /\ Len(r) \in Nat
      BY <1>2, <1>7, <2>3
    <3>2. QED
      BY <1>2, <1>12, <3>1, GivenBack
  <2>4. QED
    BY <2>2, <2>3
<1> DEFINE k == n - 1
<1>14. Changes(t, r, k) /\ \A i \in (k + 1)..Len(r) : r[i].at # "check"
  <2>1. \A i \in ((n - 1) + 1)..Len(r) : i = n
    BY <1>2, <1>7
  <2>2. QED
    BY <1>7, <2>1
<1> HIDE DEF k
<1>15. QED
  BY <1>3, <1>9, <1>13, <1>14, WakeStep

\* Back from Wait, whatever becomes of the signal: a Get looks again, a Send has used a
\* wake-up that it will give back.
LEMMA AfterWaitWake ==
  ASSUME SendInv, WakeInv, NEW t \in Thread, InSelect(t), Step(t, AfterWait(stack[t])),
         UNCHANGED <<msgq_, sendlist_, ready>>, SendsNoticed',
         \A x \in Thread \ {t} : signaled_'[x] = signaled_[x] /\ fWait_'[x] = fWait_[x]
  PROVE  WakeInv'
<1> DEFINE n == Len(stack[t])
<1>1. TypeOK /\ Running(t) /\ Top(t).at = "select" /\ ~At(t, "send", "wake")
  BY DEF SendInv, InSelect, At
<1>2. /\ FrameOK(Top(t), nmsgs) /\ (Top(t).op = "get" => n = 1)
      /\ n \in Nat \ {0} /\ Top(t) \in Frame
  BY <1>1, TopFacts
<1>3. Top(t).op \in {"get", "send"}
  BY <1>1, <1>2 DEF FrameOK, Frame
<1>4. PICK r : r = AfterWait(stack[t])
  OBVIOUS
<1>5. /\ r \in Seq(Frame) /\ Len(r) = n /\ \A i \in 1..(n - 1) : r[i] = stack[t][i]
      /\ GoodAt(r[n].op, r[n].at) /\ r[n].at \in {"enter", "loop"} /\ r[n].op = Top(t).op
      /\ r[n].op = "send" => r[n].waited
  BY <1>4, AfterWaitFacts
<1>6. Changes(t, r, n - 1)
  BY <1>2, <1>4, <1>5 DEF Step, Changes
<1>7. Awake(r[n]) /\ r[n].at # "check"
  BY <1>5 DEF Awake, GoodAt
<1>8. OwnWoke(t, r)
  <2>1. SUFFICES ASSUME NEW i \in 1..Len(r),
                        Cause(r, i, msgq_'[t], sendlist_'[t], Coming(t)', ready')
                 PROVE  Relief(r, i, signaled_'[t], fWait_'[t])
    BY DEF OwnWoke, Woke
  <2>2. i # n
    BY <1>7, <2>1, AwakeFrame
  <2>3. i \in 1..(n - 1) /\ n <= Len(r) /\ Len(r) \in Nat /\ n # 1
    BY <1>2, <1>5, <2>2
  <2>4. Gives(r[n])
    BY <1>2, <1>3, <1>5, <2>3 DEF Gives
  <2>5. QED
    BY <1>2, <2>3, <2>4, GivenBack
<1>9. \A x \in Thread \ {t} : Undisturbed(x)
  BY <1>1, <1>6, OthersUndisturbed
<1> DEFINE k == n - 1
<1>10. Changes(t, r, k) /\ \A i \in (k + 1)..Len(r) : r[i].at # "check"
  <2>1. \A i \in ((n - 1) + 1)..Len(r) : i = n
    BY <1>2, <1>5
  <2>2. QED
    BY <1>6, <1>7, <2>1
<1> HIDE DEF k
<1>11. QED
  BY <1>8, <1>9, <1>10, WakeStep

LEMMA WaitWokenWake ==
  ASSUME SendInv, WakeInv, NEW t \in Thread, WaitWoken(t)
  PROVE  WakeInv'
<1>1. TypeOK /\ SendsNoticed'
  BY NoticedStays DEF SendInv, WaitWoken
<1>2. \A x \in Thread \ {t} : signaled_'[x] = signaled_[x] /\ fWait_'[x] = fWait_[x]
  BY <1>1 DEF WaitWoken, TypeOK
<1>3. UNCHANGED <<msgq_, sendlist_, ready>> /\ InSelect(t) /\ Step(t, AfterWait(stack[t]))
  BY DEF WaitWoken, queueVars, sendVars, msgVars
<1>4. QED
  BY <1>1, <1>2, <1>3, AfterWaitWake

LEMMA WaitTimeoutWake ==
  ASSUME SendInv, WakeInv, NEW t \in Thread, WaitTimeout(t)
  PROVE  WakeInv'
<1>1. SendsNoticed'
  BY NoticedStays DEF WaitTimeout
<1>2. UNCHANGED <<msgq_, sendlist_, ready, signaled_, fWait_>> /\ InSelect(t)
      /\ Step(t, AfterWait(stack[t]))
  BY DEF WaitTimeout, queueVars, sendVars, waitVars, msgVars
<1>3. QED
  BY <1>1, <1>2, AfterWaitWake

\* A socket's handler runs inside Wait: the signal it finds there ends the wait that follows.
LEMMA WaitIoWake ==
  ASSUME SendInv, WakeInv, NEW t \in Thread, WaitIo(t)
  PROVE  WakeInv'
<1> DEFINE n == Len(stack[t])
<1>1. TypeOK /\ Running(t) /\ Top(t).at = "select" /\ fWait_[t] /\ ~At(t, "send", "wake")
  BY DEF SendInv, InSelect, WaitIo, At
<1>2. /\ FrameOK(Top(t), nmsgs) /\ (Top(t).op = "get" => n = 1)
      /\ n \in Nat \ {0} /\ Top(t) \in Frame /\ Top(t) = stack[t][n] /\ n \in 1..n
  BY <1>1, TopFacts
<1>3. Top(t).op \in {"get", "send"}
  BY <1>1, <1>2 DEF FrameOK, Frame
<1>4. PICK f \in Frame : f = NewFrame("handle", "run", NoMsg, t)
  BY NewFrameType DEF Ats
<1>5. PICK r : r = Append(stack[t], f)
  OBVIOUS
<1>6. Changes(t, r, n) /\ Len(r) = n + 1 /\ r[n + 1] = f
  BY <1>1, <1>4, <1>5, PushChanges DEF WaitIo, Call
<1>7. r[n] = Top(t)
  BY <1>1, <1>2, <1>6, ChangesFacts
<1>8. UNCHANGED <<msgq_, sendlist_, ready>> /\ SendsNoticed'
  BY NoticedStays DEF WaitIo, queueVars, sendVars, msgVars
<1>9. /\ \A x \in Thread \ {t} : signaled_'[x] = signaled_[x] /\ fWait_'[x] = fWait_[x]
      /\ signaled_[t] => ~fWait_'[t]
  BY <1>1 DEF WaitIo, TypeOK
<1>10. \A x \in Thread \ {t} : Undisturbed(x)
  BY <1>1, <1>6, <1>8, <1>9, OthersUndisturbed
<1>11. Coming(t) => Coming(t)'
  BY <1>1, <1>6, ComingKept
<1>12. ASSUME Cause(r, n, msgq_'[t], sendlist_'[t], Coming(t)', ready')
       PROVE  Relief(r, n, signaled_'[t], fWait_'[t])
  <2>1. \/ Top(t).op = "get" /\ Top(t).at \in {"stop", "select"} /\ msgq_[t] # <<>>
        \/ Blind(Top(t)) /\ sendlist_[t] # <<>> /\ ~Coming(t)
        \/ Top(t).op = "send" /\ Top(t).at \in {"serve", "wait", "select"} /\ ready[Top(t).msg]
    BY <1>7, <1>8, <1>11, <1>12 DEF Cause
  <2>2. signaled_[t]
    BY <1>1, <2>1, TopWoken
  <2>3. QED
    BY <1>1, <1>7, <1>9, <2>2 DEF Relief
<1>13. OwnWoke(t, r)
  <2>1. SUFFICES ASSUME NEW i \in 1..Len(r),
                        Cause(r, i, msgq_'[t], sendlist_'[t], Coming(t)', ready')
                 PROVE  Relief(r, i, signaled_'[t], fWait_'[t])
    BY DEF OwnWoke, Woke
  <2>2. Awake(f)
    BY <1>4 DEF Awake, NewFrame
  <2>3. i # n + 1
    BY <1>6, <2>1, <2>2, AwakeFrame
  <2>4. CASE i = n
    BY <1>12, <2>1, <2>4
  <2>5. CASE i # n
    <3>1. i \in 1..(n - 1) /\ n <= Len(r) /\ Len(r) \in Nat /\ n # 1
      BY <1>2, <1>6, <2>3, <2>5
    <3>2. Gives(r[n])
      BY <1>1, <1>2, <1>3, <1>7, <3>1 DEF Gives
    <3>3. QED
      BY <1>2, <3>1, <3>2, GivenBack
  <2>6. QED
    BY <2>4, <2>5
<1>14. \A i \in (n + 1)..Len(r) : r[i].at = "check" => ~r[i].waited
  <2>1. \A i \in (n + 1)..Len(r) : i = n + 1
    BY <1>2, <1>6
  <2>2. f.at # "check"
    BY <1>4 DEF NewFrame
  <2>3. QED
    BY <1>6, <2>1, <2>2
<1> HIDE DEF n
<1>15. QED
  BY <1>6, <1>8, <1>10, <1>13, <1>14, WakeStep

\* No stack moves.
LEMMA StillWake ==
  ASSUME SendInv, WakeInv, UNCHANGED stack, \A x \in Thread : Undisturbed(x), SendsNoticed'
  PROVE  WakeInv'
<1>1. ASSUME NEW x \in Thread
      PROVE  Woke(stack[x], msgq_'[x], sendlist_'[x], Coming(x)', ready', signaled_'[x], fWait_'[x])
  <2>1. Len(stack[x]) \in Nat
    BY DEF SendInv, TypeOK
  <2>2. Keeps(stack[x], stack[x], Len(stack[x]), sendlist_'[x], signaled_'[x])
    <3>1. \A j \in (Len(stack[x]) + 1)..Len(stack[x]) : FALSE
      BY <2>1
    <3>2. QED
      BY <2>1, <3>1 DEF Keeps
  <2>3. Undisturbed(x)
    OBVIOUS
  <2>4. \A i \in 1..Len(stack[x]) :
          Cause(stack[x], i, msgq_'[x], sendlist_'[x], Coming(x)', ready')
            => Relief(stack[x], i, signaled_'[x], fWait_'[x])
    BY <2>2, <2>3, Below DEF Undisturbed
  <2>5. QED
    BY <2>4 DEF Woke
<1>2. AllWoken'
  BY <1>1 DEF AllWoken
<1>3. NotWaitedYet'
  BY DEF WakeInv, NotWaitedYet
<1>4. QED
  BY <1>2, <1>3 DEF WakeInv

LEMMA ComingStill ==
  ASSUME UNCHANGED stack, NEW x \in Thread
  PROVE  Coming(x)' = Coming(x)
BY DEF Coming, At, Running, Top

LEMMA WithoutEmpty ==
  ASSUME NEW T, NEW q \in Seq(T), NEW S, q = <<>>
  PROVE  Without(q, S) = <<>>
<1>1. Without(q, S) \in Seq(T) /\ ToSet(Without(q, S)) \subseteq ToSet(q)
  BY WithoutFacts
<1>2. ToSet(q) = {}
  BY DEF ToSet
<1>3. PICK p \in Seq(T) : p = Without(q, S)
  BY <1>1
<1>4. p # <<>> => p[1] \in ToSet(p)
  BY DEF ToSet
<1>5. QED
  BY <1>1, <1>2, <1>3, <1>4

LEMMA ClearWake ==
  ASSUME SendInv, WakeInv, NEW t \in Thread, NEW u \in Thread, NEW S, Clear(t, u, S)
  PROVE  WakeInv'
<1>1. TypeOK /\ UNCHANGED <<stack, sender, fWait_>>
  BY DEF SendInv, Clear, waitVars
<1>2. msgq_ \in [Thread -> Seq(Msgs)] /\ sendlist_ \in [Thread -> Seq(Msgs)]
  BY <1>1 DEF TypeOK
<1>3. /\ msgq_' = [msgq_ EXCEPT ![u] = Without(@, S)]
      /\ sendlist_' = [sendlist_ EXCEPT ![u] = Without(@, S)] /\ has_sends_' = has_sends_
  BY DEF Clear
<1>4. ASSUME NEW x \in Thread
      PROVE  (msgq_'[x] # <<>> => msgq_[x] # <<>>) /\ (sendlist_'[x] # <<>> => sendlist_[x] # <<>>)
  <2>1. CASE x = u
    <3>1. msgq_'[x] = Without(msgq_[x], S) /\ sendlist_'[x] = Without(sendlist_[x], S)
      BY <1>2, <1>3, <2>1
    <3>2. msgq_[x] \in Seq(Msgs) /\ sendlist_[x] \in Seq(Msgs)
      BY <1>2
    <3>3. QED
      BY <3>1, <3>2, WithoutEmpty
  <2>2. CASE x # u
    BY <1>2, <1>3, <2>2
  <2>3. QED
    BY <2>1, <2>2
<1>5. SendsNoticed'
  BY <1>3, <1>4 DEF WakeInv, SendsNoticed
<1>6. ASSUME NEW x \in Thread PROVE Undisturbed(x)
  <2>1. (signaled_[x] => signaled_'[x]) /\ fWait_'[x] = fWait_[x]
    BY <1>1 DEF Clear, Wake
  <2>2. ASSUME ~signaled_'[x], NEW m \in Msgs, sender[m] = {x}, ready'[m] PROVE ready[m]
    <3>1. m \notin S \cap ToSet(sendlist_[u])
      BY <2>2 DEF Clear, Wake
    <3>2. QED
      BY <2>2, <3>1 DEF Clear
  <2>3. NoNews(x) \/ signaled_'[x]
    BY <1>1, <1>4, <2>2, ComingStill DEF NoNews
  <2>4. QED
    BY <2>1, <2>3 DEF Undisturbed
<1>7. QED
  BY <1>1, <1>5, <1>6, StillWake

\* Nothing but signals may be added.
LEMMA OutsideWake ==
  ASSUME SendInv, WakeInv, UNCHANGED <<msgq_, sendVars, ready, fWait_, stack>>,
         \A x \in Thread : signaled_[x] => signaled_'[x]
  PROVE  WakeInv'
<1>1. \A x \in Thread : Coming(x)' = Coming(x)
  BY ComingStill
<1>2. \A x \in Thread : NoNews(x)
  BY <1>1 DEF NoNews, sendVars
<1>3. \A x \in Thread : Undisturbed(x)
  BY <1>2 DEF Undisturbed
<1>4. SendsNoticed'
  BY NoticedStays
<1>5. QED
  BY <1>3, <1>4, StillWake

LEMMA RunsWake ==
  ASSUME SendInv, WakeInv, NEW t \in Thread, Runs(t)
  PROVE  WakeInv'
BY GetEnterWake, ReceiveSendsWake, GetPullWake, GetStopWake, ReceiveTakeWake, ReceiveDoneWake,
   WaitWokenWake, WaitTimeoutWake, HandlerReturnsWake, CheckStopWake, PostWake, DoDelayPostWake,
   SendPushWake, SendWakeWake, SendLoopWake, SendWaitWake, SendReturnsWake
   DEF Runs

LEMMA HandlerActsWake ==
  ASSUME SendInv, WakeInv, NEW t \in Thread, HandlerActs(t) \/ HandlerClears(t)
  PROVE  WakeInv'
<1>1. CASE HandlerActs(t)
  <2>1. PICK op \in Ops \ {"clear"}, u \in Thread, d \in Delays \cup {0} : HandlerCalls(t, op, u, d)
    BY <1>1 DEF HandlerActs
  <2>2. op \in {"post", "delay", "send"}
    BY OpsAssumption
  <2>3. QED
    BY <2>1, <2>2, HandlerCallsWake
<1>2. CASE HandlerClears(t)
  <2>1. PICK u \in Thread : \E S \in SUBSET Queued(u) : Clear(t, u, S)
    BY <1>2 DEF HandlerClears
  <2>2. PICK S \in SUBSET Queued(u) : Clear(t, u, S)
    BY <2>1
  <2>3. QED
    BY <2>2, ClearWake
<1>3. QED
  BY <1>1, <1>2

LEMMA NextWake ==
  ASSUME SendInv, WakeInv, [Next]_vars
  PROVE  WakeInv'
<1>1. CASE UNCHANGED vars
  <2>1. UNCHANGED <<msgq_, sendVars, ready, fWait_, stack, signaled_>>
    BY <1>1 DEF vars, queueVars, waitVars, msgVars
  <2>2. QED
    BY <2>1, OutsideWake
<1>2. ASSUME NEW t \in Thread, Runs(t) PROVE WakeInv'
  BY <1>2, RunsWake
<1>3. ASSUME NEW t \in Thread, WaitIo(t) PROVE WakeInv'
  BY <1>3, WaitIoWake
<1>4. ASSUME NEW t \in Thread, HandlerActs(t) \/ HandlerClears(t) PROVE WakeInv'
  BY <1>4, HandlerActsWake
<1>5. CASE Tick
  BY <1>5, OutsideWake DEF Tick, queueVars, waitVars, msgVars
<1>6. ASSUME NEW t \in Quits, Quit(t) PROVE WakeInv'
  <2>1. UNCHANGED <<msgq_, sendVars, ready, fWait_, stack>>
    BY <1>6 DEF Quit, queueVars, waitVars, msgVars
  <2>2. \A x \in Thread : signaled_[x] => signaled_'[x]
    BY <1>6 DEF Quit, Wake
  <2>3. QED
    BY <2>1, <2>2, OutsideWake
<1>7. QED
  BY <1>1, <1>2, <1>3, <1>4, <1>5, <1>6 DEF Next

LEMMA InitWake ==
  ASSUME Init
  PROVE  WakeInv
<1>1. \A t \in Thread : stack[t] = <<NewFrame("get", "enter", NoMsg, t)>>
  BY DEF Init
<1>2. ASSUME NEW t \in Thread
      PROVE  Len(stack[t]) = 1 /\ stack[t][1].op = "get" /\ stack[t][1].at = "enter"
  <2>1. PICK f : f = NewFrame("get", "enter", NoMsg, t)
    OBVIOUS
  <2>2. f.op = "get" /\ f.at = "enter"
    BY <2>1 DEF NewFrame
  <2>3. stack[t] = <<f>>
    BY <1>1, <2>1
  <2>4. QED
    BY <2>2, <2>3
<1>3. \A t \in Thread : \A i \in 1..Len(stack[t]) : Awake(stack[t][i]) /\ stack[t][i].at # "check"
  <2>1. SUFFICES ASSUME NEW t \in Thread, NEW i \in 1..Len(stack[t])
                 PROVE  Awake(stack[t][i]) /\ stack[t][i].at # "check"
    OBVIOUS
  <2>2. i = 1
    BY <1>2
  <2>3. QED
    BY <1>2, <2>2 DEF Awake
<1>4. AllWoken
  BY <1>3, AwakeFrame DEF AllWoken, Woke
<1>5. NotWaitedYet
  BY <1>3 DEF NotWaitedYet
<1>6. SendsNoticed
  BY DEF Init, SendsNoticed
<1>7. QED
  BY <1>4, <1>5, <1>6 DEF WakeInv

LEMMA SpecWakeInv == Spec => []WakeInv
<1>1. Init => WakeInv
  BY InitWake
<1>2. SendInv /\ WakeInv /\ [Next]_vars => WakeInv'
  BY NextWake
<1>3. QED
  BY <1>1, <1>2, SpecSendInv, PTL DEF Spec

\* MessageQueue::Get, Thread::Send and NetworkService::Wait: no wake-up is lost.  A thread
\* sleeps in Get only with nothing posted, sleeps in Send only while its message is not done,
\* and sleeps with something sent to it only while the sender is on its way to wake it; also
\* when waits are nested, in socket handlers and in sends that serve other sends.
THEOREM SpecNoLostWakeUp == Spec => []NoLostWakeUp
<1>1. SendInv /\ WakeInv => NoLostWakeUp
  <2>1. SUFFICES ASSUME SendInv, WakeInv, NEW t \in Thread, Asleep(t)
                 PROVE  /\ Top(t).op = "get" => msgq_[t] = <<>>
                        /\ sendlist_[t] # <<>> =>
                             \E u \in Thread : At(u, "send", "wake") /\ Top(u).to = t
                        /\ Top(t).op = "send" => ~ready[Top(t).msg]
    BY DEF NoLostWakeUp
  <2>2. Running(t) /\ Top(t).at = "select" /\ fWait_[t] /\ ~signaled_[t]
    BY <2>1 DEF Asleep, InSelect
  <2>3. FrameOK(Top(t), nmsgs) /\ Top(t) \in Frame
    BY <2>1, <2>2, TopFacts
  <2>4. Blind(Top(t))
    BY <2>2, <2>3 DEF FrameOK, Frame, Blind
  <2>5. ~(Top(t).op = "get" /\ msgq_[t] # <<>>)
    BY <2>1, <2>2, TopWoken
  <2>6. ~(sendlist_[t] # <<>> /\ ~Coming(t))
    BY <2>1, <2>2, <2>4, TopWoken
  <2>7. ~(Top(t).op = "send" /\ ready[Top(t).msg])
    BY <2>1, <2>2, TopWoken
  <2>8. QED
    BY <2>5, <2>6, <2>7 DEF Coming
<1>2. QED
  BY <1>1, SpecSendInv, SpecWakeInv, PTL

---------------------------------------------------------------------------
(* Delayed messages.  DelayedMessage::operator< compares times as numbers,  *)
(* so that nothing can be shown across the wrap of the clock.  Before it,   *)
(* the queue is in order and Get sleeps no longer than the first message    *)
(* allows; one that comes later wakes the thread.                           *)

\* The clock stays away from its wrap, with every time a handler asks for, and these times
\* are less than half its range apart.
EarlyClock ==
  \A d \in Delays \cup {0} : StartTime + MaxTicks + d < TimeMod /\ 2 * (MaxTicks + d) < TimeMod

InTime(x) == x \in Nat /\ StartTime <= x /\ x < TimeMod /\ 2 * (x - StartTime) < TimeMod

Sorted(q) == \A i, j \in 1..Len(q) : i <= j => q[i].trigger <= q[j].trigger

Stamped(q) == \A i \in 1..Len(q) : InTime(q[i].trigger)

\* A Get whose first activation is past its look at the delayed messages.
Resting(s) == s # <<>> /\ s[1].op = "get" /\ s[1].at \in {"stop", "select"}

\* x sleeps only until the first of its delayed messages is due: wakeAt is a duration until
\* the select starts and then the tick at which it ends.
Rested(x) ==
  \A i \in 1..Len(dmsgq_[x]) :
    /\ msCurrent[x] < dmsgq_[x][i].trigger /\ wakeAt[x] >= 0
    /\ (IF stack[x][1].at = "select" THEN wakeAt[x] - ticks ELSE wakeAt[x])
         <= dmsgq_[x][i].trigger - msCurrent[x]

Eased(x) ==
  Resting(stack[x]) => Relief(stack[x], 1, signaled_[x], fWait_[x]) \/ Rested(x)

Clocked == \A t \in Thread : InTime(msCurrent[t])
QueuesSound == \A t \in Thread : Stamped(dmsgq_[t]) /\ Sorted(dmsgq_[t])
FramesSound ==
  \A t \in Thread : \A i \in 1..Len(stack[t]) :
    stack[t][i].op = "delay" => InTime(stack[t][i].trigger)
AllEased == \A t \in Thread : Eased(t)

DelayInv == Clocked /\ QueuesSound /\ FramesSound /\ AllEased

LEMMA ModSmall ==
  ASSUME NEW M \in Nat \ {0}, NEW x \in Int
  PROVE  /\ x \in 0..(M - 1) => x % M = x
         /\ x \in (-M)..(-1) => x % M = x + M
OBVIOUS

\* Away from the wrap, times compare as numbers.
LEMMA LaterFacts ==
  ASSUME NEW a, NEW b, InTime(a), InTime(b)
  PROVE  /\ TimeIsLater(a, b) <=> a < b
         /\ a <= b => (b - a) % TimeMod = b - a
<1>1. /\ a \in Nat /\ b \in Nat /\ TimeMod \in Nat \ {0} /\ StartTime \in Nat
      /\ StartTime <= a /\ StartTime <= b /\ a < TimeMod /\ b < TimeMod
      /\ 2 * (a - StartTime) < TimeMod /\ 2 * (b - StartTime) < TimeMod
  BY TimeAssumption DEF InTime
<1>2. CASE a <= b
  <2>1. b - a \in 0..(TimeMod - 1) /\ b - a \in Int
    BY <1>1, <1>2
  <2>2. (b - a) % TimeMod = b - a
    BY <1>1, <2>1, ModSmall
  <2>3. 2 * (b - a) < TimeMod
    BY <1>1, <1>2
  <2>4. QED
    BY <1>1, <2>2, <2>3 DEF TimeIsLater
<1>3. CASE b < a
  <2>1. b - a \in (-TimeMod)..(-1) /\ b - a \in Int
    BY <1>1, <1>3
  <2>2. (b - a) % TimeMod = (b - a) + TimeMod
    BY <1>1, <2>1, ModSmall
  <2>3. ~(2 * ((b - a) + TimeMod) < TimeMod)
    BY <1>1, <1>3
  <2>4. QED
    BY <1>1, <1>3, <2>2, <2>3 DEF TimeIsLater
<1>4. QED
  BY <1>1, <1>2, <1>3

\* A set of places that has all places before each of its own is an interval.
LEMMA Prefix ==
  ASSUME NEW n \in Nat, NEW D \in SUBSET (1..n), \A i \in D : \A j \in 1..i : j \in D
  PROVE  Cardinality(D) \in 0..n /\ D = 1..Cardinality(D)
<1> DEFINE E == {x \in 0..n : x + 1 \notin D}
<1>1. n \in E /\ E \in SUBSET Nat
  OBVIOUS
<1>2. PICK c \in E : \A y \in E : c <= y
  BY <1>1, LeastNatural
<1>3. c \in 0..n /\ c + 1 \notin D
  OBVIOUS
<1>4. ASSUME NEW i \in 1..c PROVE i \in D
  <2>1. i - 1 \in 0..n /\ i - 1 < c /\ (i - 1) + 1 = i
    BY <1>3
  <2>2. i - 1 \notin E
    BY <1>2, <1>3, <2>1
  <2>3. QED
    BY <2>1, <2>2
<1>5. ASSUME NEW i \in D PROVE i \in 1..c
  <2>1. i \in Nat /\ 1 <= i
    OBVIOUS
  <2>2. ~(c + 1 <= i)
    BY <1>3, <1>5, <2>1
  <2>3. QED
    BY <1>3, <2>1, <2>2
<1>6. D = 1..c
  BY <1>4, <1>5
<1>7. Cardinality(1..c) = c
  BY <1>3, FS_Interval
<1>8. QED
  BY <1>3, <1>6, <1>7

\* What Get leaves in the delayed queue is not due.
LEMMA DueFacts ==
  ASSUME TypeOK, Clocked, QueuesSound, NEW t \in Thread
  PROVE  /\ Due(t) \in 0..Len(dmsgq_[t])
         /\ \A i \in (Due(t) + 1)..Len(dmsgq_[t]) : msCurrent[t] < dmsgq_[t][i].trigger
<1> DEFINE q == dmsgq_[t]
<1> DEFINE n == Len(q)
<1> DEFINE D == {i \in 1..n : \A j \in 1..i : ~TimeIsLater(msCurrent[t], q[j].trigger)}
<1>1. n \in Nat /\ D \in SUBSET (1..n)
  BY DEF TypeOK
<1>2. \A i \in D : \A j \in 1..i : j \in D
  BY <1>1
<1>3. Cardinality(D) \in 0..n /\ D = 1..Cardinality(D)
  BY <1>1, <1>2, Prefix
<1>4. PICK c \in 0..n : c = Due(t) /\ D = 1..c
  BY <1>3 DEF Due
<1>5. \A i \in 1..n : InTime(q[i].trigger)
  BY DEF QueuesSound, Stamped
<1>6. \A i, j \in 1..n : i <= j => q[i].trigger <= q[j].trigger
  BY DEF QueuesSound, Sorted
<1>7. InTime(msCurrent[t])
  BY DEF Clocked
<1>8. ASSUME NEW i \in (Due(t) + 1)..n PROVE msCurrent[t] < q[i].trigger
  <2>1. i \in 1..n /\ i \notin D
    <3>1. i \in (c + 1)..n
      BY <1>4
    <3>2. i \in 1..n /\ i \notin 1..c
      BY <1>1, <1>4, <3>1
    <3>3. QED
      BY <1>4, <3>2
  <2>2. PICK j \in 1..i : TimeIsLater(msCurrent[t], q[j].trigger)
    BY <2>1
  <2>3. j \in 1..n /\ j <= i
    BY <1>1, <2>1
  <2>4. msCurrent[t] < q[j].trigger
    BY <1>5, <1>7, <2>2, <2>3, LaterFacts
  <2>5. q[j].trigger <= q[i].trigger
    BY <1>6, <2>1, <2>3
  <2>6. msCurrent[t] \in Nat /\ q[j].trigger \in Nat /\ q[i].trigger \in Nat
    BY <1>5, <1>7, <2>1, <2>3 DEF InTime
  <2>7. QED
    BY <2>4, <2>5, <2>6
<1>9. QED
  BY <1>4, <1>8

\* Insert keeps the order.
LEMMA InsertSorted ==
  ASSUME NEW q \in Seq(DelayedMsg), NEW d \in DelayedMsg, Sorted(q), Stamped(q), InTime(d.trigger)
  PROVE  Sorted(Insert(q, d)) /\ Stamped(Insert(q, d))
<1> DEFINE D == {i \in 1..Len(q) : q[i].trigger <= d.trigger}
<1>1. PICK p \in 0..Len(q) :
        /\ p = Cardinality(D)
        /\ Insert(q, d) \in Seq(DelayedMsg) /\ Len(Insert(q, d)) = Len(q) + 1
        /\ Insert(q, d)[p + 1] = d
        /\ \A i \in 1..p : Insert(q, d)[i] = q[i]
        /\ \A i \in (p + 2)..(Len(q) + 1) : Insert(q, d)[i] = q[i - 1]
  BY InsertFacts
<1>2. PICK r : r = Insert(q, d)
  OBVIOUS
<1>3. /\ Len(r) = Len(q) + 1 /\ r[p + 1] = d /\ Len(q) \in Nat
      /\ \A i \in 1..p : r[i] = q[i]
      /\ \A i \in (p + 2)..(Len(q) + 1) : r[i] = q[i - 1]
  BY <1>1, <1>2
<1>4. \A i \in 1..Len(q) : InTime(q[i].trigger) /\ q[i].trigger \in Nat
  BY DEF Stamped, InTime
<1>5. \A i, j \in 1..Len(q) : i <= j => q[i].trigger <= q[j].trigger
  BY DEF Sorted
<1>6. d.trigger \in Nat
  BY DEF InTime
<1>7. D = 1..p
  <2>1. ASSUME NEW i \in D, NEW j \in 1..i PROVE j \in D
    <3>1. i \in 1..Len(q) /\ j \in 1..Len(q) /\ j <= i
      BY <1>3
    <3>2. q[j].trigger <= q[i].trigger /\ q[i].trigger <= d.trigger
      BY <1>5, <3>1
    <3>3. q[j].trigger <= d.trigger
      BY <1>4, <1>6, <3>1, <3>2
    <3>4. QED
      BY <3>1, <3>3
  <2>2. D = 1..Cardinality(D)
    BY <1>3, <2>1, Prefix
  <2>3. QED
    BY <1>1, <2>2
<1>8. \A i \in 1..p : i \in 1..Len(q) /\ q[i].trigger <= d.trigger
  BY <1>7
<1>9. \A i \in (p + 1)..Len(q) : i \in 1..Len(q) /\ d.trigger <= q[i].trigger
  <2>1. SUFFICES ASSUME NEW i \in (p + 1)..Len(q)
                 PROVE  i \in 1..Len(q) /\ d.trigger <= q[i].trigger
    OBVIOUS
  <2>2. i \in 1..Len(q) /\ i \notin D
    BY <1>3, <1>7
  <2>3. QED
    BY <1>4, <1>6, <2>2
<1> HIDE DEF D
<1>10. \A i \in 1..Len(r) : \/ i \in 1..p /\ r[i] = q[i]
                            \/ i = p + 1 /\ r[i] = d
                            \/ i \in (p + 2)..Len(r) /\ i - 1 \in (p + 1)..Len(q) /\ r[i] = q[i - 1]
  BY <1>3
<1>11. Stamped(r)
  <2>1. SUFFICES ASSUME NEW i \in 1..Len(r) PROVE InTime(r[i].trigger)
    BY DEF Stamped
  <2>2. QED
    BY <1>4, <1>8, <1>9, <1>10
<1>12. Sorted(r)
  <2>1. SUFFICES ASSUME NEW i \in 1..Len(r), NEW j \in 1..Len(r), i <= j
                 PROVE  r[i].trigger <= r[j].trigger
    BY DEF Sorted
  <2>2. CASE i \in 1..p /\ r[i] = q[i]
    <3>1. CASE j \in 1..p /\ r[j] = q[j]
      BY <1>5, <1>8, <2>1, <2>2, <3>1
    <3>2. CASE j = p + 1 /\ r[j] = d
      BY <1>8, <2>2, <3>2
    <3>3. CASE j \in (p + 2)..Len(r) /\ j - 1 \in (p + 1)..Len(q) /\ r[j] = q[j - 1]
      <4>1. q[i].trigger <= d.trigger /\ d.trigger <= q[j - 1].trigger
        BY <1>8, <1>9, <2>2, <3>3
      <4>2. q[i].trigger \in Nat /\ q[j - 1].trigger \in Nat
        BY <1>4, <1>8, <1>9, <2>2, <3>3
      <4>3. QED
        BY <1>6, <2>2, <3>3, <4>1, <4>2
    <3>4. QED
      BY <1>10, <3>1, <3>2, <3>3
  <2>3. CASE i = p + 1 /\ r[i] = d
    <3>1. CASE j = p + 1 /\ r[j] = d
      BY <1>6, <2>3, <3>1
    <3>2. CASE j \in (p + 2)..Len(r) /\ j - 1 \in (p + 1)..Len(q) /\ r[j] = q[j - 1]
      BY <1>9, <2>3, <3>2
    <3>3. ~(j \in 1..p)
      BY <1>3, <2>1, <2>3
    <3>4. QED
      BY <1>10, <3>1, <3>2, <3>3
  <2>4. CASE i \in (p + 2)..Len(r) /\ i - 1 \in (p + 1)..Len(q) /\ r[i] = q[i - 1]
    <3>1. j \in (p + 2)..Len(r)
      BY <1>3, <2>1, <2>4
    <3>2. j - 1 \in (p + 1)..Len(q) /\ r[j] = q[j - 1]
      BY <1>3, <3>1
    <3>3. i - 1 \in 1..Len(q) /\ j - 1 \in 1..Len(q) /\ i - 1 <= j - 1
      BY <1>3, <1>9, <2>1, <2>4, <3>2
    <3>4. QED
      BY <1>5, <2>4, <3>2, <3>3
  <2>5. QED
    BY <1>10, <2>2, <2>3, <2>4
<1>13. QED
  BY <1>2, <1>11, <1>12

LEMMA WithoutDelayedSorted ==
  ASSUME NEW T, NEW q \in Seq(T), NEW S, Sorted(q), Stamped(q)
  PROVE  Sorted(WithoutDelayed(q, S)) /\ Stamped(WithoutDelayed(q, S))
<1> DEFINE I == {i \in 1..Len(q) : q[i].msg \notin S}
<1> DEFINE r == Pick(q, I)
<1>1. I \in SUBSET (1..Len(q))
  OBVIOUS
<1>2. /\ r \in Seq(T)
      /\ \A k \in 1..Len(r) : Nth(I, k) \in I /\ r[k] = q[Nth(I, k)]
      /\ \A j, k \in 1..Len(r) : j < k => Nth(I, j) < Nth(I, k)
  BY <1>1, PickFacts
<1>3. \A i \in I : i \in 1..Len(q) /\ i \in Int
  OBVIOUS
<1>4. WithoutDelayed(q, S) = r
  BY DEF WithoutDelayed
<1> HIDE DEF r, I
<1>5. Stamped(r)
  BY <1>2, <1>3 DEF Stamped
<1>6. Sorted(r)
  <2>1. SUFFICES ASSUME NEW j \in 1..Len(r), NEW k \in 1..Len(r), j <= k
                 PROVE  r[j].trigger <= r[k].trigger
    BY DEF Sorted
  <2>2. Nth(I, j) \in 1..Len(q) /\ Nth(I, k) \in 1..Len(q) /\ Nth(I, j) <= Nth(I, k)
    <3>1. j = k \/ j < k
      BY <1>2, <2>1
    <3>2. QED
      BY <1>2, <1>3, <3>1
  <2>3. QED
    BY <1>2, <2>2 DEF Sorted
<1>7. QED
  BY <1>4, <1>5, <1>6

\* Nothing happens to x that its sleep depends on, or it is woken.
Unhurried(x) ==
  /\ signaled_[x] => signaled_'[x]
  /\ fWait_'[x] = fWait_[x] /\ msCurrent'[x] = msCurrent[x] /\ wakeAt'[x] = wakeAt[x]
  /\ \/ signaled_'[x]
     \/ \A i \in 1..Len(dmsgq_'[x]) : \E j \in 1..Len(dmsgq_[x]) : dmsgq_'[x][i] = dmsgq_[x][j]

LEMMA EasedKept ==
  ASSUME TypeOK, QueuesSound, Clocked, NEW x \in Thread, Eased(x), Unhurried(x),
         ticks' \in Nat, ticks <= ticks',
         Resting(stack'[x]) => stack[x] # <<>> /\ stack'[x][1] = stack[x][1],
         Resting(stack'[x]) /\ Relief(stack[x], 1, signaled_[x], fWait_[x])
           => Relief(stack'[x], 1, signaled_'[x], fWait_'[x])
  PROVE  Eased(x)'
<1>1. SUFFICES ASSUME Resting(stack'[x]), ~Relief(stack'[x], 1, signaled_'[x], fWait_'[x])
               PROVE  Rested(x)'
  BY DEF Eased
<1>2. Resting(stack[x]) /\ ~signaled_'[x] /\ stack'[x][1] = stack[x][1]
  BY <1>1 DEF Resting, Relief
<1>3. Rested(x)
  BY <1>1, <1>2 DEF Eased
<1>4. ASSUME NEW i \in 1..Len(dmsgq_'[x])
      PROVE  /\ msCurrent'[x] < dmsgq_'[x][i].trigger /\ wakeAt'[x] >= 0
             /\ (IF stack'[x][1].at = "select" THEN wakeAt'[x] - ticks' ELSE wakeAt'[x])
                  <= dmsgq_'[x][i].trigger - msCurrent'[x]
  <2>1. PICK j \in 1..Len(dmsgq_[x]) : dmsgq_'[x][i] = dmsgq_[x][j]
    BY <1>2 DEF Unhurried
  <2>2. PICK g \in Nat : g = dmsgq_[x][j].trigger
    BY DEF QueuesSound, Stamped, InTime
  <2>3. /\ msCurrent[x] < g /\ wakeAt[x] >= 0
        /\ (IF stack[x][1].at = "select" THEN wakeAt[x] - ticks ELSE wakeAt[x])
             <= g - msCurrent[x]
    BY <1>3, <2>2 DEF Rested
  <2>4. msCurrent[x] \in Nat /\ wakeAt[x] \in Int /\ ticks \in Nat
    <3>1. msCurrent[x] \in Nat
      BY DEF Clocked, InTime
    <3>2. QED
      BY <3>1, MsgBounds DEF TypeOK
  <2>5. msCurrent'[x] = msCurrent[x] /\ wakeAt'[x] = wakeAt[x] /\ dmsgq_'[x][i].trigger = g
    BY <2>1, <2>2 DEF Unhurried
  <2>6. CASE stack[x][1].at = "select"
    <3>1. wakeAt[x] - ticks' <= wakeAt[x] - ticks
      BY <2>4
    <3>2. wakeAt[x] - ticks' <= g - msCurrent[x]
      BY <2>2, <2>3, <2>4, <2>6, <3>1
    <3>3. QED
      BY <1>2, <2>3, <2>5, <2>6, <3>2
  <2>7. CASE stack[x][1].at # "select"
    BY <1>2, <2>3, <2>5, <2>7
  <2>8. QED
    BY <2>6, <2>7
<1>5. QED
  BY <1>4 DEF Rested

LEMMA FramesStep ==
  ASSUME TypeOK, FramesSound, NEW t \in Thread, NEW r, NEW k, Changes(t, r, k),
         \A i \in (k + 1)..Len(r) : r[i].op = "delay" => InTime(r[i].trigger)
  PROVE  FramesSound'
<1>1. /\ stack'[t] = r /\ \A u \in Thread \ {t} : stack'[u] = stack[u]
      /\ \A i \in 1..Len(r) : i \in 1..k \/ i \in (k + 1)..Len(r)
      /\ \A i \in 1..k : i \in 1..Len(stack[t]) /\ r[i] = stack[t][i]
  BY ChangesFacts
<1>2. ASSUME NEW u \in Thread, NEW i \in 1..Len(stack'[u]), stack'[u][i].op = "delay"
      PROVE  InTime(stack'[u][i].trigger)
  <2>1. CASE u = t
    BY <1>1, <1>2, <2>1 DEF FramesSound
  <2>2. CASE u # t
    BY <1>1, <1>2, <2>2 DEF FramesSound
  <2>3. QED
    BY <2>1, <2>2
<1>3. QED
  BY <1>2 DEF FramesSound, InTime

\* A step of t, of whose own sleep it is shown.
LEMMA DelayStep ==
  ASSUME TypeOK, DelayInv, NEW t \in Thread, NEW r, NEW k, Changes(t, r, k),
         \A i \in (k + 1)..Len(r) : r[i].op = "delay" => InTime(r[i].trigger),
         ticks' = ticks, Clocked', QueuesSound',
         \A x \in Thread \ {t} : Unhurried(x), Eased(t)'
  PROVE  DelayInv'
<1>1. \A x \in Thread \ {t} : stack'[x] = stack[x]
  BY ChangesFacts
<1>2. ticks' \in Nat /\ ticks <= ticks'
  BY MsgBounds DEF TypeOK
<1>3. ASSUME NEW x \in Thread, x # t PROVE Eased(x)'
  <2>1. stack'[x] = stack[x] /\ Unhurried(x)
    BY <1>1, <1>3
  <2>2. Relief(stack[x], 1, signaled_[x], fWait_[x])
          => Relief(stack'[x], 1, signaled_'[x], fWait_'[x])
    BY <2>1 DEF Relief, Unhurried
  <2>3. Eased(x)
    BY DEF DelayInv, AllEased
  <2>4. Resting(stack'[x]) => stack[x] # <<>>
    BY <2>1 DEF Resting
  <2>5. QED
    BY <1>2, <2>1, <2>2, <2>3, <2>4, EasedKept DEF DelayInv
<1>4. AllEased'
  BY <1>3 DEF AllEased
<1>5. FramesSound'
  BY FramesStep DEF DelayInv
<1>6. QED
  BY <1>4, <1>5 DEF DelayInv

\* A step that leaves the first activation's sleep alone.
LEMMA UnhurriedStep ==
  ASSUME TypeOK, DelayInv, NEW t \in Thread, NEW r, NEW k, Changes(t, r, k),
         Keeps(stack[t], r, k, <<>>, signaled_'[t]), k = 0 => ~Resting(r),
         \A i \in (k + 1)..Len(r) : r[i].op = "delay" => InTime(r[i].trigger),
         ticks' = ticks, Clocked', QueuesSound', \A x \in Thread : Unhurried(x)
  PROVE  DelayInv'
<1>1. stack'[t] = r /\ k \in Nat /\ Len(r) \in Nat /\ Len(stack[t]) \in Nat /\ k <= Len(stack[t])
  <2>1. stack'[t] = r /\ k \in Nat /\ Len(r) \in Nat /\ Len(stack[t]) \in Nat
    BY ChangesFacts
  <2>2. k \in 0..Len(stack[t])
    BY DEF Changes
  <2>3. QED
    BY <2>1, <2>2
<1>2. ticks' \in Nat /\ ticks <= ticks'
  BY MsgBounds DEF TypeOK
<1>3. Unhurried(t) /\ Eased(t)
  BY DEF DelayInv, AllEased
<1>4. CASE k = 0
  <2>1. Eased(t)'
    BY <1>1, <1>4 DEF Eased
  <2>2. QED
    BY <2>1, DelayStep
<1>5. CASE k # 0
  <2>1. 1 \in 1..k
    BY <1>1, <1>5
  <2>2. stack[t] # <<>> /\ r[1] = stack[t][1]
    BY <1>1, <2>1 DEF Changes
  <2>3. Relief(stack[t], 1, signaled_[t], fWait_[t]) => Relief(r, 1, signaled_'[t], fWait_[t])
    BY <1>3, <2>1, ReliefKept DEF Unhurried
  <2>4. Relief(stack[t], 1, signaled_[t], fWait_[t])
          => Relief(stack'[t], 1, signaled_'[t], fWait_'[t])
    BY <1>1, <1>3, <2>3 DEF Unhurried
  <2>5. Eased(t)'
    BY <1>1, <1>2, <1>3, <2>2, <2>4, EasedKept DEF DelayInv
  <2>6. QED
    BY <2>5, DelayStep
<1>6. QED
  BY <1>4, <1>5

DelayState == <<dmsgq_, msCurrent, wakeAt, ticks, fWait_>>

LEMMA StateSound ==
  ASSUME DelayInv, UNCHANGED DelayState, \A x \in Thread : signaled_[x] => signaled_'[x]
  PROVE  Clocked' /\ QueuesSound' /\ ticks' = ticks /\ \A x \in Thread : Unhurried(x)
<1>1. UNCHANGED <<dmsgq_, msCurrent, wakeAt, ticks, fWait_>>
  BY DEF DelayState
<1>2. Clocked' /\ QueuesSound'
  BY <1>1 DEF DelayInv, Clocked, QueuesSound, Stamped, Sorted, InTime
<1>3. \A x \in Thread : Unhurried(x)
  BY <1>1 DEF Unhurried
<1>4. QED
  BY <1>1, <1>2, <1>3

LEMMA TopTime ==
  ASSUME SendInv, FramesSound, NEW t \in Thread, Running(t), Top(t).op = "delay"
  PROVE  InTime(Top(t).trigger)
<1>1. Top(t) = stack[t][Len(stack[t])] /\ Len(stack[t]) \in 1..Len(stack[t])
  BY TopFacts
<1>2. QED
  BY <1>1 DEF FramesSound

LEMMA GotoDelay ==
  ASSUME SendInv, DelayInv, NEW t \in Thread, Running(t), NEW at \in Ats,
         Step(t, Goto(stack[t], at)), UNCHANGED DelayState,
         \A x \in Thread : signaled_[x] => signaled_'[x],
         Top(t).op = "get" => at \notin {"stop", "select"}, Top(t).at # "select"
  PROVE  DelayInv'
<1> DEFINE n == Len(stack[t])
<1>1. TypeOK /\ n \in Nat \ {0}
  BY TopFacts DEF SendInv
<1>2. PICK r : r = Goto(stack[t], at)
  OBVIOUS
<1>3. Changes(t, r, n - 1) /\ Len(r) = n /\ r[n].at = at /\ Moved(r[n], Top(t))
  BY <1>1, <1>2, GotoChanges
<1>4. r[n].op = Top(t).op /\ r[n].waited = Top(t).waited /\ r[n].trigger = Top(t).trigger
  BY <1>3 DEF Moved
<1>5. Keeps(stack[t], r, n - 1, <<>>, signaled_'[t])
  <2>1. Gives(Top(t)) => Gives(r[n])
    BY <1>4 DEF Gives
  <2>2. Len(r) >= n
    BY <1>1, <1>3
  <2>3. QED
    BY <1>1, <1>3, <1>4, <2>1, <2>2, KeepsTop
<1>6. r[n].op = "delay" => InTime(r[n].trigger)
  BY <1>4, TopTime DEF DelayInv
<1>7. n - 1 = 0 => ~Resting(r)
  <2>1. n - 1 = 0 => n = 1
    BY <1>1
  <2>2. QED
    BY <1>3, <1>4, <2>1 DEF Resting
<1> DEFINE k == n - 1
<1>8. /\ Changes(t, r, k) /\ Keeps(stack[t], r, k, <<>>, signaled_'[t])
      /\ k = 0 => ~Resting(r)
      /\ \A i \in (k + 1)..Len(r) : r[i].op = "delay" => InTime(r[i].trigger)
  <2>1. \A i \in ((n - 1) + 1)..Len(r) : i = n
    BY <1>1, <1>3
  <2>2. QED
    BY <1>3, <1>5, <1>6, <1>7, <2>1
<1> HIDE DEF k
<1>9. QED
  BY <1>1, <1>8, StateSound, UnhurriedStep

LEMMA PopDelay ==
  ASSUME SendInv, DelayInv, NEW t \in Thread, Running(t), Step(t, Front(stack[t])),
         ticks' = ticks, Clocked', QueuesSound', \A x \in Thread : Unhurried(x),
         ~Gives(Top(t)) \/ signaled_'[t]
  PROVE  DelayInv'
<1> DEFINE k == Len(stack[t]) - 1
<1>1. TypeOK /\ Len(stack[t]) \in Nat \ {0}
  BY TopFacts DEF SendInv
<1>2. PICK r : r = Front(stack[t])
  OBVIOUS
<1>3. Changes(t, r, k) /\ Len(r) = k
  BY <1>1, <1>2, PopChanges
<1>4. Keeps(stack[t], r, k, <<>>, signaled_'[t])
  BY <1>1, <1>3, KeepsPop
<1>5. \A i \in (k + 1)..Len(r) : FALSE
  BY <1>1, <1>3
<1>6. k = 0 => ~Resting(r)
  <2>1. r \in Seq(Frame)
    BY <1>3 DEF Changes
  <2>2. Len(r) = 0 => r = <<>>
    BY <2>1
  <2>3. QED
    BY <1>3, <2>2 DEF Resting
<1> HIDE DEF k
<1>7. QED
  BY <1>1, <1>3, <1>4, <1>5, <1>6, UnhurriedStep

LEMMA PushDelay ==
  ASSUME SendInv, DelayInv, NEW t \in Thread, Running(t), NEW f \in Frame,
         Step(t, Append(stack[t], f)), UNCHANGED <<DelayState, signaled_>>,
         f.op = "delay" => InTime(f.trigger)
  PROVE  DelayInv'
<1> DEFINE k == Len(stack[t])
<1>1. TypeOK /\ k \in Nat \ {0}
  BY TopFacts DEF SendInv
<1>2. PICK r : r = Append(stack[t], f)
  OBVIOUS
<1>3. Changes(t, r, k) /\ Len(r) = k + 1 /\ r[Len(r)] = f
  BY <1>1, <1>2, PushChanges
<1>4. Keeps(stack[t], r, k, <<>>, signaled_'[t])
  BY <1>1, <1>3, KeepsPush
<1>5. \A i \in (k + 1)..Len(r) : r[i] = f
  BY <1>1, <1>3
<1> HIDE DEF k
<1>6. QED
  BY <1>1, <1>3, <1>4, <1>5, StateSound, UnhurriedStep

\* The running activation goes on and calls another.
LEMMA GotoPushDelay ==
  ASSUME SendInv, DelayInv, NEW t \in Thread, Running(t), NEW r,
         Changes(t, r, Len(stack[t]) - 1), Len(r) = Len(stack[t]) + 1,
         r[Len(stack[t])].op = Top(t).op, r[Len(stack[t])].at \notin {"stop", "select"},
         Gives(Top(t)) => Gives(r[Len(stack[t])]),
         Top(t).op # "delay", r[Len(stack[t]) + 1].op # "delay",
         UNCHANGED <<DelayState, signaled_>>
  PROVE  DelayInv'
<1> DEFINE n == Len(stack[t])
<1>1. TypeOK /\ n \in Nat \ {0}
  BY TopFacts DEF SendInv
<1>2. Keeps(stack[t], r, n - 1, <<>>, signaled_'[t])
  <2>1. Len(r) >= n
    BY <1>1
  <2>2. QED
    BY <1>1, <2>1, KeepsTop
<1>3. n - 1 = 0 => ~Resting(r)
  <2>1. n - 1 = 0 => n = 1
    BY <1>1
  <2>2. QED
    BY <2>1 DEF Resting
<1> DEFINE k == n - 1
<1>4. /\ Changes(t, r, k) /\ Keeps(stack[t], r, k, <<>>, signaled_'[t])
      /\ k = 0 => ~Resting(r)
      /\ \A i \in (k + 1)..Len(r) : r[i].op # "delay"
  <2>1. \A i \in ((n - 1) + 1)..Len(r) : i = n \/ i = n + 1
    BY <1>1
  <2>2. QED
    BY <1>2, <1>3, <2>1
<1> HIDE DEF k
<1>5. QED
  BY <1>1, <1>4, StateSound, UnhurriedStep

\* Before the wrap the clock shows the ticks.
LEMMA EarlyTime ==
  ASSUME EarlyClock, TypeOK, NEW d \in Delays \cup {0}
  PROVE  (Time + d) % TimeMod = StartTime + ticks + d /\ InTime((Time + d) % TimeMod) /\ InTime(Time)
<1>1. /\ TimeMod \in Nat \ {0} /\ StartTime \in Nat /\ StartTime < TimeMod
      /\ ticks \in Nat /\ ticks <= MaxTicks /\ MaxTicks \in Nat
  BY TimeAssumption, MsgBounds DEF TypeOK
<1>2. d \in Nat
  BY <1>1, DelaysAssumption
<1>3. StartTime + MaxTicks + d < TimeMod /\ 2 * (MaxTicks + d) < TimeMod
  BY DEF EarlyClock
<1>4. StartTime + ticks \in 0..(TimeMod - 1) /\ StartTime + ticks + d \in 0..(TimeMod - 1)
      /\ 2 * (ticks + d) < TimeMod
  BY <1>1, <1>2, <1>3
<1>5. Time = StartTime + ticks
  BY <1>1, <1>4, ModSmall DEF Time
<1>6. (Time + d) % TimeMod = StartTime + ticks + d
  BY <1>1, <1>2, <1>4, <1>5, ModSmall
<1>7. 2 * ((StartTime + ticks + d) - StartTime) < TimeMod /\ 2 * ((StartTime + ticks) - StartTime) < TimeMod
  BY <1>1, <1>2, <1>4
<1>8. QED
  BY <1>1, <1>2, <1>4, <1>5, <1>6, <1>7 DEF InTime

LEMMA GetEnterDelay ==
  ASSUME EarlyClock, SendInv, DelayInv, NEW t \in Thread, GetEnter(t)
  PROVE  DelayInv'
<1> DEFINE n == Len(stack[t])
<1>1. TypeOK /\ Running(t) /\ Top(t).op = "get" /\ Step(t, Goto(stack[t], "serve"))
  BY AtFacts DEF GetEnter, SendInv
<1>2. n = 1 /\ "serve" \in Ats
  BY <1>1, TopFacts DEF Ats
<1>3. PICK r : r = Goto(stack[t], "serve")
  OBVIOUS
<1>4. Changes(t, r, 0) /\ Len(r) = 1 /\ r[1].at = "serve" /\ Moved(r[1], Top(t))
  <2>1. Changes(t, r, n - 1) /\ Len(r) = n /\ r[n].at = "serve" /\ Moved(r[n], Top(t))
    BY <1>1, <1>2, <1>3, GotoChanges
  <2>2. QED
    BY <1>2, <2>1
<1>5. \A i \in (0 + 1)..Len(r) : r[i].op # "delay"
  <2>1. r[1].op = "get" /\ \A i \in (0 + 1)..Len(r) : i = 1
    BY <1>1, <1>4 DEF Moved
  <2>2. QED
    BY <2>1
<1>6. Eased(t)'
  <2>1. stack'[t] = r
    BY <1>1, <1>4, ChangesFacts
  <2>2. QED
    BY <1>4, <2>1 DEF Eased, Resting
<1>7. UNCHANGED <<dmsgq_, signaled_, fWait_, wakeAt, ticks>>
      /\ msCurrent' = [msCurrent EXCEPT ![t] = Time]
  BY DEF GetEnter, queueVars
<1>8. Clocked'
  <2>1. InTime(Time)
    BY <1>1, EarlyTime
  <2>2. \A x \in Thread : InTime(msCurrent'[x])
    BY <1>1, <1>7, <2>1 DEF DelayInv, Clocked, TypeOK
  <2>3. QED
    BY <2>2 DEF Clocked, InTime
<1>9. QueuesSound'
  BY <1>7 DEF DelayInv, QueuesSound, Stamped, Sorted, InTime
<1>10. \A x \in Thread \ {t} : Unhurried(x)
  BY <1>1, <1>7 DEF Unhurried, TypeOK
<1>11. QED
  BY <1>1, <1>4, <1>5, <1>6, <1>7, <1>8, <1>9, <1>10, DelayStep

LEMMA ReceiveSendsDelay ==
  ASSUME SendInv, DelayInv, NEW t \in Thread, ReceiveSends(t)
  PROVE  DelayInv'
<1> DEFINE n == Len(stack[t])
<1>1. TypeOK /\ Running(t) /\ Top(t).at = "serve"
  BY DEF ReceiveSends, SendInv
<1>2. /\ FrameOK(Top(t), nmsgs) /\ n \in Nat \ {0} /\ Top(t) \in Frame
  BY <1>1, TopFacts
<1>3. Top(t).op \in {"get", "send"}
  BY <1>1, <1>2 DEF FrameOK, Frame
<1>4. PICK at \in Ats : at = IF Top(t).op = "get" THEN "pull" ELSE "wait"
  BY DEF Ats
<1>5. PICK f \in Frame : f = NewFrame("receive", "take", NoMsg, t)
  BY NewFrameType DEF Ats
<1>6. Step(t, IF has_sends_[t] THEN Append(Goto(stack[t], at), f) ELSE Goto(stack[t], at))
  BY <1>4, <1>5 DEF ReceiveSends
<1>7. UNCHANGED <<DelayState, signaled_>>
  BY DEF ReceiveSends, DelayState, queueVars, waitVars
<1>8. CASE has_sends_[t]
  <2>1. PICK r : r = Append(Goto(stack[t], at), f)
    OBVIOUS
  <2>2. GoesAndCalls(t, r, at, f)
    BY <1>6, <1>8, <2>1 DEF GoesAndCalls, Step
  <2>3. /\ Changes(t, r, n - 1) /\ Len(r) = n + 1
        /\ r[n].at = at /\ Moved(r[n], Top(t)) /\ r[n + 1] = f
    BY <1>1, <2>2, GotoPushTo
  <2>4. r[n].op = Top(t).op /\ r[n].waited = Top(t).waited
    BY <2>3 DEF Moved
  <2>5. Gives(Top(t)) => Gives(r[n])
    BY <1>1, <2>4 DEF Gives
  <2>6. f.op # "delay" /\ Top(t).op # "delay" /\ at \notin {"stop", "select"}
    BY <1>3, <1>4, <1>5 DEF NewFrame
  <2>7. QED
    BY <1>1, <1>7, <2>3, <2>4, <2>5, <2>6, GotoPushDelay
<1>9. CASE ~has_sends_[t]
  <2>1. Step(t, Goto(stack[t], at))
    BY <1>6, <1>9
  <2>2. QED
    BY <1>1, <1>4, <1>7, <2>1, GotoDelay
<1>10. QED
  BY <1>8, <1>9

LEMMA ReceiveTakeDelay ==
  ASSUME SendInv, DelayInv, NEW t \in Thread, ReceiveTake(t)
  PROVE  DelayInv'
<1> DEFINE n == Len(stack[t])
<1>1. TypeOK /\ Running(t) /\ Top(t).op = "receive" /\ Top(t).at = "take" /\ At(t, "receive", "take")
  BY AtFacts DEF ReceiveTake, SendInv
<1>2. n \in Nat \ {0}
  BY <1>1, TopFacts
<1>3. UNCHANGED <<DelayState, signaled_>>
  BY DEF ReceiveTake, DelayState, queueVars, waitVars
<1>4. ~Gives(Top(t))
  BY <1>1 DEF Gives
<1>5. CASE sendlist_[t] # <<>>
  <2>1. sendlist_[t] \in Seq(Msgs)
    BY <1>1 DEF TypeOK
  <2>2. PICK m \in Msgs : m = Head(sendlist_[t]) /\ m \in ToSet(sendlist_[t])
    BY <1>5, <2>1, TailFacts
  <2>3. m <= nmsgs
    <3>1. <<"sent", t>> \in Place /\ In(<<"sent", t>>, m)
      BY <2>2 DEF Place, In, Sent
    <3>2. QED
      BY <3>1 DEF SendInv, HeldExists, Held
  <2>4. PICK f \in Frame : f = NewFrame("handle", "run", m, t)
    BY NewFrameType DEF Ats
  <2>5. PICK r : TakesAndCalls(t, r, m, f)
    BY DEF TakesAndCalls
  <2>6. stack' = [stack EXCEPT ![t] = r]
    BY <1>5, <2>2, <2>4, <2>5 DEF ReceiveTake, TakesAndCalls, Call, Step
  <2>7. /\ r \in Seq(Frame) /\ Len(r) = n + 1 /\ r[n + 1] = f
        /\ \A i \in 1..(n - 1) : r[i] = stack[t][i]
        /\ r[n].op = "receive" /\ r[n].at = "done"
    BY <1>1, <2>3, <2>5, TakeFacts
  <2>8. Changes(t, r, n - 1)
    BY <1>2, <2>6, <2>7 DEF Changes
  <2>9. f.op # "delay"
    BY <2>4 DEF NewFrame
  <2>10. QED
    BY <1>1, <1>3, <1>4, <2>7, <2>8, <2>9, GotoPushDelay
<1>6. CASE sendlist_[t] = <<>>
  <2>1. Step(t, Front(stack[t]))
    BY <1>6 DEF ReceiveTake
  <2>2. QED
    BY <1>1, <1>3, <1>4, <2>1, StateSound, PopDelay
<1>7. QED
  BY <1>5, <1>6

LEMMA ReceiveDoneDelay ==
  ASSUME SendInv, DelayInv, NEW t \in Thread, ReceiveDone(t)
  PROVE  DelayInv'
<1>1. Running(t) /\ Top(t).op = "receive" /\ Top(t).at = "done" /\ "take" \in Ats
  BY AtFacts DEF ReceiveDone, Ats
<1>2. UNCHANGED DelayState /\ \A x \in Thread : signaled_[x] => signaled_'[x]
  BY DEF ReceiveDone, Wake, DelayState, queueVars, waitVars
<1>3. Step(t, Goto(stack[t], "take"))
  BY DEF ReceiveDone
<1>4. QED
  BY <1>1, <1>2, <1>3, GotoDelay

LEMMA HandlerReturnsDelay ==
  ASSUME SendInv, DelayInv, NEW t \in Thread, HandlerReturns(t)
  PROVE  DelayInv'
<1>1. Running(t) /\ Top(t).op = "handle" /\ Step(t, Front(stack[t]))
  BY AtFacts DEF HandlerReturns, InHandler
<1>2. UNCHANGED <<DelayState, signaled_>>
  BY DEF HandlerReturns, DelayState, queueVars, waitVars
<1>3. ~Gives(Top(t))
  BY <1>1 DEF Gives
<1>4. QED
  BY <1>1, <1>2, <1>3, StateSound, PopDelay

LEMMA HandlerCallsDelay ==
  ASSUME EarlyClock, SendInv, DelayInv, NEW t \in Thread, NEW op \in {"post", "delay", "send"},
         NEW u \in Thread, NEW d \in Delays \cup {0}, HandlerCalls(t, op, u, d)
  PROVE  DelayInv'
<1> DEFINE f == [NewFrame(op, "check", nmsgs + 1, u) EXCEPT !.trigger = (Time + d) % TimeMod]
<1>1. TypeOK /\ Running(t) /\ Step(t, Append(stack[t], f))
  BY AtFacts DEF HandlerCalls, InHandler, SendInv
<1>2. /\ f \in Frame /\ f.trigger = (Time + d) % TimeMod
  <2>1. nmsgs + 1 \in Msgs
    BY <1>1, MsgBounds DEF HandlerCalls, TypeOK, Msgs
  <2>2. (Time + d) % TimeMod \in 0..(TimeMod - 1)
    <3>1. Time \in Int /\ d \in Int
      BY <1>1, TimeType, TimeAssumption, DelaysAssumption
    <3>2. QED
      BY <1>1, <3>1, TimeType
  <2>3. QED
    BY <2>1, <2>2 DEF NewFrame, Frame
<1>3. InTime(f.trigger)
  BY <1>1, <1>2, EarlyTime
<1> HIDE DEF f
<1>4. UNCHANGED <<DelayState, signaled_>>
  BY DEF HandlerCalls, DelayState, queueVars, waitVars
<1>5. QED
  BY <1>1, <1>2, <1>3, <1>4, PushDelay

LEMMA CheckStopDelay ==
  ASSUME SendInv, WakeInv, DelayInv, NEW t \in Thread, CheckStop(t)
  PROVE  DelayInv'
<1> DEFINE n == Len(stack[t])
<1>1. TypeOK /\ Running(t) /\ Top(t).at = "check"
  BY DEF CheckStop, SendInv
<1>2. PICK m \in Msgs : m = Top(t).msg
  BY <1>1, PendingMsg
<1>3. n \in Nat \ {0} /\ Top(t) = stack[t][n] /\ n \in 1..Len(stack[t]) /\ Caller(Top(t))
  BY <1>1, TopFacts, PendingMsg
<1>4. ~Gives(Top(t))
  <2>1. ~Top(t).waited
    BY <1>1, <1>3 DEF WakeInv, NotWaitedYet
  <2>2. QED
    BY <1>1, <2>1 DEF Gives
<1>5. UNCHANGED <<DelayState, signaled_>>
  BY DEF CheckStop, DelayState, queueVars, waitVars
<1>6. CASE fStop_[Top(t).to]
  <2>1. Step(t, Front(stack[t]))
    BY <1>6 DEF CheckStop
  <2>2. QED
    BY <1>1, <1>4, <1>5, <2>1, StateSound, PopDelay
<1>7. CASE ~fStop_[Top(t).to] /\ Top(t).op = "send" /\ Top(t).to = t
  <2>1. PICK f \in Frame : f = NewFrame("handle", "run", m, t)
    BY NewFrameType DEF Ats
  <2>2. PICK at \in Ats : at = "done"
    BY DEF Ats
  <2>3. PICK r : r = Append(Goto(stack[t], at), f)
    OBVIOUS
  <2>4. GoesAndCalls(t, r, at, f)
    BY <1>2, <1>7, <2>1, <2>2, <2>3 DEF CheckStop, Call, Step, GoesAndCalls
  <2>5. /\ Changes(t, r, n - 1) /\ Len(r) = n + 1
        /\ r[n].at = at /\ Moved(r[n], Top(t)) /\ r[n + 1] = f
    BY <1>1, <2>4, GotoPushTo
  <2>6. r[n].op = Top(t).op /\ f.op # "delay" /\ at \notin {"stop", "select"}
    BY <2>1, <2>2, <2>5 DEF Moved, NewFrame
  <2>7. QED
    BY <1>1, <1>4, <1>5, <1>7, <2>5, <2>6, GotoPushDelay
<1>8. CASE ~fStop_[Top(t).to] /\ ~(Top(t).op = "send" /\ Top(t).to = t)
  <2>1. Step(t, Goto(stack[t], "push")) /\ "push" \in Ats
    BY <1>8 DEF CheckStop, Ats
  <2>2. QED
    BY <1>1, <1>5, <2>1, GotoDelay
<1>9. QED
  BY <1>6, <1>7, <1>8

LEMMA PostDelay ==
  ASSUME SendInv, DelayInv, NEW t \in Thread, Post(t)
  PROVE  DelayInv'
<1>1. Running(t) /\ Top(t).op = "post" /\ Step(t, Front(stack[t]))
  BY AtFacts DEF Post
<1>2. UNCHANGED DelayState /\ \A x \in Thread : signaled_[x] => signaled_'[x]
  BY DEF Post, Wake, DelayState, waitVars
<1>3. ~Gives(Top(t))
  BY <1>1 DEF Gives
<1>4. QED
  BY <1>1, <1>2, <1>3, StateSound, PopDelay

\* The message goes to its place in the queue, and the thread that may sleep for a later one
\* is woken.
LEMMA DoDelayPostDelay ==
  ASSUME SendInv, DelayInv, NEW t \in Thread, DoDelayPost(t)
  PROVE  DelayInv'
<1>1. TypeOK /\ Running(t) /\ Top(t).op = "delay" /\ Top(t).at = "push" /\ Step(t, Front(stack[t]))
      /\ Wake({Top(t).to})
  BY AtFacts DEF DoDelayPost, SendInv
<1>2. Top(t) \in Frame
  BY <1>1, TopFacts
<1>3. PICK u \in Thread : u = Top(t).to
  BY <1>2 DEF Frame
<1>4. PICK d \in DelayedMsg : d = [trigger |-> Top(t).trigger, msg |-> Top(t).msg]
  <2>1. Top(t).msg \in Msgs
    BY <1>1, PendingMsg
  <2>2. Top(t).trigger \in 0..(TimeMod - 1)
    BY <1>2 DEF Frame
  <2>3. QED
    BY <2>1, <2>2 DEF DelayedMsg
<1>5. InTime(d.trigger)
  BY <1>1, <1>4, TopTime DEF DelayInv
<1>6. /\ dmsgq_' = [dmsgq_ EXCEPT ![u] = Insert(dmsgq_[u], d)]
      /\ UNCHANGED <<fWait_, msCurrent, wakeAt, ticks>>
  BY <1>3, <1>4 DEF DoDelayPost, waitVars
<1>7. dmsgq_ \in [Thread -> Seq(DelayedMsg)]
  BY <1>1 DEF TypeOK, DelayedMsg
<1>8. Sorted(Insert(dmsgq_[u], d)) /\ Stamped(Insert(dmsgq_[u], d))
  BY <1>5, <1>7, InsertSorted DEF DelayInv, QueuesSound
<1>9. QueuesSound'
  <2>1. ASSUME NEW x \in Thread PROVE Stamped(dmsgq_'[x]) /\ Sorted(dmsgq_'[x])
    <3>1. CASE x = u
      BY <1>6, <1>7, <1>8, <3>1
    <3>2. CASE x # u
      BY <1>6, <1>7, <3>2 DEF DelayInv, QueuesSound
    <3>3. QED
      BY <3>1, <3>2
  <2>2. QED
    BY <2>1 DEF QueuesSound, Stamped, Sorted, InTime
<1>10. Clocked'
  BY <1>6 DEF DelayInv, Clocked, InTime
<1>11. ASSUME NEW x \in Thread PROVE Unhurried(x)
  <2>1. CASE x = u
    BY <1>1, <1>3, <1>6, <2>1 DEF Unhurried, Wake
  <2>2. CASE x # u
    <3>1. dmsgq_'[x] = dmsgq_[x]
      BY <1>6, <1>7, <2>2
    <3>2. signaled_[x] => signaled_'[x]
      BY <1>1 DEF Wake
    <3>3. QED
      BY <1>6, <3>1, <3>2 DEF Unhurried
  <2>3. QED
    BY <2>1, <2>2
<1>12. ~Gives(Top(t))
  BY <1>1 DEF Gives
<1>13. QED
  BY <1>1, <1>6, <1>9, <1>10, <1>11, <1>12, PopDelay

LEMMA SendPushDelay ==
  ASSUME SendInv, DelayInv, NEW t \in Thread, SendPush(t)
  PROVE  DelayInv'
<1>1. Running(t) /\ Top(t).op = "send" /\ Top(t).at = "push" /\ "wake" \in Ats
      /\ Step(t, Goto(stack[t], "wake"))
  BY AtFacts DEF SendPush, Ats
<1>2. UNCHANGED <<DelayState, signaled_>>
  BY DEF SendPush, DelayState, queueVars, waitVars
<1>3. QED
  BY <1>1, <1>2, GotoDelay

LEMMA SendWakeDelay ==
  ASSUME SendInv, DelayInv, NEW t \in Thread, SendWake(t)
  PROVE  DelayInv'
<1>1. Running(t) /\ Top(t).op = "send" /\ Top(t).at = "wake" /\ "loop" \in Ats
      /\ Step(t, Goto(stack[t], "loop"))
  BY AtFacts DEF SendWake, Ats
<1>2. UNCHANGED DelayState /\ \A x \in Thread : signaled_[x] => signaled_'[x]
  BY DEF SendWake, Wake, DelayState, queueVars, waitVars
<1>3. QED
  BY <1>1, <1>2, GotoDelay

LEMMA SendLoopDelay ==
  ASSUME SendInv, DelayInv, NEW t \in Thread, SendLoop(t)
  PROVE  DelayInv'
<1>1. Running(t) /\ Top(t).op = "send" /\ Top(t).at = "loop" /\ "serve" \in Ats
      /\ Step(t, Goto(stack[t], "serve"))
  BY AtFacts DEF SendLoop, Ats
<1>2. UNCHANGED <<DelayState, signaled_>>
  BY DEF SendLoop, DelayState, queueVars, waitVars
<1>3. QED
  BY <1>1, <1>2, GotoDelay

LEMMA SendReturnsDelay ==
  ASSUME SendInv, DelayInv, NEW t \in Thread, SendReturns(t)
  PROVE  DelayInv'
<1>1. Running(t) /\ Top(t).op = "send" /\ Top(t).at \in {"loop", "done"} /\ Step(t, Front(stack[t]))
  BY AtFacts DEF SendReturns
<1>2. (\A x \in Thread : signaled_[x] => signaled_'[x]) /\ (Top(t).waited => signaled_'[t])
  BY <1>1 DEF SendReturns, Wake
<1>3. UNCHANGED DelayState
  BY DEF SendReturns, DelayState, queueVars, waitVars
<1>4. ~Gives(Top(t)) \/ signaled_'[t]
  BY <1>1, <1>2 DEF Gives
<1>5. QED
  BY <1>1, <1>2, <1>3, <1>4, StateSound, PopDelay

\* What is left in the queue of t is later than the clock, and the first of it bounds the
\* sleep.
LEMMA GetPullDelay ==
  ASSUME SendInv, DelayInv, NEW t \in Thread, GetPull(t)
  PROVE  DelayInv'
<1> DEFINE n == Len(stack[t])
<1>1. TypeOK /\ Running(t) /\ Top(t).op = "get" /\ Top(t).at = "pull"
  BY AtFacts DEF GetPull, SendInv
<1>2. n = 1 /\ Top(t) = stack[t][1]
  BY <1>1, TopFacts
<1>3. UNCHANGED <<signaled_, fWait_, msCurrent, ticks>>
  BY DEF GetPull
<1>4. PICK d \in Seq(DelayedMsg) : d = dmsgq_[t]
  BY <1>1 DEF TypeOK, DelayedMsg
<1>5. PICK k \in 0..Len(d) :
        k = Due(t) /\ \A i \in (k + 1)..Len(d) : msCurrent[t] < d[i].trigger
  BY <1>1, <1>4, DueFacts DEF DelayInv
<1>6. PICK q : q = msgq_[t] \o [i \in 1..k |-> d[i].msg]
  OBVIOUS
<1>7. PICK rest : rest = SubSeq(d, k + 1, Len(d))
  OBVIOUS
<1>8. /\ rest \in Seq(DelayedMsg) /\ Len(rest) = Len(d) - k
      /\ \A i \in 1..Len(rest) : rest[i] = d[k + i] /\ k + i \in (k + 1)..Len(d)
  <2>1. Len(d) \in Nat
    OBVIOUS
  <2>2. QED
    BY <1>5, <1>7, <2>1
<1>9. dmsgq_' = [dmsgq_ EXCEPT ![t] = rest]
  BY <1>4, <1>5, <1>7 DEF GetPull
<1>10. dmsgq_'[t] = rest /\ \A x \in Thread \ {t} : dmsgq_'[x] = dmsgq_[x]
  BY <1>1, <1>9 DEF TypeOK
<1>11. Stamped(d) /\ Sorted(d) /\ InTime(msCurrent[t])
  BY <1>4 DEF DelayInv, QueuesSound, Clocked
<1>12. Stamped(rest) /\ Sorted(rest)
  <2>1. Len(d) \in Nat /\ Len(rest) \in Nat /\ k \in Nat
    BY <1>8
  <2>2. \A i \in 1..Len(rest) : rest[i] = d[k + i] /\ k + i \in 1..Len(d)
    BY <1>8, <2>1
  <2>3. \A i, j \in 1..Len(rest) : i <= j => k + i <= k + j
    BY <2>1
  <2>4. QED
    BY <1>11, <2>2, <2>3 DEF Stamped, Sorted
<1>13. \A x \in Thread : Stamped(dmsgq_'[x]) /\ Sorted(dmsgq_'[x])
  BY <1>10, <1>12 DEF DelayInv, QueuesSound
<1>14. QueuesSound' /\ Clocked'
  BY <1>3, <1>13 DEF QueuesSound, Stamped, Sorted, InTime, DelayInv, Clocked
<1>15. \A x \in Thread \ {t} : wakeAt'[x] = wakeAt[x]
  BY <1>1 DEF GetPull, TypeOK
<1>16. \A x \in Thread \ {t} : Unhurried(x)
  BY <1>3, <1>10, <1>15 DEF Unhurried
<1>17. CASE q # <<>>
  <2>1. PICK at \in Ats : at = "enter"
    BY DEF Ats
  <2>2. PICK f \in Frame : f = NewFrame("handle", "run", Head(q), t)
    <3>1. q \in Seq(Msgs)
      <4>1. msgq_[t] \in Seq(Msgs)
        BY <1>1 DEF TypeOK
      <4>2. QED
        BY <1>6, <4>1, PullFacts
    <3>2. Head(q) \in Msgs
      BY <1>17, <3>1, TailFacts
    <3>3. QED
      BY <3>2, NewFrameType DEF Ats
  <2>3. PICK r : r = Append(Goto(stack[t], at), f)
    OBVIOUS
  <2>4. GoesAndCalls(t, r, at, f)
    BY <1>4, <1>5, <1>6, <1>17, <2>1, <2>2, <2>3 DEF GetPull, Call, Step, GoesAndCalls
  <2>5. /\ Changes(t, r, 0) /\ Len(r) = 2
        /\ r[1].at = at /\ Moved(r[1], Top(t)) /\ r[2] = f
    <3>1. /\ Changes(t, r, n - 1) /\ Len(r) = n + 1
          /\ r[n].at = at /\ Moved(r[n], Top(t)) /\ r[n + 1] = f
      BY <1>1, <2>4, GotoPushTo
    <3>2. QED
      BY <1>2, <3>1
  <2>6. stack'[t] = r
    BY <1>1, <2>5, ChangesFacts
  <2>7. Eased(t)'
    BY <2>1, <2>5, <2>6 DEF Eased, Resting
  <2>8. r[1].op # "delay" /\ r[2].op # "delay"
    BY <1>1, <2>2, <2>5 DEF Moved, NewFrame
  <2>9. \A i \in (0 + 1)..Len(r) : i = 1 \/ i = 2
    BY <2>5
  <2>10. QED
    BY <1>1, <1>3, <1>14, <1>16, <2>5, <2>7, <2>8, <2>9, DelayStep
<1>18. CASE q = <<>>
  <2>1. PICK at \in Ats : at = "stop"
    BY DEF Ats
  <2>2. PICK r : r = Goto(stack[t], at)
    OBVIOUS
  <2>3. /\ Step(t, Goto(stack[t], at))
        /\ wakeAt' = [wakeAt EXCEPT ![t] = IF rest = <<>> THEN Never
                                           ELSE (rest[1].trigger - msCurrent[t]) % TimeMod]
    BY <1>4, <1>5, <1>6, <1>7, <1>18, <2>1 DEF GetPull
  <2>4. Changes(t, r, 0) /\ Len(r) = 1 /\ r[1].at = "stop" /\ Moved(r[1], Top(t))
    <3>1. Changes(t, r, n - 1) /\ Len(r) = n /\ r[n].at = at /\ Moved(r[n], Top(t))
      BY <1>1, <2>2, <2>3, GotoChanges
    <3>2. QED
      BY <1>2, <2>1, <3>1
  <2>5. stack'[t] = r
    BY <1>1, <2>4, ChangesFacts
  <2>6. ASSUME NEW i \in 1..Len(rest)
        PROVE  /\ msCurrent[t] < rest[i].trigger /\ wakeAt'[t] >= 0
               /\ wakeAt'[t] <= rest[i].trigger - msCurrent[t]
    <3>1. Len(rest) \in Nat /\ 1 \in 1..Len(rest) /\ rest # <<>>
      BY <1>8
    <3>2. msCurrent[t] < rest[1].trigger /\ msCurrent[t] < rest[i].trigger
      BY <1>5, <1>8, <3>1
    <3>3. InTime(rest[1].trigger) /\ InTime(rest[i].trigger) /\ rest[1].trigger <= rest[i].trigger
      BY <1>12, <3>1 DEF Stamped, Sorted
    <3>4. msCurrent[t] \in Nat /\ rest[1].trigger \in Nat /\ rest[i].trigger \in Nat
      BY <1>11, <3>3 DEF InTime
    <3>5. (rest[1].trigger - msCurrent[t]) % TimeMod = rest[1].trigger - msCurrent[t]
      BY <1>11, <3>2, <3>3, <3>4, LaterFacts
    <3>6. wakeAt'[t] = rest[1].trigger - msCurrent[t]
      BY <1>1, <2>3, <3>1, <3>5 DEF TypeOK
    <3>7. QED
      BY <3>2, <3>3, <3>4, <3>6
  <2>7. Rested(t)'
    BY <1>3, <1>10, <2>4, <2>5, <2>6 DEF Rested
  <2>8. Eased(t)'
    BY <2>7 DEF Eased
  <2>9. \A i \in (0 + 1)..Len(r) : r[i].op # "delay"
    <3>1. r[1].op = "get" /\ \A i \in (0 + 1)..Len(r) : i = 1
      BY <1>1, <2>4 DEF Moved
    <3>2. QED
      BY <3>1
  <2>10. QED
    BY <1>1, <1>3, <1>14, <1>16, <2>4, <2>8, <2>9, DelayStep
<1>19. QED
  BY <1>17, <1>18

\* The duration becomes the tick at which the select ends.
LEMMA GetStopDelay ==
  ASSUME SendInv, DelayInv, NEW t \in Thread, GetStop(t)
  PROVE  DelayInv'
<1> DEFINE n == Len(stack[t])
<1>1. TypeOK /\ Running(t) /\ Top(t).op = "get" /\ Top(t).at = "stop"
  BY AtFacts DEF GetStop, SendInv
<1>2. n = 1 /\ Top(t) = stack[t][1]
  BY <1>1, TopFacts
<1>3. UNCHANGED <<dmsgq_, signaled_, msCurrent, ticks>>
  BY DEF GetStop, queueVars
<1>4. Clocked' /\ QueuesSound'
  BY <1>3 DEF DelayInv, Clocked, QueuesSound, Stamped, Sorted, InTime
<1>5. \A x \in Thread \ {t} : fWait_'[x] = fWait_[x] /\ wakeAt'[x] = wakeAt[x]
  BY <1>1 DEF GetStop, TypeOK
<1>6. \A x \in Thread \ {t} : Unhurried(x)
  BY <1>3, <1>5 DEF Unhurried
<1>7. CASE Step(t, <<>>)
  <2>1. PICK r : r = <<>>
    OBVIOUS
  <2>2. Changes(t, r, 0) /\ stack'[t] = r
    BY <1>1, <1>2, <1>7, <2>1 DEF Step, Changes, TypeOK
  <2>3. \A i \in (0 + 1)..Len(r) : FALSE
    BY <2>1
  <2>4. Eased(t)'
    BY <2>1, <2>2 DEF Eased, Resting
  <2>5. QED
    BY <1>1, <1>3, <1>4, <1>6, <2>2, <2>3, <2>4, DelayStep
<1>8. CASE /\ Step(t, Goto(stack[t], "select"))
           /\ wakeAt' = [wakeAt EXCEPT ![t] = IF @ = Never THEN @ ELSE ticks + @]
  <2>1. PICK r : r = Goto(stack[t], "select")
    OBVIOUS
  <2>2. "select" \in Ats
    BY DEF Ats
  <2>3. Changes(t, r, 0) /\ Len(r) = 1 /\ r[1].at = "select" /\ Moved(r[1], Top(t))
    <3>1. Changes(t, r, n - 1) /\ Len(r) = n /\ r[n].at = "select" /\ Moved(r[n], Top(t))
      BY <1>1, <1>8, <2>1, <2>2, GotoChanges
    <3>2. QED
      BY <1>2, <3>1
  <2>4. stack'[t] = r
    BY <1>1, <2>3, ChangesFacts
  <2>5. signaled_[t] \/ Rested(t)
    <3>1. Resting(stack[t])
      BY <1>1, <1>2 DEF Resting, Running
    <3>2. \A j \in (1 + 1)..Len(stack[t]) : FALSE
      BY <1>2
    <3>3. ~Relief(stack[t], 1, signaled_[t], fWait_[t]) \/ signaled_[t]
      BY <1>1, <1>2, <3>2 DEF Relief
    <3>4. QED
      BY <3>1, <3>3 DEF DelayInv, AllEased, Eased
  <2>6. ASSUME signaled_[t] PROVE Eased(t)'
    BY <1>3, <2>6 DEF Eased, Relief
  <2>7. ASSUME Rested(t) PROVE Eased(t)'
    <3>1. ASSUME NEW i \in 1..Len(dmsgq_[t])
          PROVE  /\ msCurrent[t] < dmsgq_[t][i].trigger /\ wakeAt'[t] >= 0
                 /\ wakeAt'[t] - ticks <= dmsgq_[t][i].trigger - msCurrent[t]
      <4>1. /\ msCurrent[t] < dmsgq_[t][i].trigger /\ wakeAt[t] >= 0
            /\ wakeAt[t] <= dmsgq_[t][i].trigger - msCurrent[t]
        BY <1>1, <1>2, <2>7 DEF Rested
      <4>2. wakeAt[t] \in Int /\ ticks \in Nat
        BY <1>1, MsgBounds DEF TypeOK
      <4>3. wakeAt'[t] = ticks + wakeAt[t]
        BY <1>1, <1>8, <4>1, <4>2 DEF TypeOK, Never
      <4>4. wakeAt'[t] - ticks = wakeAt[t] /\ wakeAt'[t] >= 0
        BY <4>1, <4>2, <4>3
      <4>5. QED
        BY <4>1, <4>4
    <3>2. Rested(t)'
      BY <1>3, <2>3, <2>4, <3>1 DEF Rested
    <3>3. QED
      BY <3>2 DEF Eased
  <2>8. Eased(t)'
    BY <2>5, <2>6, <2>7
  <2>9. \A i \in (0 + 1)..Len(r) : r[i].op # "delay"
    <3>1. r[1].op = "get" /\ \A i \in (0 + 1)..Len(r) : i = 1
      BY <1>1, <2>3 DEF Moved
    <3>2. QED
      BY <3>1
  <2>10. QED
    BY <1>1, <1>3, <1>4, <1>6, <2>3, <2>8, <2>9, DelayStep
<1>9. QED
  BY <1>7, <1>8 DEF GetStop

LEMMA FirstBelow ==
  ASSUME NEW n \in Nat \ {0}, n # 1
  PROVE  1 \in 1..(n - 1) /\ n <= n
OBVIOUS

LEMMA SendWaitDelay ==
  ASSUME SendInv, DelayInv, NEW t \in Thread, SendWait(t)
  PROVE  DelayInv'
<1> DEFINE n == Len(stack[t])
<1>1. TypeOK /\ Running(t) /\ Top(t).op = "send" /\ Top(t).at = "wait"
  BY AtFacts DEF SendWait, SendInv
<1>2. n \in Nat \ {0}
  BY <1>1, TopFacts
<1>3. UNCHANGED <<dmsgq_, signaled_, msCurrent, wakeAt, ticks>>
  BY DEF SendWait, queueVars
<1>4. Clocked' /\ QueuesSound'
  BY <1>3 DEF DelayInv, Clocked, QueuesSound, Stamped, Sorted, InTime
<1>5. \A x \in Thread \ {t} : fWait_'[x] = fWait_[x]
  BY <1>1 DEF SendWait, TypeOK
<1>6. \A x \in Thread \ {t} : Unhurried(x)
  BY <1>3, <1>5 DEF Unhurried
<1>7. PICK at \in Ats : at = "select"
  BY DEF Ats
<1>8. PICK r : r = Goto(stack[t], at)
  OBVIOUS
<1>9. Changes(t, r, n - 1) /\ Len(r) = n /\ r[n].at = "select" /\ Moved(r[n], Top(t))
  BY <1>1, <1>7, <1>8, GotoChanges DEF SendWait
<1>10. r[n].op = "send" /\ Gives(r[n])
  BY <1>1, <1>9 DEF Moved, Gives
<1>11. Eased(t)'
  <2>1. stack'[t] = r
    BY <1>1, <1>9, ChangesFacts
  <2>2. CASE n = 1
    BY <1>10, <2>1, <2>2 DEF Eased, Resting
  <2>3. CASE n # 1
    <3>1. 1 \in 1..(n - 1) /\ n <= Len(r) /\ Len(r) \in Nat
      BY <1>2, <1>9, <2>3, FirstBelow
    <3>2. Relief(r, 1, signaled_'[t], fWait_'[t])
      BY <1>2, <1>10, <3>1, GivenBack
    <3>3. QED
      BY <2>1, <3>2 DEF Eased
  <2>4. QED
    BY <2>2, <2>3
<1> DEFINE k == n - 1
<1>12. Changes(t, r, k) /\ \A i \in (k + 1)..Len(r) : r[i].op # "delay"
  <2>1. \A i \in ((n - 1) + 1)..Len(r) : i = n
    BY <1>2, <1>9
  <2>2. QED
    BY <1>9, <1>10, <2>1
<1> HIDE DEF k
<1>13. QED
  BY <1>1, <1>3, <1>4, <1>6, <1>11, <1>12, DelayStep

\* Back from Wait: a Get reads the clock again, a Send gives back the wake-up it has used.
LEMMA AfterWaitDelay ==
  ASSUME SendInv, DelayInv, NEW t \in Thread, InSelect(t), Step(t, AfterWait(stack[t])),
         UNCHANGED <<dmsgq_, msCurrent, wakeAt, ticks>>,
         \A x \in Thread \ {t} : signaled_'[x] = signaled_[x] /\ fWait_'[x] = fWait_[x]
  PROVE  DelayInv'
<1> DEFINE n == Len(stack[t])
<1>1. TypeOK /\ Running(t) /\ Top(t).at = "select"
  BY DEF SendInv, InSelect
<1>2. /\ FrameOK(Top(t), nmsgs) /\ (Top(t).op = "get" => n = 1)
      /\ n \in Nat \ {0} /\ Top(t) \in Frame
  BY <1>1, TopFacts
<1>3. Top(t).op \in {"get", "send"}
  BY <1>1, <1>2 DEF FrameOK, Frame
<1>4. PICK r : r = AfterWait(stack[t])
  OBVIOUS
<1>5. /\ r \in Seq(Frame) /\ Len(r) = n /\ \A i \in 1..(n - 1) : r[i] = stack[t][i]
      /\ r[n].at \in {"enter", "loop"} /\ r[n].op = Top(t).op
      /\ r[n].op = "send" => r[n].waited
  BY <1>4, AfterWaitFacts
<1>6. Changes(t, r, n - 1)
  BY <1>2, <1>4, <1>5 DEF Step, Changes
<1>7. Eased(t)'
  <2>1. stack'[t] = r
    BY <1>1, <1>6, ChangesFacts
  <2>2. CASE n = 1
    BY <1>5, <2>1, <2>2 DEF Eased, Resting
  <2>3. CASE n # 1
    <3>1. 1 \in 1..(n - 1) /\ n <= Len(r) /\ Len(r) \in Nat
      BY <1>2, <1>5, <2>3, FirstBelow
    <3>2. Gives(r[n])
      BY <1>2, <1>3, <1>5, <2>3 DEF Gives
    <3>3. Relief(r, 1, signaled_'[t], fWait_'[t])
      BY <1>2, <3>1, <3>2, GivenBack
    <3>4. QED
      BY <2>1, <3>3 DEF Eased
  <2>4. QED
    BY <2>2, <2>3
<1>8. \A x \in Thread \ {t} : Unhurried(x)
  BY DEF Unhurried
<1>9. Clocked' /\ QueuesSound'
  BY DEF DelayInv, Clocked, QueuesSound, Stamped, Sorted, InTime
<1> DEFINE k == n - 1
<1>10. Changes(t, r, k) /\ \A i \in (k + 1)..Len(r) : r[i].op # "delay"
  <2>1. \A i \in ((n - 1) + 1)..Len(r) : i = n
    BY <1>2, <1>5
  <2>2. QED
    BY <1>3, <1>5, <1>6, <2>1
<1> HIDE DEF k
<1>11. QED
  BY <1>1, <1>7, <1>8, <1>9, <1>10, DelayStep

LEMMA WaitWokenDelay ==
  ASSUME SendInv, DelayInv, NEW t \in Thread, WaitWoken(t)
  PROVE  DelayInv'
<1>1. TypeOK
  BY DEF SendInv
<1>2. \A x \in Thread \ {t} : signaled_'[x] = signaled_[x] /\ fWait_'[x] = fWait_[x]
  BY <1>1 DEF WaitWoken, TypeOK
<1>3. UNCHANGED <<dmsgq_, msCurrent, wakeAt, ticks>> /\ InSelect(t) /\ Step(t, AfterWait(stack[t]))
  BY DEF WaitWoken, queueVars
<1>4. QED
  BY <1>2, <1>3, AfterWaitDelay

LEMMA WaitTimeoutDelay ==
  ASSUME SendInv, DelayInv, NEW t \in Thread, WaitTimeout(t)
  PROVE  DelayInv'
<1>1. UNCHANGED <<dmsgq_, msCurrent, wakeAt, ticks, signaled_, fWait_>> /\ InSelect(t)
      /\ Step(t, AfterWait(stack[t]))
  BY DEF WaitTimeout, queueVars, waitVars
<1>2. QED
  BY <1>1, AfterWaitDelay

\* A socket's handler runs inside Wait: the signal it finds there ends the wait that follows.
LEMMA WaitIoDelay ==
  ASSUME SendInv, DelayInv, NEW t \in Thread, WaitIo(t)
  PROVE  DelayInv'
<1> DEFINE n == Len(stack[t])
<1>1. TypeOK /\ Running(t) /\ Top(t).at = "select" /\ fWait_[t]
  BY DEF SendInv, InSelect, WaitIo
<1>2. /\ FrameOK(Top(t), nmsgs) /\ (Top(t).op = "get" => n = 1)
      /\ n \in Nat \ {0} /\ Top(t) \in Frame /\ Top(t) = stack[t][n] /\ n \in 1..n
  BY <1>1, TopFacts
<1>3. Top(t).op \in {"get", "send"}
  BY <1>1, <1>2 DEF FrameOK, Frame
<1>4. PICK f \in Frame : f = NewFrame("handle", "run", NoMsg, t)
  BY NewFrameType DEF Ats
<1>5. PICK r : r = Append(stack[t], f)
  OBVIOUS
<1>6. Changes(t, r, n) /\ Len(r) = n + 1 /\ r[n + 1] = f
  BY <1>1, <1>4, <1>5, PushChanges DEF WaitIo, Call
<1>7. r[n] = Top(t) /\ stack'[t] = r
  BY <1>1, <1>2, <1>6, ChangesFacts
<1>8. UNCHANGED <<dmsgq_, msCurrent, wakeAt, ticks>>
  BY DEF WaitIo, queueVars
<1>9. /\ \A x \in Thread \ {t} : signaled_'[x] = signaled_[x] /\ fWait_'[x] = fWait_[x]
      /\ signaled_[t] => ~fWait_'[t]
  BY <1>1 DEF WaitIo, TypeOK
<1>10. \A x \in Thread \ {t} : Unhurried(x)
  BY <1>8, <1>9 DEF Unhurried
<1>11. Clocked' /\ QueuesSound'
  BY <1>8 DEF DelayInv, Clocked, QueuesSound, Stamped, Sorted, InTime
<1>12. ASSUME n # 1 PROVE Eased(t)'
  <2>1. 1 \in 1..(n - 1) /\ n <= Len(r) /\ Len(r) \in Nat
    <3>1. 1 \in 1..(n - 1) /\ n \in Nat
      BY <1>2, <1>12, FirstBelow
    <3>2. QED
      BY <1>6, <3>1
  <2>2. Gives(r[n])
    BY <1>1, <1>2, <1>3, <1>7, <1>12 DEF Gives
  <2>3. Relief(r, 1, signaled_'[t], fWait_'[t])
    BY <1>2, <2>1, <2>2, GivenBack
  <2>4. QED
    BY <1>7, <2>3 DEF Eased
<1>13. ASSUME n = 1 PROVE Eased(t)'
  <2>1. SUFFICES ASSUME Resting(stack'[t]) PROVE Eased(t)'
    BY DEF Eased
  <2>2. r[1] = stack[t][1] /\ Resting(stack[t])
    BY <1>1, <1>2, <1>7, <1>13, <2>1 DEF Resting, Running
  <2>3. CASE signaled_[t]
    <3>1. r[1].at = "select" /\ ~fWait_'[t]
      BY <1>1, <1>7, <1>9, <1>13, <2>3
    <3>2. QED
      BY <1>7, <3>1 DEF Eased, Relief
  <2>4. CASE ~signaled_[t]
    <3>1. \A j \in (1 + 1)..Len(stack[t]) : FALSE
      BY <1>13
    <3>2. ~Relief(stack[t], 1, signaled_[t], fWait_[t])
      BY <1>1, <2>4, <3>1 DEF Relief
    <3>3. Rested(t)
      BY <2>2, <3>2 DEF DelayInv, AllEased, Eased
    <3>4. Rested(t)'
      BY <1>7, <1>8, <2>2, <3>3 DEF Rested
    <3>5. QED
      BY <3>4 DEF Eased
  <2>5. QED
    BY <2>3, <2>4
<1>14. \A i \in (n + 1)..Len(r) : r[i].op # "delay"
  <2>1. \A i \in (n + 1)..Len(r) : i = n + 1
    BY <1>2, <1>6
  <2>2. f.op # "delay"
    BY <1>4 DEF NewFrame
  <2>3. QED
    BY <1>6, <2>1, <2>2
<1>15. Eased(t)'
  BY <1>12, <1>13
<1> HIDE DEF n
<1>16. QED
  BY <1>1, <1>6, <1>8, <1>10, <1>11, <1>14, <1>15, DelayStep

\* No stack moves.
LEMMA StillDelay ==
  ASSUME TypeOK, DelayInv, UNCHANGED stack, ticks' \in Nat, ticks <= ticks', Clocked',
         QueuesSound', \A x \in Thread : Unhurried(x)
  PROVE  DelayInv'
<1>1. ASSUME NEW x \in Thread PROVE Eased(x)'
  <2>1. stack'[x] = stack[x] /\ Unhurried(x) /\ Eased(x)
    BY DEF DelayInv, AllEased
  <2>2. Relief(stack[x], 1, signaled_[x], fWait_[x])
          => Relief(stack'[x], 1, signaled_'[x], fWait_'[x])
    BY <2>1 DEF Relief, Unhurried
  <2>3. Resting(stack'[x]) => stack[x] # <<>>
    BY <2>1 DEF Resting
  <2>4. QED
    BY <2>1, <2>2, <2>3, EasedKept DEF DelayInv
<1>2. AllEased'
  BY <1>1 DEF AllEased
<1>3. FramesSound'
  BY DEF DelayInv, FramesSound, InTime
<1>4. QED
  BY <1>2, <1>3 DEF DelayInv

LEMMA ClearDelay ==
  ASSUME SendInv, DelayInv, NEW t \in Thread, NEW u \in Thread, NEW S, Clear(t, u, S)
  PROVE  DelayInv'
<1>1. TypeOK /\ UNCHANGED <<stack, fWait_, msCurrent, wakeAt, ticks>>
  BY DEF SendInv, Clear, waitVars
<1>2. dmsgq_ \in [Thread -> Seq(DelayedMsg)] /\ ticks \in Nat
  <2>1. dmsgq_ \in [Thread -> Seq(DelayedMsg)] /\ ticks \in 0..MaxTicks
    BY <1>1 DEF TypeOK, DelayedMsg
  <2>2. QED
    BY <2>1, MsgBounds
<1>3. dmsgq_' = [dmsgq_ EXCEPT ![u] = WithoutDelayed(dmsgq_[u], S)]
  BY DEF Clear
<1>4. PICK d \in Seq(DelayedMsg) : d = dmsgq_[u] /\ Sorted(d) /\ Stamped(d)
  BY <1>2 DEF DelayInv, QueuesSound
<1>5. /\ Sorted(WithoutDelayed(d, S)) /\ Stamped(WithoutDelayed(d, S))
      /\ \A k \in 1..Len(WithoutDelayed(d, S)) : \E i \in 1..Len(d) : WithoutDelayed(d, S)[k] = d[i]
  BY <1>4, WithoutDelayedSorted, WithoutDelayedFacts
<1>6. dmsgq_'[u] = WithoutDelayed(d, S) /\ \A x \in Thread \ {u} : dmsgq_'[x] = dmsgq_[x]
  BY <1>2, <1>3, <1>4
<1>7. \A x \in Thread : Stamped(dmsgq_'[x]) /\ Sorted(dmsgq_'[x])
  BY <1>5, <1>6 DEF DelayInv, QueuesSound
<1>8. QueuesSound' /\ Clocked'
  BY <1>1, <1>7 DEF QueuesSound, Stamped, Sorted, InTime, DelayInv, Clocked
<1>9. ASSUME NEW x \in Thread PROVE Unhurried(x)
  <2>1. signaled_[x] => signaled_'[x]
    BY DEF Clear, Wake
  <2>2. \A i \in 1..Len(dmsgq_'[x]) : \E j \in 1..Len(dmsgq_[x]) : dmsgq_'[x][i] = dmsgq_[x][j]
    <3>1. CASE x = u
      BY <1>4, <1>5, <1>6, <3>1
    <3>2. CASE x # u
      BY <1>6, <3>2
    <3>3. QED
      BY <3>1, <3>2
  <2>3. QED
    BY <1>1, <2>1, <2>2 DEF Unhurried
<1>10. ticks' \in Nat /\ ticks <= ticks'
  BY <1>1, <1>2
<1>11. QED
  BY <1>1, <1>8, <1>9, <1>10, StillDelay

\* Time passes, or signals are added.
LEMMA OutsideDelay ==
  ASSUME SendInv, DelayInv, UNCHANGED <<dmsgq_, waitVars, stack>>, ticks' \in {ticks, ticks + 1},
         \A x \in Thread : signaled_[x] => signaled_'[x]
  PROVE  DelayInv'
<1>1. TypeOK /\ ticks \in Nat
  <2>1. TypeOK
    BY DEF SendInv
  <2>2. ticks \in 0..MaxTicks
    BY <2>1 DEF TypeOK
  <2>3. QED
    BY <2>1, <2>2, MsgBounds
<1>2. UNCHANGED <<dmsgq_, msCurrent, wakeAt, fWait_, stack>>
  BY DEF waitVars
<1>3. Clocked' /\ QueuesSound'
  BY <1>2 DEF DelayInv, Clocked, QueuesSound, Stamped, Sorted, InTime
<1>4. \A x \in Thread : Unhurried(x)
  BY <1>2 DEF Unhurried
<1>5. ticks' \in Nat /\ ticks <= ticks'
  BY <1>1
<1>6. QED
  BY <1>1, <1>2, <1>3, <1>4, <1>5, StillDelay

LEMMA RunsDelay ==
  ASSUME EarlyClock, SendInv, WakeInv, DelayInv, NEW t \in Thread, Runs(t)
  PROVE  DelayInv'
BY GetEnterDelay, ReceiveSendsDelay, GetPullDelay, GetStopDelay, ReceiveTakeDelay,
   ReceiveDoneDelay, WaitWokenDelay, WaitTimeoutDelay, HandlerReturnsDelay, CheckStopDelay,
   PostDelay, DoDelayPostDelay, SendPushDelay, SendWakeDelay, SendLoopDelay, SendWaitDelay,
   SendReturnsDelay
   DEF Runs

LEMMA HandlerActsDelay ==
  ASSUME EarlyClock, SendInv, DelayInv, NEW t \in Thread, HandlerActs(t) \/ HandlerClears(t)
  PROVE  DelayInv'
<1>1. CASE HandlerActs(t)
  <2>1. PICK op \in Ops \ {"clear"}, u \in Thread, d \in Delays \cup {0} : HandlerCalls(t, op, u, d)
    BY <1>1 DEF HandlerActs
  <2>2. op \in {"post", "delay", "send"}
    BY OpsAssumption
  <2>3. QED
    BY <2>1, <2>2, HandlerCallsDelay
<1>2. CASE HandlerClears(t)
  <2>1. PICK u \in Thread : \E S \in SUBSET Queued(u) : Clear(t, u, S)
    BY <1>2 DEF HandlerClears
  <2>2. PICK S \in SUBSET Queued(u) : Clear(t, u, S)
    BY <2>1
  <2>3. QED
    BY <2>2, ClearDelay
<1>3. QED
  BY <1>1, <1>2

LEMMA NextDelay ==
  ASSUME EarlyClock, SendInv, WakeInv, DelayInv, [Next]_vars
  PROVE  DelayInv'
<1>1. CASE UNCHANGED vars
  <2>1. UNCHANGED <<dmsgq_, waitVars, stack, ticks, signaled_>>
    BY <1>1 DEF vars, queueVars
  <2>2. QED
    BY <2>1, OutsideDelay
<1>2. ASSUME NEW t \in Thread, Runs(t) PROVE DelayInv'
  BY <1>2, RunsDelay
<1>3. ASSUME NEW t \in Thread, WaitIo(t) PROVE DelayInv'
  BY <1>3, WaitIoDelay
<1>4. ASSUME NEW t \in Thread, HandlerActs(t) \/ HandlerClears(t) PROVE DelayInv'
  BY <1>4, HandlerActsDelay
<1>5. CASE Tick
  BY <1>5, OutsideDelay DEF Tick, queueVars
<1>6. ASSUME NEW t \in Quits, Quit(t) PROVE DelayInv'
  <2>1. UNCHANGED <<dmsgq_, waitVars, stack, ticks>>
    BY <1>6 DEF Quit, queueVars
  <2>2. \A x \in Thread : signaled_[x] => signaled_'[x]
    BY <1>6 DEF Quit, Wake
  <2>3. QED
    BY <2>1, <2>2, OutsideDelay
<1>7. QED
  BY <1>1, <1>2, <1>3, <1>4, <1>5, <1>6 DEF Next

LEMMA InitDelay ==
  ASSUME EarlyClock, Init
  PROVE  DelayInv
<1>1. ASSUME NEW t \in Thread
      PROVE  Len(stack[t]) = 1 /\ stack[t][1].op = "get" /\ stack[t][1].at = "enter"
  <2>1. PICK f : f = NewFrame("get", "enter", NoMsg, t)
    OBVIOUS
  <2>2. f.op = "get" /\ f.at = "enter"
    BY <2>1 DEF NewFrame
  <2>3. stack[t] = <<f>>
    BY <2>1 DEF Init
  <2>4. QED
    BY <2>2, <2>3
<1>2. AllEased
  BY <1>1 DEF AllEased, Eased, Resting
<1>3. FramesSound
  <2>1. ASSUME NEW t \in Thread, NEW i \in 1..Len(stack[t]) PROVE stack[t][i].op # "delay"
    <3>1. Len(stack[t]) = 1 /\ stack[t][1].op = "get"
      BY <1>1
    <3>2. i = 1
      BY <3>1
    <3>3. QED
      BY <3>1, <3>2
  <2>2. QED
    BY <2>1 DEF FramesSound
<1>4. QueuesSound
  BY DEF Init, QueuesSound, Stamped, Sorted
<1>5. Clocked
  <2>1. \A t \in Thread : msCurrent[t] = StartTime
    BY DEF Init
  <2>2. InTime(StartTime)
    BY TimeAssumption DEF InTime
  <2>3. QED
    BY <2>1, <2>2 DEF Clocked
<1>6. QED
  BY <1>2, <1>3, <1>4, <1>5 DEF DelayInv

\* MessageQueue::Get, DoDelayPost and NetworkService::Wait, as long as the 32-bit clock does
\* not wrap: a thread that sleeps in Get has no delayed message that was due when it looked,
\* and sleeps no longer than until the first of them is; also when a message is posted while
\* it sleeps, and when socket handlers and sends are nested in the sleep.
THEOREM SpecDelayedNotForgotten ==
  ASSUME EarlyClock
  PROVE  Spec => []DelayedNotForgotten
<1>1. Init => DelayInv
  BY InitDelay
<1>2. SendInv /\ WakeInv /\ DelayInv /\ [Next]_vars => DelayInv'
  BY NextDelay
<1>3. SendInv /\ DelayInv => DelayedNotForgotten
  <2>1. SUFFICES ASSUME SendInv, DelayInv, NEW t \in Thread, Asleep(t), Top(t).op = "get",
                        NEW i \in 1..Len(dmsgq_[t])
                 PROVE  /\ TimeIsLater(msCurrent[t], dmsgq_[t][i].trigger)
                        /\ wakeAt[t] # Never
                        /\ wakeAt[t] - ticks <= (dmsgq_[t][i].trigger - msCurrent[t]) % TimeMod
    BY DEF DelayedNotForgotten
  <2>2. Running(t) /\ Top(t).at = "select" /\ fWait_[t] /\ ~signaled_[t]
    BY <2>1 DEF Asleep, InSelect
  <2>3. Len(stack[t]) = 1 /\ Top(t) = stack[t][1]
    BY <2>1, <2>2, TopFacts
  <2>4. Resting(stack[t])
    BY <2>1, <2>2, <2>3 DEF Resting, Running
  <2>5. \A j \in (1 + 1)..Len(stack[t]) : FALSE
    BY <2>3
  <2>6. ~Relief(stack[t], 1, signaled_[t], fWait_[t])
    BY <2>2, <2>5 DEF Relief
  <2>7. Rested(t)
    BY <2>1, <2>4, <2>6 DEF DelayInv, AllEased, Eased
  <2>8. /\ msCurrent[t] < dmsgq_[t][i].trigger /\ wakeAt[t] >= 0
        /\ wakeAt[t] - ticks <= dmsgq_[t][i].trigger - msCurrent[t]
    BY <2>2, <2>3, <2>7 DEF Rested
  <2>9. InTime(msCurrent[t]) /\ InTime(dmsgq_[t][i].trigger)
    BY <2>1 DEF DelayInv, Clocked, QueuesSound, Stamped
  <2>10. msCurrent[t] \in Nat /\ dmsgq_[t][i].trigger \in Nat /\ wakeAt[t] \in Int
    BY <2>1, <2>9 DEF InTime, SendInv, TypeOK
  <2>11. /\ TimeIsLater(msCurrent[t], dmsgq_[t][i].trigger)
         /\ (dmsgq_[t][i].trigger - msCurrent[t]) % TimeMod = dmsgq_[t][i].trigger - msCurrent[t]
    BY <2>8, <2>9, <2>10, LaterFacts
  <2>12. wakeAt[t] # Never
    BY <2>8, <2>10 DEF Never
  <2>13. QED
    BY <2>8, <2>11, <2>12
<1>4. QED
  BY <1>1, <1>2, <1>3, SpecSendInv, SpecWakeInv, PTL DEF Spec
============================================================================
