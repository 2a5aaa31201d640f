---------------------------- MODULE NotifyProofs ----------------------------
(***************************************************************************)
(* What the operations of a Notify keep and what they promise, for futures *)
(* of any set of tasks.                                                    *)
(***************************************************************************)
EXTENDS Notify, SequenceTheorems, TLAPS

\* No future is in the line twice, none is both in the line and woken, and a permit
\* is stored only while nobody waits.
Sound(n, W) ==
    /\ n \in NotifyType(W)
    /\ n.permit => n.line = <<>>
    /\ \A i, j \in 1 .. Len(n.line) : n.line[i] = n.line[j] => i = j
    /\ \A w \in W : Asleep(n, w) => ~Woken(n, w)

\* From n to m nobody who was woken is forgotten, nobody falls asleep, and nobody
\* is woken who did not sleep.
OnlyWakes(n, m, W) ==
    \A w \in W :
        /\ Woken(n, w) => Woken(m, w)
        /\ Asleep(m, w) => Asleep(n, w)
        /\ Woken(m, w) => Woken(n, w) \/ Asleep(n, w)

\* Somebody has the notification, or will find it.
Delivered(n, W) == n.permit \/ \E w \in W : Woken(n, w)

-----------------------------------------------------------------------------

LEMMA QuietSound == \A W : Sound(Quiet, W)
<1> SUFFICES ASSUME NEW W PROVE Sound(Quiet, W)
  OBVIOUS
<1>1. Quiet \in NotifyType(W) /\ Len(Quiet.line) = 0
  BY EmptySeq DEF Quiet, NotifyType
<1> QED
  BY <1>1 DEF Sound, Quiet, Asleep, InLine

LEMMA LineParts ==
    ASSUME NEW W, NEW n \in NotifyType(W)
    PROVE  /\ n.line \in Seq(W) /\ n.permit \in BOOLEAN
           /\ n.one \subseteq W /\ n.all \subseteq W /\ Len(n.line) \in Nat
           /\ \A i \in 1 .. Len(n.line) : n.line[i] \in W
           /\ n = [permit |-> n.permit, line |-> n.line, one |-> n.one, all |-> n.all]
BY LenProperties, ElementOfSeq DEF NotifyType

LEMMA NotifyOneSound ==
    ASSUME NEW W, NEW n, Sound(n, W)
    PROVE  /\ Sound(NotifyOne(n), W)
           /\ OnlyWakes(n, NotifyOne(n), W)
           /\ Delivered(NotifyOne(n), W)
           /\ NotifyOne(n).all = n.all
<1> DEFINE m == NotifyOne(n)
<1>0. n \in NotifyType(W)
  BY DEF Sound
<1>1. CASE n.line = <<>>
  <2>1. m = [n EXCEPT !.permit = TRUE]
    BY <1>1 DEF NotifyOne
  <2>2. m \in NotifyType(W) /\ m.line = n.line /\ m.one = n.one /\ m.all = n.all /\ m.permit
    BY <1>0, <2>1 DEF NotifyType
  <2> QED
    BY <1>1, <2>2 DEF Sound, OnlyWakes, Delivered, Asleep, Woken
<1>2. CASE n.line # <<>>
  <2> DEFINE h == Head(n.line)
  <2>1. m = [n EXCEPT !.line = Tail(@), !.one = @ \cup {h}]
    BY <1>2 DEF NotifyOne
  <2>2. /\ Len(n.line) \in Nat /\ 1 \in 1 .. Len(n.line)
        /\ h = n.line[1] /\ h \in W
        /\ Tail(n.line) \in Seq(W)
        /\ Len(Tail(n.line)) = Len(n.line) - 1
        /\ \A i \in 1 .. Len(Tail(n.line)) : Tail(n.line)[i] = n.line[i + 1]
    BY <1>0, <1>2, LineParts, HeadTailProperties, EmptySeq, LenProperties
  <2>3. /\ m \in NotifyType(W) /\ m.line = Tail(n.line) /\ m.one = n.one \cup {h}
        /\ m.all = n.all /\ m.permit = n.permit
    <3> DEFINE q == Tail(n.line)
    <3>1. q \in Seq(W) /\ h \in W /\ m = [n EXCEPT !.line = q, !.one = @ \cup {h}]
      BY <2>1, <2>2
    <3> HIDE DEF q, h, m
    <3>2. /\ m \in NotifyType(W) /\ m.line = q /\ m.one = n.one \cup {h}
          /\ m.all = n.all /\ m.permit = n.permit
      BY <1>0, <3>1 DEF NotifyType
    <3> QED
      BY <3>2 DEF q
  <2> HIDE DEF m, h
  <2>4. \A i \in 1 .. Len(m.line) : i + 1 \in 1 .. Len(n.line) /\ m.line[i] = n.line[i + 1]
    BY <2>2, <2>3
  <2>5. \A i \in 1 .. Len(m.line) : m.line[i] # h
    BY <2>2, <2>4 DEF Sound
  <2>6. \A i, j \in 1 .. Len(m.line) : m.line[i] = m.line[j] => i = j
    <3> TAKE i, j \in 1 .. Len(m.line)
    <3> HAVE m.line[i] = m.line[j]
    <3>1. i + 1 = j + 1
      BY <2>4 DEF Sound
    <3> QED
      BY <3>1
  <2>7. \A w \in W : Asleep(m, w) => Asleep(n, w) /\ w # h
    BY <2>4, <2>5 DEF Asleep, InLine
  <2>8. Asleep(n, h)
    BY <2>2 DEF Asleep, InLine
  <2>9. \A w \in W : Woken(m, w) <=> Woken(n, w) \/ w = h
    BY <2>3 DEF Woken
  <2>10. Sound(m, W)
    BY <1>2, <2>3, <2>6, <2>7, <2>9 DEF Sound
  <2>11. OnlyWakes(n, m, W)
    BY <2>7, <2>8, <2>9 DEF OnlyWakes
  <2>12. Delivered(m, W)
    BY <2>2, <2>9 DEF Delivered
  <2> QED
    BY <2>3, <2>10, <2>11, <2>12 DEF m
<1> QED
  BY <1>1, <1>2

LEMMA NotifyWaitersSound ==
    ASSUME NEW W, NEW n, Sound(n, W)
    PROVE  /\ Sound(NotifyWaiters(n), W)
           /\ OnlyWakes(n, NotifyWaiters(n), W)
           /\ n.permit => NotifyWaiters(n).permit
           /\ \A w \in W : ~Asleep(NotifyWaiters(n), w)
<1> DEFINE m == NotifyWaiters(n)
           slept == {n.line[i] : i \in 1 .. Len(n.line)}
<1>1. n \in NotifyType(W) /\ slept \subseteq W
  BY LineParts DEF Sound
<1>2. /\ m \in NotifyType(W) /\ m.line = <<>> /\ m.one = n.one
      /\ m.all = n.all \cup slept /\ m.permit = n.permit
  BY <1>1, EmptySeq DEF NotifyWaiters, NotifyType
<1>3. \A w \in W : w \in slept <=> Asleep(n, w)
  BY DEF Asleep, InLine
<1> HIDE DEF m, slept
<1>4. \A w \in W : ~Asleep(m, w)
  BY <1>2, EmptySeq DEF Asleep, InLine
<1>5. \A w \in W : Woken(m, w) <=> Woken(n, w) \/ Asleep(n, w)
  BY <1>2, <1>3 DEF Woken
<1>6. Sound(m, W)
  BY <1>2, <1>4, EmptySeq DEF Sound
<1>7. OnlyWakes(n, m, W)
  BY <1>4, <1>5 DEF OnlyWakes
<1> QED
  BY <1>2, <1>4, <1>6, <1>7 DEF m

LEMMA ListenSound ==
    ASSUME NEW W, NEW n, Sound(n, W), NEW w \in W, ~Asleep(n, w), ~Woken(n, w)
    PROVE  /\ Sound(Listen(n, w), W)
           /\ \A v \in W : Woken(Listen(n, w), v) <=> Woken(n, v)
           /\ \A v \in W : Asleep(Listen(n, w), v) => Asleep(n, v) \/ (v = w /\ ~n.permit)
           /\ ~n.permit => ~Listen(n, w).permit
           /\ Listen(n, w).all = n.all
<1> DEFINE m == Listen(n, w)
<1>0. n \in NotifyType(W)
  BY DEF Sound
<1>1. CASE n.permit
  <2>1. /\ m \in NotifyType(W) /\ m.line = n.line /\ m.one = n.one /\ m.all = n.all
        /\ m.permit = FALSE
    BY <1>0, <1>1 DEF Listen, NotifyType
  <2> HIDE DEF m
  <2>2. /\ \A v \in W : Woken(m, v) <=> Woken(n, v)
        /\ \A v \in W : Asleep(m, v) <=> Asleep(n, v)
    BY <2>1 DEF Woken, Asleep
  <2>3. Sound(m, W)
    BY <2>1, <2>2 DEF Sound
  <2> QED
    BY <1>1, <2>1, <2>2, <2>3 DEF m
<1>2. CASE ~n.permit
  <2>1. m = [n EXCEPT !.line = Append(@, w)]
    BY <1>2 DEF Listen
  <2>2. /\ Append(n.line, w) \in Seq(W) /\ Len(n.line) \in Nat
        /\ Len(Append(n.line, w)) = Len(n.line) + 1
        /\ \A i \in 1 .. Len(n.line) : Append(n.line, w)[i] = n.line[i]
        /\ Append(n.line, w)[Len(n.line) + 1] = w
    BY <1>0, LineParts, AppendProperties
  <2>3. /\ m \in NotifyType(W) /\ m.line = Append(n.line, w) /\ m.one = n.one
        /\ m.all = n.all /\ m.permit = FALSE
    BY <1>0, <1>2, <2>1, <2>2 DEF NotifyType
  <2> HIDE DEF m
  <2>4. \A i \in 1 .. Len(m.line) :
          \/ i \in 1 .. Len(n.line) /\ m.line[i] = n.line[i]
          \/ i = Len(n.line) + 1 /\ m.line[i] = w
    BY <2>2, <2>3
  <2>5. \A i \in 1 .. Len(n.line) : n.line[i] # w
    BY DEF Asleep, InLine
  <2>6. \A i, j \in 1 .. Len(m.line) : m.line[i] = m.line[j] => i = j
    BY <2>4, <2>5 DEF Sound
  <2>7. \A v \in W : Asleep(m, v) => Asleep(n, v) \/ v = w
    BY <2>4 DEF Asleep, InLine
  <2>8. \A v \in W : Woken(m, v) <=> Woken(n, v)
    BY <2>3 DEF Woken
  <2>9. Sound(m, W)
    BY <2>3, <2>6, <2>7, <2>8 DEF Sound
  <2> QED
    BY <1>2, <2>3, <2>7, <2>8, <2>9 DEF m
<1> QED
  BY <1>1, <1>2

LEMMA WakeSound ==
    ASSUME NEW W, NEW n, Sound(n, W), NEW w \in W
    PROVE  /\ Sound(Wake(n, w), W)
           /\ \A v \in W : Woken(Wake(n, w), v) <=> Woken(n, v) /\ v # w
           /\ \A v \in W : Asleep(Wake(n, w), v) <=> Asleep(n, v)
           /\ Wake(n, w).permit = n.permit
           /\ Wake(n, w).all \subseteq n.all
<1> DEFINE m == Wake(n, w)
<1>1. n \in NotifyType(W)
  BY DEF Sound
<1>2. /\ m \in NotifyType(W) /\ m.line = n.line /\ m.one = n.one \ {w}
      /\ m.all = n.all \ {w} /\ m.permit = n.permit
  BY <1>1 DEF Wake, NotifyType
<1> HIDE DEF m
<1>3. \A v \in W : Woken(m, v) <=> Woken(n, v) /\ v # w
  BY <1>2 DEF Woken
<1>4. \A v \in W : Asleep(m, v) <=> Asleep(n, v)
  BY <1>2 DEF Asleep
<1>5. Sound(m, W)
  BY <1>2, <1>3, <1>4 DEF Sound
<1> QED
  BY <1>2, <1>3, <1>4, <1>5 DEF m

LEMMA LeaveSound ==
    ASSUME NEW W, NEW n, Sound(n, W), NEW w \in W, NEW k \in 1 .. Len(n.line), n.line[k] = w,
           NEW m, m = [n EXCEPT !.line = WithoutIndex(@, k)]
    PROVE  /\ Sound(m, W)
           /\ \A v \in W : Woken(m, v) <=> Woken(n, v)
           /\ \A v \in W : Asleep(m, v) => Asleep(n, v) /\ v # w
           /\ m.permit = n.permit
           /\ m.all = n.all
<1> DEFINE q == WithoutIndex(n.line, k)
<1>1. n \in NotifyType(W)
  BY DEF Sound
<1>2. /\ n.line \in Seq(W) /\ Len(n.line) \in Nat
      /\ \A i \in 1 .. Len(n.line) : n.line[i] \in W
  BY <1>1, LineParts
<1>3. q \in [1 .. Len(n.line) - 1 -> W] /\ Len(n.line) - 1 \in Nat
  BY <1>2 DEF WithoutIndex
<1>4. q \in Seq(W) /\ Len(q) = Len(n.line) - 1
  BY <1>3, IsASeq, LenProperties
<1>5. \A i \in 1 .. Len(q) : q[i] = IF i < k THEN n.line[i] ELSE n.line[i + 1]
  BY <1>4 DEF WithoutIndex
<1>6. /\ m \in NotifyType(W) /\ m.line = q /\ m.one = n.one /\ m.all = n.all
      /\ m.permit = n.permit
  BY <1>1, <1>4 DEF NotifyType
<1> HIDE DEF q
<1>7. \A i \in 1 .. Len(q) :
        \/ i < k /\ i \in 1 .. Len(n.line) /\ q[i] = n.line[i]
        \/ ~(i < k) /\ i + 1 \in 1 .. Len(n.line) /\ q[i] = n.line[i + 1]
  BY <1>2, <1>4, <1>5
<1>8. \A i, j \in 1 .. Len(q) : q[i] = q[j] => i = j
  <2> TAKE i, j \in 1 .. Len(q)
  <2> HAVE q[i] = q[j]
  <2>1. CASE i < k /\ j < k
    BY <1>7, <2>1 DEF Sound
  <2>2. CASE ~(i < k) /\ ~(j < k)
    <3>1. i + 1 = j + 1
      BY <1>7, <2>2 DEF Sound
    <3> QED
      BY <3>1
  <2>3. CASE i < k /\ ~(j < k)
    <3>1. i = j + 1
      BY <1>7, <2>3 DEF Sound
    <3> QED
      BY <2>3, <3>1
  <2>4. CASE ~(i < k) /\ j < k
    <3>1. i + 1 = j
      BY <1>7, <2>4 DEF Sound
    <3> QED
      BY <2>4, <3>1
  <2> QED
    BY <2>1, <2>2, <2>3, <2>4
<1>9. \A v \in W : Asleep(m, v) => Asleep(n, v) /\ v # w
  <2> SUFFICES ASSUME NEW i \in 1 .. Len(q) PROVE InLine(n.line, q[i]) /\ q[i] # w
    BY <1>6 DEF Asleep, InLine
  <2>1. CASE i < k
    BY <1>7, <2>1 DEF Sound, InLine
  <2>2. CASE ~(i < k)
    <3>1. i + 1 # k
      BY <2>2
    <3> QED
      BY <1>7, <2>2, <3>1 DEF Sound, InLine
  <2> QED
    BY <2>1, <2>2
<1>10. \A v \in W : Woken(m, v) <=> Woken(n, v)
  BY <1>6 DEF Woken
<1>11. m.permit => m.line = <<>>
  <2>1. n.line # <<>>
    BY EmptySeq
  <2> QED
    BY <1>6, <2>1 DEF Sound
<1>12. Sound(m, W)
  BY <1>6, <1>8, <1>9, <1>10, <1>11 DEF Sound
<1> QED
  BY <1>6, <1>9, <1>10, <1>12

\* A future that is dropped hands on what notify_one gave it.
LEMMA DiscardSound ==
    ASSUME NEW W, NEW n, Sound(n, W), NEW w \in W
    PROVE  /\ Sound(Discard(n, w), W)
           /\ \A v \in W : Woken(n, v) /\ v # w => Woken(Discard(n, w), v)
           /\ \A v \in W : Asleep(Discard(n, w), v) => Asleep(n, v) /\ v # w
           /\ \A v \in W : Woken(Discard(n, w), v) => (Woken(n, v) \/ Asleep(n, v)) /\ v # w
           /\ w \in n.one => Delivered(Discard(n, w), W)
           /\ n.permit => Discard(n, w).permit
           /\ Discard(n, w).all \subseteq n.all
<1> DEFINE u == Wake(n, w)
<1>1. /\ Sound(u, W)
      /\ \A v \in W : Woken(u, v) <=> Woken(n, v) /\ v # w
      /\ \A v \in W : Asleep(u, v) <=> Asleep(n, v)
      /\ u.permit = n.permit /\ u.all \subseteq n.all
  BY WakeSound
<1> HIDE DEF u
<1>2. CASE w \in n.one
  <2>1. Discard(n, w) = NotifyOne(u)
    BY <1>2 DEF Discard, u
  <2>2. /\ Sound(NotifyOne(u), W) /\ OnlyWakes(u, NotifyOne(u), W)
        /\ Delivered(NotifyOne(u), W) /\ NotifyOne(u).all = u.all
    BY <1>1, NotifyOneSound
  <2>3. Woken(n, w) /\ ~Asleep(n, w)
    BY <1>2 DEF Woken, Sound
  <2>4. u.permit => NotifyOne(u).permit
    BY <1>1 DEF Sound, NotifyType, NotifyOne
  <2> QED
    BY <1>1, <2>1, <2>2, <2>3, <2>4 DEF OnlyWakes
<1>3. CASE w \notin n.one /\ Asleep(n, w)
  <2> DEFINE k == CHOOSE i \in 1 .. Len(n.line) : n.line[i] = w
  <2>1. k \in 1 .. Len(n.line) /\ n.line[k] = w
    BY <1>3 DEF Asleep, InLine
  <2>2. Discard(n, w) = [n EXCEPT !.line = WithoutIndex(@, k)]
    BY <1>3 DEF Discard
  <2> HIDE DEF k
  <2>3. ~Woken(n, w)
    BY <1>3 DEF Sound
  <2>4. /\ Sound(Discard(n, w), W)
        /\ \A v \in W : Woken(Discard(n, w), v) <=> Woken(n, v)
        /\ \A v \in W : Asleep(Discard(n, w), v) => Asleep(n, v) /\ v # w
        /\ Discard(n, w).permit = n.permit
        /\ Discard(n, w).all = n.all
    BY <2>1, <2>2, LeaveSound
  <2> QED
    BY <1>3, <2>3, <2>4
<1>4. CASE w \notin n.one /\ ~Asleep(n, w)
  <2>1. Discard(n, w) = u
    BY <1>4 DEF Discard, u
  <2> QED
    BY <1>1, <1>4, <2>1
<1> QED
  BY <1>2, <1>3, <1>4

=============================================================================
