----------------------------- MODULE IntrProofs -----------------------------
(***************************************************************************)
(* Proofs about Intr: the deferqueue is what intr_defer and intr_undefer   *)
(* take it for, no interrupt is left in it when the level is below its     *)
(* own, and no soft interrupt is lost, for any devices and priorities and  *)
(* whatever depth interrupts are stacked to.                               *)
(***************************************************************************)
EXTENDS Intr, FiniteSetTheorems, SequenceTheorems, TLAPS

-----------------------------------------------------------------------------
(* The inductive invariant.                                                *)

(* What the deferqueue holds: intr_defer is not called for xcalls.         *)
Deferrable == Irq \cup {"clock", "swint"}

Kinds  == {"code", "service", "handle", "unwind"}
Places == {"run", "check", "splunwind", "return", "dispatch", "xcall", "tick", "soft", "undefer"}
Frames == [kind : Kinds, at : Places, ivp : Irq \cup {"clock", "swint", "xcall", "none"},
           pl : PLBASE..PLHI]

TypeInv ==
  /\ stack \in Seq(Frames) /\ Len(stack) >= 1
  /\ ipl \in PLBASE..PLHI
  /\ deferqueue \in Seq(Deferrable)

(* The operators of QueueExact, for any queue.                             *)
Elems(q)    == {q[i] : i \in 1..Len(q)}
Sorted(q)   == \A i, j \in 1..Len(q) : i <= j => Intpri(q[i]) >= Intpri(q[j])
Distinct(q) == \A i, j \in 1..Len(q) : q[i] = q[j] => i = j
Highest(q)  == IF q = <<>> THEN PLBASE ELSE Intpri(Head(q))
Events(q)   == UNION {Osevent(v) : v \in Elems(q)}

QueueInv ==
  /\ Sorted(deferqueue) /\ Distinct(deferqueue)
  /\ picipl = Highest(deferqueue)
  /\ mseventsdeferred = Events(deferqueue)

(* The code of the LWP is at the bottom; intr_handle and splunwind come on *)
(* top of code, and handlers on top of those; only the last frame can have *)
(* a device that it has not looked at yet.                                 *)
StackInv ==
  /\ stack[1].kind = "code"
  /\ \A i \in 1..Len(stack) - 1 :
       stack[i].kind \in {"code", "service"} <=> stack[i + 1].kind \in {"handle", "unwind"}
  /\ \A i \in 1..Len(stack) :
       /\ stack[i].kind = "unwind" => stack[i].at = "undefer"
       /\ stack[i].kind = "service" => stack[i].ivp # "none" /\ stack[i].at # "dispatch"
       /\ stack[i].at = "dispatch" =>
            stack[i].kind = "handle" /\ stack[i].ivp \in Irq /\ i = Len(stack)

(* The frame that handles a device, or is about to look at it.             *)
Owns(i) == stack[i].ivp \in Irq /\ (stack[i].kind = "service" \/ stack[i].at = "dispatch")

(* A device is masked while it is in the deferqueue or with one frame, and *)
(* is in one place at a time.                                              *)
MaskedInv ==
  /\ Elems(deferqueue) \cap Irq \subseteq masked
  /\ \A i \in 1..Len(stack) :
       Owns(i) => stack[i].ivp \in masked /\ stack[i].ivp \notin Elems(deferqueue)
  /\ \A i, j \in 1..Len(stack) : Owns(i) /\ Owns(j) /\ stack[i].ivp = stack[j].ivp => i = j

Core == TypeInv /\ QueueInv /\ StackInv /\ MaskedInv
IInv == Core /\ NothingStranded /\ SoftKept

-----------------------------------------------------------------------------
(* The deferqueue.                                                         *)

(* Priorities are levels; what is deferred is above the base level, and    *)
(* has an event of its own unless it is a device.                          *)
LEMMA Priorities ==
  /\ \A v \in Deferrable : Intpri(v) \in PL1..PLHI
  /\ \A v, w \in Deferrable : Osevent(v) \cap Osevent(w) # {} => v = w
  /\ \A v \in Deferrable : Osevent(v) = {} <=> v \in Irq
  /\ Osevent("swint") = {"MS_EVENT_SOFT"} /\ Intpri("swint") = PL1
  /\ Osevent("clock") = {"MS_EVENT_TICK_1"} /\ Intpri("clock") = PLHI
  /\ Intpri("xcall") = PLHI
  BY IntrAssumption DEF IntrAssumption, Intpri, Osevent, Deferrable, PL1, PLHI, PLBASE

(* The numbers from 1 to n are n.                                          *)
LEMMA UpTo ==
  ASSUME NEW n \in Nat
  PROVE  IsFiniteSet(1..n) /\ Cardinality(1..n) = n
  BY FS_Interval

(* In a sorted queue the entries of at least a priority are the first      *)
(* ones, as many as there are.                                             *)
LEMMA SortedCount ==
  ASSUME NEW q \in Seq(Deferrable), Sorted(q), NEW p \in Int
  PROVE  LET n == Cardinality({i \in 1..Len(q) : Intpri(q[i]) >= p})
         IN  n \in 0..Len(q) /\ \A i \in 1..Len(q) : Intpri(q[i]) >= p <=> i <= n
<1>. DEFINE L == Len(q)
            S == {i \in 1..L : Intpri(q[i]) >= p}
            n == Cardinality(S)
<1>1. L \in Nat /\ \A i \in 1..L : Intpri(q[i]) \in Int
  BY Priorities, ElementOfSeq, LenProperties DEF PL1, PLHI
<1>2. \A i, j \in 1..L : i <= j => Intpri(q[i]) >= Intpri(q[j])
  BY DEF Sorted
<1>. HIDE DEF L
<1>3. IsFiniteSet(1..L) /\ Cardinality(1..L) = L
  BY <1>1, UpTo
<1>4. IsFiniteSet(S) /\ n <= L /\ n \in Nat
  <2>1. S \subseteq 1..L
    OBVIOUS
  <2>. QED
    BY <1>3, <2>1, FS_Subset, FS_CardinalityType
<1>5. ASSUME NEW i \in 1..L, Intpri(q[i]) >= p PROVE i <= n
  <2>1. 1..i \subseteq S
    BY <1>1, <1>2, <1>5
  <2>2. Cardinality(1..i) = i
    BY <1>1, UpTo
  <2>. QED
    BY <1>4, <2>1, <2>2, FS_Subset
<1>6. ASSUME NEW i \in 1..L, ~(Intpri(q[i]) >= p) PROVE n < i
  <2>1. S \subseteq 1..(i - 1)
    BY <1>1, <1>2, <1>6
  <2>2. IsFiniteSet(1..(i - 1)) /\ Cardinality(1..(i - 1)) = i - 1
    BY <1>1, UpTo
  <2>3. n <= i - 1
    BY <2>1, <2>2, FS_Subset
  <2>. QED
    BY <1>1, <1>4, <2>3
<1>7. n \in 0..L /\ \A i \in 1..L : Intpri(q[i]) >= p <=> i <= n
  <2>. HIDE DEF S
  <2>. QED
    BY <1>1, <1>4, <1>5, <1>6
<1>. QED
  BY <1>7, Zenon DEF L

(* What InsertAt makes of a queue.                                         *)
LEMMA Inserted ==
  ASSUME NEW q \in Seq(Deferrable), NEW k \in 1..Len(q) + 1, NEW v \in Deferrable
  PROVE  /\ InsertAt(q, k, v) \in Seq(Deferrable) /\ Len(InsertAt(q, k, v)) = Len(q) + 1
         /\ InsertAt(q, k, v)[k] = v
         /\ \A i \in 1..k - 1 : InsertAt(q, k, v)[i] = q[i]
         /\ \A i \in k + 1..Len(q) + 1 : InsertAt(q, k, v)[i] = q[i - 1]
<1>1. Len(q) \in Nat /\ \A i \in 1..Len(q) : q[i] \in Deferrable
  BY ElementOfSeq, LenProperties
<1>. DEFINE r == InsertAt(q, k, v)
            L == Len(q)
            a == SubSeq(q, 1, k - 1)
            c == SubSeq(q, k, Len(q))
            e == <<v>>
            d == a \o e
<1>2. /\ a \in Seq(Deferrable) /\ Len(a) = k - 1
      /\ \A i \in 1..k - 1 : a[i] = q[i]
  BY <1>1, SubSeqProperties
<1>3. /\ c \in Seq(Deferrable) /\ Len(c) = L - k + 1
      /\ \A i \in 1..L - k + 1 : c[i] = q[k + i - 1]
  BY <1>1, SubSeqProperties
<1>4. e \in Seq(Deferrable) /\ Len(e) = 1 /\ e[1] = v
  OBVIOUS
<1>5. r = d \o c
  BY DEF InsertAt
<1>. HIDE DEF a, c, e, r
<1>6. /\ d \in Seq(Deferrable) /\ Len(d) = k /\ d[k] = v
      /\ \A i \in 1..k - 1 : d[i] = q[i]
  <2>1. /\ d \in Seq(Deferrable) /\ Len(d) = Len(a) + Len(e)
        /\ \A i \in 1..Len(a) + Len(e) : d[i] = IF i <= Len(a) THEN a[i] ELSE e[i - Len(a)]
    BY <1>2, <1>4, ConcatProperties
  <2>. HIDE DEF d
  <2>2. k \in Nat \ {0} /\ Len(a) + Len(e) = k
    BY <1>1, <1>2, <1>4
  <2>3. d[k] = e[1]
    BY <1>2, <1>4, <2>1, <2>2
  <2>4. \A i \in 1..k - 1 : d[i] = a[i]
    BY <1>2, <1>4, <2>1, <2>2
  <2>. QED
    BY <1>2, <1>4, <2>1, <2>2, <2>3, <2>4
<1>. HIDE DEF d
<1>7. /\ r \in Seq(Deferrable) /\ Len(r) = k + Len(c)
      /\ \A i \in 1..k + Len(c) : r[i] = IF i <= k THEN d[i] ELSE c[i - k]
  BY <1>3, <1>5, <1>6, ConcatProperties
<1>8. L \in Nat /\ k \in 1..L + 1
  BY <1>1
<1>. HIDE DEF L
<1>9. \A i \in 1..k : r[i] = d[i]
  BY <1>3, <1>7, <1>8
<1>10. r[k] = v /\ \A i \in 1..k - 1 : r[i] = q[i]
  BY <1>6, <1>8, <1>9
<1>11. ASSUME NEW i \in k + 1..L + 1 PROVE r[i] = q[i - 1]
  <2>1. i - k \in 1..L - k + 1 /\ k + (i - k) - 1 = i - 1 /\ i \in 1..k + Len(c) /\ ~(i <= k)
    BY <1>3, <1>8
  <2>2. r[i] = c[i - k]
    BY <1>7, <2>1
  <2>3. c[i - k] = q[k + (i - k) - 1]
    BY <1>3, <2>1
  <2>. QED
    BY <2>1, <2>2, <2>3
<1>12. Len(r) = L + 1
  BY <1>3, <1>7, <1>8
<1>. QED
  BY <1>7, <1>10, <1>11, <1>12 DEF L, r

(* intr_defer keeps a queue sorted and puts v in once.                     *)
LEMMA InsertKeeps ==
  ASSUME NEW q \in Seq(Deferrable), Sorted(q), Distinct(q),
         NEW v \in Deferrable, v \notin Elems(q),
         NEW r, r = InsertAt(q, Cardinality({i \in 1..Len(q) : Intpri(q[i]) >= Intpri(v)}) + 1, v)
  PROVE  /\ r \in Seq(Deferrable) /\ Sorted(r) /\ Distinct(r)
         /\ Elems(r) = Elems(q) \cup {v}
         /\ Highest(r) = IF Highest(q) < Intpri(v) THEN Intpri(v) ELSE Highest(q)
<1>. DEFINE n == Cardinality({i \in 1..Len(q) : Intpri(q[i]) >= Intpri(v)})
            k == n + 1
<1>1. r = InsertAt(q, k, v)
  OBVIOUS
<1>2. /\ Len(q) \in Nat /\ \A i \in 1..Len(q) : q[i] \in Deferrable /\ Intpri(q[i]) \in Int
      /\ Intpri(v) \in PL1..PLHI /\ Intpri(v) \in Int
  BY Priorities, ElementOfSeq, LenProperties DEF PL1, PLHI
<1>3. n \in 0..Len(q) /\ \A i \in 1..Len(q) : Intpri(q[i]) >= Intpri(v) <=> i <= n
  BY <1>2, SortedCount, Zenon
<1>. HIDE DEF n
<1>4. k \in 1..Len(q) + 1
  BY <1>2, <1>3
<1>5. \A i \in 1..Len(q) : Intpri(q[i]) >= Intpri(v) <=> i < k
  BY <1>2, <1>3
<1>. HIDE DEF k
<1>6. /\ r \in Seq(Deferrable) /\ Len(r) = Len(q) + 1
      /\ r[k] = v
      /\ \A i \in 1..k - 1 : r[i] = q[i]
      /\ \A i \in k + 1..Len(q) + 1 : r[i] = q[i - 1]
  <2>1. /\ InsertAt(q, k, v) \in Seq(Deferrable) /\ Len(InsertAt(q, k, v)) = Len(q) + 1
        /\ InsertAt(q, k, v)[k] = v
        /\ \A i \in 1..k - 1 : InsertAt(q, k, v)[i] = q[i]
        /\ \A i \in k + 1..Len(q) + 1 : InsertAt(q, k, v)[i] = q[i - 1]
    BY <1>4, Inserted, Zenon
  <2>. QED
    BY <1>1, <2>1, Zenon
(* old says where an entry of r was in q.                                  *)
<1>. DEFINE L == Len(q)
            R == Len(r)
            Others == 1..R \ {k}
            old == [j \in Others |-> IF j < k THEN j ELSE j - 1]
<1>7. L \in Nat /\ R = L + 1 /\ k \in 1..R
  BY <1>2, <1>4, <1>6
<1>8. /\ \A i \in 1..k - 1 : r[i] = q[i]
      /\ \A i \in k + 1..R : r[i] = q[i - 1]
  BY <1>6
<1>9. \A i \in 1..L : Intpri(q[i]) \in Int /\ (Intpri(q[i]) >= Intpri(v) <=> i < k)
  BY <1>2, <1>5
<1>10. \A i, j \in 1..L : i <= j => Intpri(q[i]) >= Intpri(q[j])
  BY DEF Sorted
<1>11. \A i, j \in 1..L : q[i] = q[j] => i = j
  BY DEF Distinct
<1>12. \A i \in 1..L : q[i] # v
  BY DEF Elems
<1>. HIDE DEF L, R
<1>13. ASSUME NEW j \in Others
       PROVE  /\ old[j] \in 1..L /\ r[j] = q[old[j]]
              /\ j < k <=> old[j] < k
  <2>1. CASE j < k
    <3>1. j \in 1..k - 1 /\ old[j] = j /\ j \in 1..L
      BY <1>7, <2>1
    <3>. QED
      BY <1>8, <2>1, <3>1
  <2>2. CASE j > k
    <3>1. j \in k + 1..R /\ old[j] = j - 1 /\ j - 1 \in 1..L /\ ~(j < k) /\ ~(j - 1 < k)
      BY <1>7, <2>2
    <3>. QED
      BY <1>8, <3>1
  <2>. QED
    BY <1>7, <2>1, <2>2
<1>14. \A i, j \in Others : i < j => old[i] < old[j]
  BY <1>7
<1>15. ASSUME NEW i \in 1..L PROVE \E j \in Others : old[j] = i
  <2>1. CASE i < k
    <3>1. i \in Others /\ old[i] = i
      BY <1>7, <2>1
    <3>. QED
      BY <3>1
  <2>2. CASE ~(i < k)
    <3>1. i + 1 \in Others /\ old[i + 1] = i
      BY <1>7, <2>2
    <3>. QED
      BY <3>1
  <2>. QED
    BY <2>1, <2>2
<1>16. Others \subseteq Int /\ 1..L \subseteq Int /\ k \in Int
  BY <1>7
<1>. HIDE DEF old
<1>17. \A j \in 1..R : j = k \/ j \in Others
  OBVIOUS
<1>18. Sorted(r)
  <2>. SUFFICES ASSUME NEW i \in 1..R, NEW j \in 1..R, i <= j
                PROVE  Intpri(r[i]) >= Intpri(r[j])
    BY DEF Sorted, R
  <2>1. CASE i \in Others /\ j \in Others
    <3>1. old[i] <= old[j]
      BY <1>13, <1>14, <1>16, <2>1
    <3>. QED
      BY <1>10, <1>13, <2>1, <3>1
  <2>2. CASE i = k /\ j = k
    BY <1>2, <1>6, <2>2
  <2>3. CASE i = k /\ j \in Others
    <3>1. ~(Intpri(q[old[j]]) >= Intpri(v)) /\ Intpri(q[old[j]]) \in Int
      BY <1>9, <1>13, <1>16, <2>3
    <3>. QED
      BY <1>2, <1>6, <1>13, <2>3, <3>1
  <2>4. CASE i \in Others /\ j = k
    <3>1. Intpri(q[old[i]]) >= Intpri(v)
      BY <1>9, <1>13, <1>16, <2>4
    <3>. QED
      BY <1>6, <1>13, <2>4, <3>1
  <2>. QED
    BY <1>17, <2>1, <2>2, <2>3, <2>4
<1>19. Distinct(r)
  <2>. SUFFICES ASSUME NEW i \in 1..R, NEW j \in 1..R, r[i] = r[j], i # j PROVE FALSE
    BY DEF Distinct, R
  <2>1. CASE i \in Others /\ j \in Others
    <3>1. old[i] = old[j]
      BY <1>11, <1>13, <2>1
    <3>. QED
      BY <1>13, <1>14, <1>16, <2>1, <3>1
  <2>2. \A x \in Others : r[x] # v
    BY <1>12, <1>13
  <2>3. CASE i = k \/ j = k
    BY <1>6, <1>17, <2>2, <2>3
  <2>. QED
    BY <1>17, <2>1, <2>3
<1>20. Elems(r) = Elems(q) \cup {v}
  <2>1. Elems(r) = {r[j] : j \in 1..R} /\ Elems(q) = {q[i] : i \in 1..L}
    BY DEF Elems, R, L
  <2>2. ASSUME NEW i \in 1..L PROVE \E j \in 1..R : r[j] = q[i]
    BY <1>13, <1>15
  <2>3. ASSUME NEW j \in 1..R PROVE r[j] = v \/ \E i \in 1..L : q[i] = r[j]
    BY <1>6, <1>13, <1>17
  <2>4. r[k] = v /\ k \in 1..R
    BY <1>6, <1>7
  <2>. HIDE DEF Others
  <2>5. Elems(r) \subseteq Elems(q) \cup {v}
    BY <2>1, <2>3, Zenon
  <2>6. Elems(q) \cup {v} \subseteq Elems(r)
    BY <2>1, <2>2, <2>4, Zenon
  <2>. QED
    BY <2>5, <2>6
<1>21. Highest(r) = IF Highest(q) < Intpri(v) THEN Intpri(v) ELSE Highest(q)
  <2>1. Highest(r) = Intpri(r[1])
    <3>1. r # <<>> /\ Head(r) = r[1]
      BY <1>6, <1>7
    <3>. QED
      BY <3>1 DEF Highest
  <2>2. CASE q = <<>>
    <3>1. k = 1
      BY <1>4, <2>2
    <3>. QED
      BY <1>2, <1>6, <2>1, <2>2, <3>1 DEF Highest, PLBASE, PL1, PLHI
  <2>3. CASE q # <<>>
    <3>1. L >= 1 /\ Highest(q) = Intpri(q[1])
      BY <1>2, <2>3, EmptySeq DEF Highest, L
    <3>2. 1 \in 1..L
      BY <1>7, <3>1
    <3>3. CASE k = 1
      BY <1>2, <1>6, <1>9, <2>1, <3>1, <3>2, <3>3
    <3>4. CASE k # 1
      <4>1. r[1] = q[1] /\ 1 < k
        BY <1>7, <1>8, <3>4
      <4>. QED
        BY <1>2, <1>9, <2>1, <3>1, <3>2, <4>1
    <3>. QED
      BY <3>3, <3>4
  <2>. QED
    BY <2>2, <2>3
<1>. QED
  BY <1>6, <1>18, <1>19, <1>20, <1>21

(* intr_undefer takes the first entry off.                                 *)
LEMMA TailKeeps ==
  ASSUME NEW q \in Seq(Deferrable), Sorted(q), Distinct(q), q # <<>>
  PROVE  /\ Tail(q) \in Seq(Deferrable) /\ Sorted(Tail(q)) /\ Distinct(Tail(q))
         /\ Head(q) \in Elems(q) /\ Elems(Tail(q)) = Elems(q) \ {Head(q)}
         /\ Highest(Tail(q)) = IF Len(q) = 1 THEN PLBASE ELSE Intpri(q[2])
         /\ Highest(Tail(q)) <= Highest(q) /\ Highest(q) = Intpri(Head(q))
<1>. DEFINE L == Len(q)
            t == Tail(q)
<1>1. L \in Nat \ {0} /\ \A i \in 1..L : q[i] \in Deferrable /\ Intpri(q[i]) \in PL1..PLHI
  BY Priorities, ElementOfSeq, LenProperties, EmptySeq
<1>2. /\ t \in Seq(Deferrable) /\ Len(t) = L - 1
      /\ \A i \in 1..Len(t) : t[i] = q[i + 1]
  BY HeadTailProperties
<1>3. Head(q) = q[1]
  BY <1>1
<1>4. \A i, j \in 1..L : i <= j => Intpri(q[i]) >= Intpri(q[j])
  BY DEF Sorted
<1>5. \A i, j \in 1..L : q[i] = q[j] => i = j
  BY DEF Distinct
<1>. DEFINE T == Len(t)
<1>6. T = L - 1 /\ \A i \in 1..T : t[i] = q[i + 1]
  BY <1>2
<1>7. Highest(q) = Intpri(q[1])
  BY <1>3 DEF Highest
<1>8. Highest(t) = IF L = 1 THEN PLBASE ELSE Intpri(q[2])
  <2>1. CASE L = 1
    <3>1. t = <<>>
      <4>1. Len(t) = 0
        BY <1>2, <2>1
      <4>. HIDE DEF t
      <4>. QED
        BY <1>2, <4>1, EmptySeq
    <3>. QED
      BY <2>1, <3>1 DEF Highest
  <2>2. CASE L # 1
    <3>1. T >= 1 /\ t[1] = q[2]
      <4>. HIDE DEF L, T, t
      <4>. QED
        BY <1>1, <1>6, <2>2
    <3>2. t # <<>> /\ Head(t) = t[1]
      <4>. HIDE DEF t
      <4>. QED
        BY <1>2, <3>1
    <3>. QED
      BY <2>2, <3>1, <3>2 DEF Highest
  <2>. QED
    BY <2>1, <2>2
<1>. HIDE DEF L, t, T
<1>9. Sorted(t)
  <2>. SUFFICES ASSUME NEW i \in 1..T, NEW j \in 1..T, i <= j
                PROVE  Intpri(t[i]) >= Intpri(t[j])
    BY DEF Sorted, T
  <2>1. t[i] = q[i + 1] /\ t[j] = q[j + 1] /\ i + 1 \in 1..L /\ j + 1 \in 1..L
    BY <1>1, <1>6
  <2>. QED
    BY <1>4, <2>1
<1>10. Distinct(t)
  <2>. SUFFICES ASSUME NEW i \in 1..T, NEW j \in 1..T, t[i] = t[j] PROVE i = j
    BY DEF Distinct, T
  <2>1. t[i] = q[i + 1] /\ t[j] = q[j + 1] /\ i + 1 \in 1..L /\ j + 1 \in 1..L
    BY <1>1, <1>6
  <2>. QED
    <3>1. i + 1 = j + 1
      BY <1>5, <2>1
    <3>. QED
      BY <1>1, <1>6, <3>1
<1>11. Head(q) \in Elems(q)
  BY <1>1, <1>3 DEF Elems, L
<1>12. Elems(t) = Elems(q) \ {Head(q)}
  <2>1. ASSUME NEW i \in 1..L, q[i] # q[1] PROVE \E j \in 1..T : t[j] = q[i]
    <3>1. i - 1 \in 1..T /\ (i - 1) + 1 = i
      BY <1>1, <1>6, <2>1
    <3>2. t[i - 1] = q[i]
      BY <1>6, <3>1
    <3>. QED
      BY <3>1, <3>2
  <2>2. ASSUME NEW j \in 1..T PROVE t[j] # q[1] /\ \E i \in 1..L : q[i] = t[j]
    <3>1. t[j] = q[j + 1] /\ j + 1 \in 1..L /\ 1 \in 1..L /\ j + 1 # 1
      BY <1>1, <1>6
    <3>. QED
      BY <1>5, <3>1
  <2>3. Elems(t) = {t[j] : j \in 1..T} /\ Elems(q) = {q[i] : i \in 1..L}
    BY DEF Elems, T, L
  <2>. QED
    BY <1>3, <2>1, <2>2, <2>3
<1>13. Highest(t) <= Highest(q)
  <2>1. CASE L = 1
    BY <1>1, <1>7, <1>8, <2>1 DEF PLBASE, PL1, PLHI
  <2>2. CASE L # 1
    BY <1>1, <1>4, <1>7, <1>8, <2>2 DEF PLBASE, PL1, PLHI
  <2>. QED
    BY <2>1, <2>2
<1>. QED
  BY <1>2, <1>3, <1>7, <1>8, <1>9, <1>10, <1>11, <1>12, <1>13 DEF t, L

-----------------------------------------------------------------------------
(* The stack.                                                              *)

KeptBelow == \A i \in 1..Len(stack) - 1 : stack'[i] = stack[i]

(* The top frame has gone on to the place p.                               *)
TopGoes(p) ==
  LET n == Len(stack) IN
  /\ stack'[n].kind = stack[n].kind /\ stack'[n].ivp = stack[n].ivp /\ stack'[n].pl = stack[n].pl
  /\ stack'[n].at = p

(* The three things a step does with the stack, if anything.               *)
StepStay(p)    == /\ stack' \in Seq(Frames) /\ Len(stack') = Len(stack)
                  /\ KeptBelow /\ TopGoes(p)
StepPush(p, f) == /\ stack' \in Seq(Frames) /\ Len(stack') = Len(stack) + 1
                  /\ KeptBelow /\ TopGoes(p) /\ stack'[Len(stack) + 1] = f
StepPop        == /\ stack' \in Seq(Frames) /\ Len(stack') = Len(stack) - 1 /\ KeptBelow

(* The frames are frames.                                                  *)
LEMMA StackTypes ==
  ASSUME TypeInv
  PROVE  /\ Len(stack) \in Nat \ {0} /\ \A i \in 1..Len(stack) : stack[i] \in Frames
         /\ Top = stack[Len(stack)] /\ Top \in Frames
  BY ElementOfSeq, LenProperties DEF TypeInv, Top

(* Stay moves the top frame on.                                            *)
LEMMA Staying ==
  ASSUME TypeInv, NEW p \in Places
  PROVE  /\ Stay(p) \in Seq(Frames) /\ Len(Stay(p)) = Len(stack)
         /\ \A i \in 1..Len(stack) - 1 : Stay(p)[i] = stack[i]
         /\ Stay(p)[Len(stack)] = [stack[Len(stack)] EXCEPT !.at = p]
         /\ [stack[Len(stack)] EXCEPT !.at = p] \in Frames
<1>. DEFINE n == Len(stack)
            f == [stack[n] EXCEPT !.at = p]
<1>1. n \in 1..Len(stack) /\ n \in Nat /\ stack[n] \in Frames /\ stack \in Seq(Frames)
  BY StackTypes DEF TypeInv
<1>2. f \in Frames
  BY <1>1 DEF Frames
<1>. HIDE DEF f
<1>3. /\ [stack EXCEPT ![n] = f] \in Seq(Frames)
      /\ Len([stack EXCEPT ![n] = f]) = n
      /\ \A i \in 1..n : [stack EXCEPT ![n] = f][i] = IF i = n THEN f ELSE stack[i]
  BY <1>1, <1>2, ExceptSeq
<1>4. Stay(p) = [stack EXCEPT ![n] = f]
  BY DEF Stay, f
<1>. QED
  BY <1>1, <1>2, <1>3, <1>4 DEF f

(* A step that only moves the top frame.                                   *)
LEMMA StayShape ==
  ASSUME TypeInv, NEW p \in Places, stack' = Stay(p)
  PROVE  StepStay(p)
<1>1. stack[Len(stack)] \in Frames /\ Len(stack) \in Nat
  BY StackTypes
<1>2. /\ stack' \in Seq(Frames) /\ Len(stack') = Len(stack)
      /\ \A i \in 1..Len(stack) - 1 : stack'[i] = stack[i]
      /\ stack'[Len(stack)] = [stack[Len(stack)] EXCEPT !.at = p]
  BY Staying, Zenon
<1>3. TopGoes(p)
  BY <1>1, <1>2 DEF TopGoes, Frames
<1>. QED
  BY <1>2, <1>3 DEF StepStay, KeptBelow

(* A step that moves the top frame and pushes another one.                 *)
LEMMA StayPushShape ==
  ASSUME TypeInv, NEW p \in Places, NEW f \in Frames, stack' = Append(Stay(p), f)
  PROVE  StepPush(p, f)
<1>. DEFINE s == Stay(p)
<1>1. stack[Len(stack)] \in Frames /\ Len(stack) \in Nat \ {0}
  BY StackTypes
<1>2. /\ s \in Seq(Frames) /\ Len(s) = Len(stack)
      /\ \A i \in 1..Len(stack) - 1 : s[i] = stack[i]
      /\ s[Len(stack)] = [stack[Len(stack)] EXCEPT !.at = p]
  BY Staying
<1>. HIDE DEF s
<1>3. /\ stack' \in Seq(Frames) /\ Len(stack') = Len(s) + 1
      /\ \A i \in 1..Len(s) : stack'[i] = s[i]
      /\ stack'[Len(s) + 1] = f
  BY <1>2, AppendProperties DEF s
<1>4. KeptBelow
  BY <1>1, <1>2, <1>3 DEF KeptBelow
<1>5. stack'[Len(stack)] = [stack[Len(stack)] EXCEPT !.at = p]
  BY <1>1, <1>2, <1>3
<1>6. TopGoes(p)
  BY <1>1, <1>5 DEF TopGoes, Frames
<1>. QED
  BY <1>2, <1>3, <1>4, <1>6 DEF StepPush

(* A step that pushes a frame.                                             *)
LEMMA PushShape ==
  ASSUME TypeInv, NEW f \in Frames, Push(f)
  PROVE  StepPush(Top.at, f)
<1>1. Len(stack) \in Nat \ {0} /\ Top = stack[Len(stack)] /\ stack \in Seq(Frames)
  BY StackTypes DEF TypeInv
<1>2. /\ stack' \in Seq(Frames) /\ Len(stack') = Len(stack) + 1
      /\ \A i \in 1..Len(stack) : stack'[i] = stack[i]
      /\ stack'[Len(stack) + 1] = f
  BY <1>1, AppendProperties DEF Push
<1>3. stack'[Len(stack)] = stack[Len(stack)] /\ KeptBelow
  BY <1>1, <1>2 DEF KeptBelow
<1>. QED
  BY <1>1, <1>2, <1>3 DEF StepPush, TopGoes

(* A step that takes the top frame off.                                    *)
LEMMA PopShape ==
  ASSUME TypeInv, stack' = Front(stack)
  PROVE  StepPop
<1>1. /\ Len(stack) \in Nat \ {0} /\ stack \in Seq(Frames)
      /\ \A i \in 1..Len(stack) - 1 : stack[i] \in Frames
  BY StackTypes DEF TypeInv
<1>2. stack' = SubSeq(stack, 1, Len(stack) - 1)
  BY DEF Front
<1>. DEFINE m == Len(stack) - 1
            s == SubSeq(stack, 1, m)
<1>3. m \in Nat /\ \A i \in 1..m : stack[i] \in Frames
  BY <1>1
<1>4. s \in Seq(Frames) /\ Len(s) = m /\ \A i \in 1..m : s[i] = stack[i]
  <2>. HIDE DEF m
  <2>1. /\ s \in Seq(Frames) /\ Len(s) = IF 1 <= m THEN m - 1 + 1 ELSE 0
        /\ \A i \in 1..m - 1 + 1 : s[i] = stack[1 + i - 1]
    BY <1>3, SubSeqProperties
  <2>. HIDE DEF s
  <2>. QED
    BY <1>3, <2>1
<1>. QED
  BY <1>2, <1>4 DEF StepPop, KeptBelow

(* The frames of intr_service and of those that call it.                   *)
LEMMA FrameTypes ==
  /\ \A v \in Irq \cup {"clock", "swint", "xcall"}, l \in PLBASE..PLHI :
       Frame("service", "run", v, l) \in Frames
  /\ Frame("unwind", "undefer", "none", PLBASE) \in Frames
  /\ Frame("handle", "xcall", "none", PLBASE) \in Frames
  /\ \A v \in Irq : Frame("handle", "dispatch", v, PLBASE) \in Frames
  BY DEF Frame, Frames, Kinds, Places, PLBASE, PLHI

(* intr_service pushes the frame of the handler.                           *)
LEMMA ServiceShape ==
  ASSUME TypeInv, NEW v \in Irq \cup {"clock", "swint", "xcall"}, NEW p \in Places, Service(v, p)
  PROVE  StepPush(p, Frame("service", "run", v, ipl)) /\ ipl' = Intpri(v)
  BY FrameTypes, StayPushShape DEF Service, TypeInv

-----------------------------------------------------------------------------
(* What the routines of msintr.c do to the deferqueue.                     *)

(* The entries of the deferqueue.                                          *)
LEMMA EntryTypes ==
  ASSUME TypeInv
  PROVE  Elems(deferqueue) \subseteq Deferrable /\ Queued = Elems(deferqueue)
  BY ElementOfSeq DEF TypeInv, Elems, Queued

(* intr_defer: v is in the deferqueue afterwards, once.                    *)
LEMMA DeferShape ==
  ASSUME TypeInv, QueueInv, NEW v \in Deferrable, v \in Irq => v \notin Elems(deferqueue), Defer(v)
  PROVE  /\ deferqueue' \in Seq(Deferrable) /\ QueueInv'
         /\ Elems(deferqueue') = Elems(deferqueue) \cup {v}
         /\ picipl' = picipl \/ picipl' = Intpri(v)
<1>1. deferqueue \in Seq(Deferrable) /\ Elems(deferqueue) \subseteq Deferrable
  BY EntryTypes DEF TypeInv
<1>2. CASE Osevent(v) \cap mseventsdeferred # {}
  <2>1. PICK w \in Elems(deferqueue) : Osevent(v) \cap Osevent(w) # {}
    BY <1>2 DEF QueueInv, Events
  <2>2. v \in Elems(deferqueue)
    BY <1>1, <2>1, Priorities
  <2>3. deferqueue' = deferqueue /\ picipl' = picipl /\ mseventsdeferred' = mseventsdeferred
    BY <1>2 DEF Defer, queueVars
  <2>. QED
    BY <1>1, <2>2, <2>3 DEF QueueInv
<1>3. CASE Osevent(v) \cap mseventsdeferred = {}
  <2>1. v \notin Elems(deferqueue)
    <3>. SUFFICES ASSUME v \in Elems(deferqueue), v \notin Irq PROVE FALSE
      OBVIOUS
    <3>1. Osevent(v) # {} /\ Osevent(v) \subseteq mseventsdeferred
      BY Priorities DEF QueueInv, Events
    <3>. QED
      BY <1>3, <3>1
  <2>. DEFINE k == Cardinality({i \in 1..Len(deferqueue) : Intpri(deferqueue[i]) >= Intpri(v)}) + 1
  <2>2. /\ mseventsdeferred' = mseventsdeferred \cup Osevent(v)
        /\ picipl' = IF picipl < Intpri(v) THEN Intpri(v) ELSE picipl
        /\ deferqueue' = InsertAt(deferqueue, k, v)
    BY <1>3 DEF Defer
  <2>3. Sorted(deferqueue) /\ Distinct(deferqueue) /\ picipl = Highest(deferqueue)
    BY DEF QueueInv
  <2>4. /\ deferqueue' \in Seq(Deferrable) /\ Sorted(deferqueue') /\ Distinct(deferqueue')
        /\ Elems(deferqueue') = Elems(deferqueue) \cup {v}
        /\ Highest(deferqueue') = IF Highest(deferqueue) < Intpri(v)
                                    THEN Intpri(v) ELSE Highest(deferqueue)
    BY <1>1, <2>1, <2>2, <2>3, InsertKeeps, Zenon
  <2>5. mseventsdeferred' = Events(deferqueue')
    <3>1. mseventsdeferred = UNION {Osevent(w) : w \in Elems(deferqueue)}
      BY DEF QueueInv, Events
    <3>2. Events(deferqueue') = UNION {Osevent(w) : w \in Elems(deferqueue')}
      BY DEF Events
    <3>. QED
      BY <2>2, <2>4, <3>1, <3>2
  <2>6. picipl' = Highest(deferqueue')
    BY <2>2, <2>3, <2>4
  <2>7. QueueInv'
    BY <2>4, <2>5, <2>6 DEF QueueInv
  <2>. QED
    BY <2>2, <2>4, <2>7
<1>. QED
  BY <1>2, <1>3

(* intr_undefer: the highest entry goes, and is above the level.           *)
LEMMA UndeferShape ==
  ASSUME TypeInv, QueueInv, Undefer
  PROVE  /\ Head(deferqueue) \in Elems(deferqueue) /\ Head(deferqueue) \in Deferrable
         /\ deferqueue' \in Seq(Deferrable) /\ QueueInv'
         /\ Elems(deferqueue') = Elems(deferqueue) \ {Head(deferqueue)}
         /\ picipl' <= Intpri(Head(deferqueue))
<1>1. deferqueue \in Seq(Deferrable) /\ Elems(deferqueue) \subseteq Deferrable
  BY EntryTypes DEF TypeInv
<1>2. Sorted(deferqueue) /\ Distinct(deferqueue) /\ picipl = Highest(deferqueue)
  BY DEF QueueInv
<1>3. deferqueue # <<>>
  BY <1>2 DEF Undefer, Highest, TypeInv, PLBASE, PLHI
<1>. DEFINE h == Head(deferqueue)
            t == Tail(deferqueue)
<1>4. /\ t \in Seq(Deferrable) /\ Sorted(t) /\ Distinct(t)
      /\ h \in Elems(deferqueue) /\ Elems(t) = Elems(deferqueue) \ {h}
      /\ Highest(t) = IF Len(deferqueue) = 1 THEN PLBASE ELSE Intpri(deferqueue[2])
      /\ Highest(t) <= Highest(deferqueue) /\ Highest(deferqueue) = Intpri(h)
  BY <1>1, <1>2, <1>3, TailKeeps, Zenon
<1>5. /\ deferqueue' = t /\ mseventsdeferred' = mseventsdeferred \ Osevent(h)
      /\ picipl' = IF Len(deferqueue) = 1 THEN PLBASE ELSE Intpri(deferqueue[2])
  BY DEF Undefer
<1>. HIDE DEF h, t
<1>6. mseventsdeferred' = Events(t)
  <2>1. mseventsdeferred = UNION {Osevent(w) : w \in Elems(deferqueue)}
    BY DEF QueueInv, Events
  <2>2. Events(t) = UNION {Osevent(w) : w \in Elems(t)}
    BY DEF Events
  <2>3. \A w \in Elems(deferqueue) : w # h => Osevent(w) \cap Osevent(h) = {}
    BY <1>1, <1>4, Priorities
  <2>. QED
    BY <1>4, <1>5, <2>1, <2>2, <2>3
<1>7. QueueInv'
  BY <1>4, <1>5, <1>6 DEF QueueInv
<1>. QED
  BY <1>1, <1>4, <1>5, <1>7 DEF h, t

-----------------------------------------------------------------------------
(* What the changes of the stack do to the invariant.                      *)

(* A frame that may be in the place it is in, on top of the others.        *)
FrameOk(f) ==
  /\ f.kind = "unwind" => f.at = "undefer"
  /\ f.kind = "service" => f.ivp # "none" /\ f.at # "dispatch"
  /\ f.at = "dispatch" => f.kind = "handle" /\ f.ivp \in Irq

(* The places the top frame may go to.                                     *)
MayGo(p) == p # "dispatch" /\ (Top.kind = "unwind" => p = "undefer")

(* A step that moves the top frame keeps the order of the frames.          *)
LEMMA StackInvStay ==
  ASSUME TypeInv, StackInv, NEW p \in Places, MayGo(p), StepStay(p)
  PROVE  StackInv'
<1>. DEFINE n == Len(stack)
<1>1. n \in Nat \ {0} /\ Len(stack') = n /\ Top = stack[n]
  BY StackTypes DEF StepStay
<1>2. /\ \A i \in 1..n - 1 : stack'[i] = stack[i]
      /\ \A i \in 1..n : stack'[i].kind = stack[i].kind
      /\ stack'[n].ivp = stack[n].ivp /\ stack'[n].at = p
  BY <1>1 DEF StepStay, KeptBelow, TopGoes
<1>. QED
  BY <1>1, <1>2 DEF StackInv, MayGo

(* A step that moves the top frame and pushes another keeps it too.        *)
LEMMA StackInvPush ==
  ASSUME TypeInv, StackInv, NEW p \in Places, MayGo(p), NEW f \in Frames, StepPush(p, f),
         FrameOk(f),
         Top.kind \in {"code", "service"} <=> f.kind \in {"handle", "unwind"}
  PROVE  StackInv'
<1>. DEFINE n == Len(stack)
<1>1. n \in Nat \ {0} /\ Len(stack') = n + 1 /\ Top = stack[n]
  BY StackTypes DEF StepPush
<1>2. /\ \A i \in 1..n - 1 : stack'[i] = stack[i]
      /\ \A i \in 1..n : stack'[i].kind = stack[i].kind
      /\ stack'[n].ivp = stack[n].ivp /\ stack'[n].at = p
      /\ stack'[n + 1] = f
  BY <1>1 DEF StepPush, KeptBelow, TopGoes
<1>3. \A i \in 1..n : stack'[i].kind \in {"code", "service"} <=> stack'[i + 1].kind \in {"handle", "unwind"}
  BY <1>1, <1>2 DEF StackInv
<1>4. stack'[1].kind = "code"
  BY <1>1, <1>2 DEF StackInv
<1>5. ASSUME NEW i \in 1..n + 1
      PROVE  /\ stack'[i].kind = "unwind" => stack'[i].at = "undefer"
             /\ stack'[i].kind = "service" => stack'[i].ivp # "none" /\ stack'[i].at # "dispatch"
             /\ stack'[i].at = "dispatch" =>
                  stack'[i].kind = "handle" /\ stack'[i].ivp \in Irq /\ i = n + 1
  <2>1. CASE i = n + 1
    BY <1>2, <2>1 DEF FrameOk
  <2>2. CASE i = n
    BY <1>1, <1>2, <2>2 DEF StackInv, MayGo
  <2>3. CASE i \in 1..n - 1
    BY <1>1, <1>2, <2>3 DEF StackInv
  <2>. QED
    BY <1>1, <2>1, <2>2, <2>3
<1>. QED
  BY <1>1, <1>3, <1>4, <1>5 DEF StackInv

(* A step that takes the top frame off keeps it, and there is one below.   *)
LEMMA StackInvPop ==
  ASSUME TypeInv, StackInv, Top.kind # "code", StepPop
  PROVE  /\ StackInv' /\ Len(stack) >= 2
         /\ Top.kind = "service" => stack[Len(stack) - 1].kind \in {"handle", "unwind"}
<1>. DEFINE n == Len(stack)
<1>1. /\ n \in Nat \ {0} /\ Len(stack') = n - 1 /\ Top = stack[n]
      /\ \A i \in 1..n : stack[i].kind \in Kinds
  BY StackTypes DEF StepPop, Frames
<1>2. \A i \in 1..n - 1 : stack'[i] = stack[i]
  BY DEF StepPop, KeptBelow
<1>3. n >= 2
  BY <1>1 DEF StackInv
<1>4. Top.kind = "service" => stack[n - 1].kind \in {"handle", "unwind"}
  <2>1. n - 1 \in 1..n - 1 /\ (n - 1) + 1 = n
    BY <1>1, <1>3
  <2>2. stack[n - 1].kind \in {"code", "service"} <=> stack[n].kind \in {"handle", "unwind"}
    BY <2>1 DEF StackInv
  <2>. QED
    BY <1>1, <2>1, <2>2 DEF Kinds
<1>5. StackInv'
  <2>1. stack'[1].kind = "code"
    BY <1>1, <1>2, <1>3 DEF StackInv
  <2>2. \A i \in 1..n - 2 :
          stack'[i].kind \in {"code", "service"} <=> stack'[i + 1].kind \in {"handle", "unwind"}
    BY <1>1, <1>2, <1>3 DEF StackInv
  <2>3. ASSUME NEW i \in 1..n - 1
        PROVE  /\ stack'[i].kind = "unwind" => stack'[i].at = "undefer"
               /\ stack'[i].kind = "service" => stack'[i].ivp # "none" /\ stack'[i].at # "dispatch"
               /\ stack'[i].at # "dispatch"
    BY <1>1, <1>2, <1>3 DEF StackInv
  <2>. QED
    BY <1>1, <1>3, <2>1, <2>2, <2>3 DEF StackInv
<1>. QED
  BY <1>3, <1>4, <1>5

(* The device that a frame handles or is about to look at.                 *)
OwnsDevice(f) == f.ivp \in Irq /\ (f.kind = "service" \/ f.at = "dispatch")

(* A step that moves the top frame keeps each device in one place; a       *)
(* device that the frame has looked at may have gone into the deferqueue.  *)
LEMMA MaskedInvStay ==
  ASSUME TypeInv, StackInv, MaskedInv, NEW p \in Places, MayGo(p), StepStay(p),
         UNCHANGED masked,
         \A v \in Elems(deferqueue') \cap Irq :
            v \in Elems(deferqueue) \/ (Top.at = "dispatch" /\ v = Top.ivp)
  PROVE  MaskedInv'
<1>. DEFINE n == Len(stack)
<1>1. n \in Nat \ {0} /\ Len(stack') = n /\ Top = stack[n]
  BY StackTypes DEF StepStay
<1>2. /\ \A i \in 1..n - 1 : stack'[i] = stack[i]
      /\ stack'[n].kind = stack[n].kind /\ stack'[n].ivp = stack[n].ivp /\ stack'[n].at = p
  BY <1>1 DEF StepStay, KeptBelow, TopGoes
<1>3. \A i \in 1..n : Owns(i)' => Owns(i) /\ stack'[i].ivp = stack[i].ivp /\ stack[i].ivp \in Irq
  BY <1>1, <1>2 DEF Owns, MayGo
<1>4. Top.at = "dispatch" => Top.kind = "handle" /\ Top.ivp \in Irq /\ Owns(n) /\ ~Owns(n)'
  BY <1>1, <1>2 DEF StackInv, Owns, MayGo
<1>5. Elems(deferqueue') \cap Irq \subseteq masked'
  <2>1. Top.at = "dispatch" => Top.ivp \in masked
    BY <1>1, <1>4 DEF MaskedInv
  <2>. QED
    BY <2>1 DEF MaskedInv
<1>6. ASSUME NEW i \in 1..n, Owns(i)'
      PROVE  stack'[i].ivp \in masked' /\ stack'[i].ivp \notin Elems(deferqueue')
  <2>1. stack[i].ivp \in masked /\ stack[i].ivp \notin Elems(deferqueue)
    BY <1>1, <1>3, <1>6 DEF MaskedInv
  <2>2. Top.at = "dispatch" => stack[i].ivp # Top.ivp
    BY <1>1, <1>3, <1>4, <1>6 DEF MaskedInv
  <2>. QED
    BY <1>3, <1>6, <2>1, <2>2
<1>7. \A i, j \in 1..n : Owns(i)' /\ Owns(j)' /\ stack'[i].ivp = stack'[j].ivp => i = j
  BY <1>1, <1>3 DEF MaskedInv
<1>. QED
  BY <1>1, <1>5, <1>6, <1>7 DEF MaskedInv

(* A step that pushes a frame does so too, if the device of the new frame  *)
(* comes from nowhere else.                                                *)
LEMMA MaskedInvPush ==
  ASSUME TypeInv, StackInv, MaskedInv, NEW p \in Places, MayGo(p), NEW f \in Frames, StepPush(p, f),
         masked \subseteq masked', Elems(deferqueue') \subseteq Elems(deferqueue),
         OwnsDevice(f) =>
           /\ f.ivp \in masked' /\ f.ivp \notin Elems(deferqueue')
           /\ \A i \in 1..Len(stack) :
                Owns(i) /\ stack[i].ivp = f.ivp => i = Len(stack) /\ Top.at = "dispatch"
  PROVE  MaskedInv'
<1>0. PICK n \in Nat \ {0} : n = Len(stack)
  BY StackTypes
<1>1. n \in 1..n /\ Len(stack') = n + 1 /\ Top = stack[n]
  BY <1>0, StackTypes DEF StepPush
<1>2. /\ \A i \in 1..n - 1 : stack'[i] = stack[i]
      /\ stack'[n].kind = stack[n].kind /\ stack'[n].ivp = stack[n].ivp /\ stack'[n].at = p
      /\ stack'[n + 1] = f
  BY <1>0, <1>1 DEF StepPush, KeptBelow, TopGoes
<1>3. \A i \in 1..n : Owns(i)' => Owns(i) /\ stack'[i].ivp = stack[i].ivp
  BY <1>1, <1>2 DEF Owns, MayGo
<1>4. Top.at = "dispatch" => ~Owns(n)'
  BY <1>0, <1>1, <1>2 DEF StackInv, Owns, MayGo
<1>5. Owns(n + 1)' <=> OwnsDevice(f)
  BY <1>2 DEF Owns, OwnsDevice
<1>6. Elems(deferqueue') \cap Irq \subseteq masked'
  BY DEF MaskedInv
<1>7. ASSUME NEW i \in 1..n + 1, Owns(i)'
      PROVE  stack'[i].ivp \in masked' /\ stack'[i].ivp \notin Elems(deferqueue')
  <2>1. CASE i = n + 1
    BY <1>2, <1>5, <1>7, <2>1
  <2>2. CASE i \in 1..n
    <3>1. stack[i].ivp \in masked /\ stack[i].ivp \notin Elems(deferqueue)
      BY <1>0, <1>3, <1>7, <2>2 DEF MaskedInv
    <3>. QED
      BY <1>3, <1>7, <2>2, <3>1
  <2>. QED
    BY <1>1, <2>1, <2>2
<1>8. ASSUME NEW i \in 1..n, Owns(i)', OwnsDevice(f) PROVE stack'[i].ivp # f.ivp
  BY <1>0, <1>1, <1>3, <1>4, <1>8
<1>9. ASSUME NEW i \in 1..n + 1, NEW j \in 1..n + 1,
             Owns(i)', Owns(j)', stack'[i].ivp = stack'[j].ivp
      PROVE  i = j
  <2>1. CASE i \in 1..n /\ j \in 1..n
    BY <1>0, <1>3, <1>9, <2>1 DEF MaskedInv
  <2>2. CASE i = n + 1 /\ j \in 1..n
    BY <1>2, <1>5, <1>8, <1>9, <2>2
  <2>3. CASE i \in 1..n /\ j = n + 1
    BY <1>2, <1>5, <1>8, <1>9, <2>3
  <2>. QED
    BY <1>1, <2>1, <2>2, <2>3
<1>. QED
  BY <1>1, <1>6, <1>7, <1>9 DEF MaskedInv

(* So does one that takes the top frame off, and unmasks its device.       *)
LEMMA MaskedInvPop ==
  ASSUME TypeInv, StackInv, MaskedInv, StepPop, UNCHANGED deferqueue,
         masked' = masked \/ (Top.kind = "service" /\ masked' = masked \ {Top.ivp})
  PROVE  MaskedInv'
<1>. DEFINE n == Len(stack)
<1>1. n \in Nat \ {0} /\ Len(stack') = n - 1 /\ Top = stack[n] /\ n \in 1..n
  BY StackTypes DEF StepPop
<1>2. \A i \in 1..n - 1 : stack'[i] = stack[i] /\ (Owns(i)' <=> Owns(i))
  BY DEF StepPop, KeptBelow, Owns
<1>3. CASE masked' = masked
  BY <1>1, <1>2, <1>3 DEF MaskedInv
<1>4. CASE Top.kind = "service" /\ masked' = masked \ {Top.ivp}
  <2>1. Top.ivp \in Irq => Owns(n)
    BY <1>1, <1>4 DEF Owns
  <2>2. Elems(deferqueue') \cap Irq \subseteq masked'
    BY <1>1, <1>4, <2>1 DEF MaskedInv
  <2>3. ASSUME NEW i \in 1..n - 1, Owns(i)
        PROVE  stack[i].ivp \in masked' /\ stack[i].ivp \notin Elems(deferqueue)
    <3>1. stack[i].ivp \in masked /\ stack[i].ivp \notin Elems(deferqueue) /\ stack[i].ivp \in Irq
      BY <1>1, <2>3 DEF MaskedInv, Owns
    <3>2. stack[i].ivp # Top.ivp
      BY <1>1, <2>1, <2>3, <3>1 DEF MaskedInv
    <3>. QED
      BY <1>4, <3>1, <3>2
  <2>. QED
    BY <1>1, <1>2, <2>2, <2>3 DEF MaskedInv
<1>. QED
  BY <1>3, <1>4

-----------------------------------------------------------------------------
(* Each step, the deferqueue, the stack and masked.                        *)

(* A step that leaves the three alone.                                     *)
LEMMA CoreSame ==
  ASSUME Core, UNCHANGED <<stack, queueVars, masked>>, ipl' \in PLBASE..PLHI
  PROVE  Core'
<1>1. /\ stack' = stack /\ masked' = masked /\ deferqueue' = deferqueue /\ picipl' = picipl
      /\ mseventsdeferred' = mseventsdeferred
  BY DEF queueVars
<1>2. TypeInv' /\ QueueInv'
  BY <1>1 DEF Core, TypeInv, QueueInv
<1>3. StackInv'
  BY <1>1 DEF Core, StackInv
<1>4. MaskedInv'
  <2>1. \A i \in 1..Len(stack) : Owns(i)' <=> Owns(i)
    BY <1>1 DEF Owns
  <2>. QED
    BY <1>1, <2>1 DEF Core, MaskedInv
<1>. QED
  BY <1>2, <1>3, <1>4 DEF Core

(* A step that calls intr_defer, and moves the top frame or nothing.       *)
LEMMA CoreDefer ==
  ASSUME Core, NEW v \in Deferrable, Defer(v), UNCHANGED masked, ipl' \in PLBASE..PLHI,
         v \in Irq => Top.at = "dispatch" /\ v = Top.ivp,
         NEW p \in Places, MayGo(p), StepStay(p)
  PROVE  /\ Core' /\ Elems(deferqueue') = Elems(deferqueue) \cup {v}
         /\ picipl' = picipl \/ picipl' = Intpri(v)
<1>1. TypeInv /\ QueueInv /\ StackInv /\ MaskedInv
  BY DEF Core
<1>2. v \in Irq => v \notin Elems(deferqueue)
  <2>1. PICK n \in Nat \ {0} : n = Len(stack) /\ Top = stack[n] /\ n \in 1..n
    BY <1>1, StackTypes
  <2>2. v \in Irq => Owns(n) /\ stack[n].ivp = v
    BY <2>1 DEF Owns
  <2>. QED
    BY <1>1, <2>1, <2>2 DEF MaskedInv
<1>3. /\ deferqueue' \in Seq(Deferrable) /\ QueueInv'
      /\ Elems(deferqueue') = Elems(deferqueue) \cup {v}
      /\ picipl' = picipl \/ picipl' = Intpri(v)
  BY <1>1, <1>2, DeferShape
<1>4. StackInv'
  BY <1>1, StackInvStay
<1>5. MaskedInv'
  BY <1>1, <1>3, MaskedInvStay
<1>6. TypeInv'
  BY <1>1, <1>3, StackTypes DEF StepStay, TypeInv
<1>. QED
  BY <1>3, <1>4, <1>5, <1>6 DEF Core

(* A step that moves the top frame.                                        *)
LEMMA CoreStay ==
  ASSUME Core, UNCHANGED <<queueVars, masked>>, ipl' \in PLBASE..PLHI,
         NEW p \in Places, MayGo(p), StepStay(p)
  PROVE  Core'
<1>1. TypeInv /\ QueueInv /\ StackInv /\ MaskedInv
  BY DEF Core
<1>2. deferqueue' = deferqueue /\ picipl' = picipl /\ mseventsdeferred' = mseventsdeferred
  BY DEF queueVars
<1>3. StackInv'
  BY <1>1, StackInvStay
<1>4. MaskedInv'
  BY <1>1, <1>2, MaskedInvStay
<1>5. TypeInv' /\ QueueInv'
  BY <1>1, <1>2, StackTypes DEF StepStay, TypeInv, QueueInv
<1>. QED
  BY <1>3, <1>4, <1>5 DEF Core

(* A step that pushes a frame.                                             *)
LEMMA CorePush ==
  ASSUME Core, UNCHANGED queueVars, masked \subseteq masked', ipl' \in PLBASE..PLHI,
         NEW p \in Places, MayGo(p), NEW f \in Frames, StepPush(p, f), FrameOk(f),
         Top.kind \in {"code", "service"} <=> f.kind \in {"handle", "unwind"},
         OwnsDevice(f) =>
           /\ f.ivp \in masked' /\ f.ivp \notin Elems(deferqueue)
           /\ \A i \in 1..Len(stack) :
                Owns(i) /\ stack[i].ivp = f.ivp => i = Len(stack) /\ Top.at = "dispatch"
  PROVE  Core'
<1>1. TypeInv /\ QueueInv /\ StackInv /\ MaskedInv
  BY DEF Core
<1>2. deferqueue' = deferqueue /\ picipl' = picipl /\ mseventsdeferred' = mseventsdeferred
  BY DEF queueVars
<1>3. StackInv'
  BY <1>1, StackInvPush
<1>4. MaskedInv'
  BY <1>1, <1>2, MaskedInvPush
<1>5. TypeInv' /\ QueueInv'
  BY <1>1, <1>2, StackTypes DEF StepPush, TypeInv, QueueInv
<1>. QED
  BY <1>3, <1>4, <1>5 DEF Core

(* A step that takes a frame off.                                          *)
LEMMA CorePop ==
  ASSUME Core, UNCHANGED queueVars, ipl' \in PLBASE..PLHI, Top.kind # "code", StepPop,
         masked' = masked \/ (Top.kind = "service" /\ masked' = masked \ {Top.ivp})
  PROVE  Core'
<1>1. TypeInv /\ QueueInv /\ StackInv /\ MaskedInv
  BY DEF Core
<1>2. deferqueue' = deferqueue /\ picipl' = picipl /\ mseventsdeferred' = mseventsdeferred
  BY DEF queueVars
<1>3. StackInv' /\ Len(stack) >= 2
  BY <1>1, StackInvPop
<1>4. MaskedInv'
  BY <1>1, <1>2, MaskedInvPop
<1>5. TypeInv' /\ QueueInv'
  BY <1>1, <1>2, <1>3, StackTypes DEF StepPop, TypeInv, QueueInv
<1>. QED
  BY <1>3, <1>4, <1>5 DEF Core

(* The top frame.                                                          *)
LEMMA TopTypes ==
  ASSUME Core
  PROVE  /\ Top \in Frames /\ Top.at \in Places /\ Top.pl \in PLBASE..PLHI
         /\ Top.kind \in Kinds /\ Top.ivp \in Irq \cup {"clock", "swint", "xcall", "none"}
         /\ FrameOk(Top)
         /\ Floor \in PLBASE..PLHI \/ Top.kind \notin {"code", "service"}
<1>1. PICK n \in Nat \ {0} : n = Len(stack) /\ Top = stack[n] /\ n \in 1..n /\ Top \in Frames
  BY StackTypes DEF Core
<1>2. FrameOk(Top)
  BY <1>1 DEF Core, StackInv, FrameOk
<1>3. Floor \in PLBASE..PLHI \/ Top.kind \notin {"code", "service"}
  <2>1. Top.kind = "service" => Top.ivp \in Deferrable \cup {"xcall"}
    BY <1>1, <1>2 DEF FrameOk, Frames, Deferrable
  <2>2. Top.ivp \in Deferrable \cup {"xcall"} => Intpri(Top.ivp) \in PLBASE..PLHI
    BY Priorities DEF PLBASE, PL1, PLHI
  <2>. QED
    BY <2>1, <2>2 DEF Floor, PLBASE, PLHI
<1>. QED
  BY <1>1, <1>2, <1>3 DEF Frames

(* The levels of intr_service.                                             *)
LEMMA ServiceLevels ==
  ASSUME NEW v \in Deferrable \cup {"xcall"}
  PROVE  Intpri(v) \in PLBASE..PLHI /\ v \in Irq \cup {"clock", "swint", "xcall"}
  BY Priorities DEF Deferrable, PLBASE, PL1, PLHI

(* intr_service pushes a handler whose device comes from nowhere else.     *)
LEMMA CoreService ==
  ASSUME Core, NEW v \in Deferrable \cup {"xcall"}, NEW p \in Places, MayGo(p), Service(v, p),
         UNCHANGED <<queueVars, masked>>, Top.kind \in {"handle", "unwind"},
         v \in Irq => Top.at = "dispatch" /\ v = Top.ivp
  PROVE  Core'
<1>. DEFINE f == Frame("service", "run", v, ipl)
<1>1. StepPush(p, f) /\ ipl' \in PLBASE..PLHI
  BY ServiceShape, ServiceLevels DEF Core
<1>2. f \in Frames /\ FrameOk(f) /\ f.kind = "service" /\ f.ivp = v /\ v # "none"
  <2>1. v # "none"
    BY IntrAssumption DEF IntrAssumption, Deferrable
  <2>. QED
    BY <2>1, FrameTypes, ServiceLevels DEF Core, TypeInv, Frame, FrameOk
<1>. HIDE DEF f
<1>3. v \in Irq => /\ v \in masked /\ v \notin Elems(deferqueue)
                   /\ \A i \in 1..Len(stack) : Owns(i) /\ stack[i].ivp = v => i = Len(stack)
  <2>. SUFFICES ASSUME v \in Irq
                PROVE  /\ v \in masked /\ v \notin Elems(deferqueue)
                       /\ \A i \in 1..Len(stack) : Owns(i) /\ stack[i].ivp = v => i = Len(stack)
    OBVIOUS
  <2>1. Len(stack) \in 1..Len(stack) /\ Top = stack[Len(stack)]
    BY StackTypes DEF Core
  <2>2. Owns(Len(stack)) /\ stack[Len(stack)].ivp = v
    BY <2>1 DEF Owns
  <2>. QED
    BY <2>1, <2>2 DEF Core, MaskedInv
<1>4. masked \subseteq masked' /\ masked' = masked /\ UNCHANGED queueVars
  OBVIOUS
<1>. QED
  BY <1>1, <1>2, <1>3, <1>4, CorePush DEF OwnsDevice

(* The places of the handlers of msintr.c.                                 *)
LEMMA PlaceTypes ==
  {"run", "check", "splunwind", "return", "dispatch", "xcall", "tick", "soft", "undefer"} = Places
  BY DEF Places

(* intr_undefer: the device of the handler was in the deferqueue.          *)
LEMMA CoreUndefer ==
  ASSUME Core, Undefer
  PROVE  /\ Core' /\ Elems(deferqueue') = Elems(deferqueue) \ {Head(deferqueue)}
         /\ picipl' <= ipl' /\ ipl' = Intpri(Head(deferqueue))
         /\ Head(deferqueue) \in Deferrable
         /\ StepPush("undefer", Frame("service", "run", Head(deferqueue), ipl))
<1>. DEFINE h == Head(deferqueue)
            f == Frame("service", "run", h, ipl)
<1>1. TypeInv /\ QueueInv /\ StackInv /\ MaskedInv
  BY DEF Core
<1>2. /\ h \in Elems(deferqueue) /\ h \in Deferrable
      /\ deferqueue' \in Seq(Deferrable) /\ QueueInv'
      /\ Elems(deferqueue') = Elems(deferqueue) \ {h}
      /\ picipl' <= Intpri(h)
  BY <1>1, UndeferShape
<1>3. /\ Service(h, "undefer") /\ masked' = masked
      /\ Top.kind \in {"handle", "unwind"} /\ Top.at = "undefer"
  BY DEF Undefer, At
<1>4. h \in Deferrable \cup {"xcall"} /\ h # "none" /\ ipl \in PLBASE..PLHI
  BY <1>1, <1>2, IntrAssumption DEF IntrAssumption, Deferrable, TypeInv
<1>5. h \in Irq \cup {"clock", "swint", "xcall"} /\ Intpri(h) \in PLBASE..PLHI
  BY <1>4, ServiceLevels
<1>6. /\ f \in Frames /\ FrameOk(f)
      /\ f.kind = "service" /\ f.ivp = h /\ f.at = "run"
  BY <1>4, <1>5, FrameTypes DEF Frame, FrameOk
<1>. HIDE DEF h
<1>7. StepPush("undefer", f) /\ ipl' = Intpri(h)
  BY <1>1, <1>3, <1>5, PlaceTypes, ServiceShape
<1>. HIDE DEF f
<1>8. "undefer" \in Places /\ MayGo("undefer")
  BY PlaceTypes DEF MayGo
<1>9. StackInv'
  BY <1>1, <1>3, <1>6, <1>7, <1>8, StackInvPush
<1>10. MaskedInv'
  <2>1. h \in Irq => /\ h \in masked'
                     /\ \A i \in 1..Len(stack) : ~(Owns(i) /\ stack[i].ivp = h)
    BY <1>1, <1>2, <1>3 DEF MaskedInv
  <2>2. masked \subseteq masked' /\ Elems(deferqueue') \subseteq Elems(deferqueue)
    BY <1>2, <1>3
  <2>3. h \notin Elems(deferqueue')
    BY <1>2
  <2>4. OwnsDevice(f) =>
           /\ f.ivp \in masked' /\ f.ivp \notin Elems(deferqueue')
           /\ \A i \in 1..Len(stack) :
                Owns(i) /\ stack[i].ivp = f.ivp => i = Len(stack) /\ Top.at = "dispatch"
    BY <1>6, <2>1, <2>3 DEF OwnsDevice
  <2>. QED
    BY <1>1, <1>6, <1>7, <1>8, <2>2, <2>4, MaskedInvPush
<1>11. TypeInv'
  BY <1>1, <1>2, <1>5, <1>7, StackTypes DEF StepPush, TypeInv
<1>. QED
  BY <1>2, <1>7, <1>9, <1>10, <1>11 DEF Core, f, h

-----------------------------------------------------------------------------
(* Each shape of a step, what waits in the deferqueue and what was sent.   *)

(* The two parts of SoftKept.                                              *)
Handles(i) == stack[i].kind = "service" /\ stack[i].ivp = "swint" /\ stack[i].at # "return"
FlagsKept  == eventflags # {} =>
                "swint" \in Elems(deferqueue) \/ \E i \in 1..Len(stack) : Handles(i)
MailKept   == softmbox # {} => sending \/ "MS_EVENT_SOFT" \in xpost \cup msevents

(* SoftKept is the conjunction of its two parts, before and after a step.   *)
LEMMA SoftParts ==
  (SoftKept <=> FlagsKept /\ MailKept) /\ (SoftKept' <=> FlagsKept' /\ MailKept')
  BY Zenon DEF SoftKept, FlagsKept, MailKept, Queued, Elems, Handles

(* The top frame goes on, and does not run below what is deferred.         *)
LEMMA StrandedStay ==
  ASSUME Core, NEW p \in Places, StepStay(p),
         p # "run" \/ Top.kind \notin {"code", "service"} \/ ~(picipl' > ipl')
  PROVE  NothingStranded'
<1>1. PICK n \in Nat \ {0} : n = Len(stack) /\ Top = stack[n]
  BY StackTypes DEF Core
<1>2. Top'.kind = Top.kind /\ Top'.at = p
  BY <1>1 DEF StepStay, TopGoes, Top
<1>. QED
  BY <1>2 DEF NothingStranded, Runs, Enabled

(* A frame is pushed: intr_handle or splunwind, a handler at least as high *)
(* as what is deferred, or one that intr_handle runs at a higher level     *)
(* than that it interrupted.                                               *)
LEMMA StrandedPush ==
  ASSUME Core, NEW p \in Places, NEW f, StepPush(p, f),
         \/ f.kind \in {"handle", "unwind"}
         \/ ~(picipl' > ipl')
         \/ Top.kind \in {"handle", "unwind"} /\ f.pl < picipl'
  PROVE  NothingStranded'
<1>1. PICK n \in Nat \ {0} : n = Len(stack) /\ Top = stack[n]
  BY StackTypes DEF Core
<1>2. /\ Top' = f /\ Len(stack') = n + 1 /\ stack'[n].kind = Top.kind /\ stack'[n + 1] = f
  BY <1>1 DEF StepPush, TopGoes, Top
<1>3. n \in 1..Len(stack') - 1
  BY <1>2
<1>4. CASE f.kind \in {"handle", "unwind"} \/ ~(picipl' > ipl')
  BY <1>2, <1>4 DEF NothingStranded, Runs, Enabled
<1>5. CASE Top.kind \in {"handle", "unwind"} /\ f.pl < picipl'
  BY <1>2, <1>3, <1>5 DEF NothingStranded
<1>. QED
  BY <1>4, <1>5

(* Nothing runs, or as before.                                             *)
LEMMA StrandedSame ==
  ASSUME NothingStranded, UNCHANGED stack,
         picipl' > ipl' => picipl > ipl /\ picipl' = picipl
  PROVE  NothingStranded'
  BY DEF NothingStranded, Runs, Enabled, Top

(* The top frame goes on; softint_hdlr returns only when no flag is left.  *)
LEMMA FlagsStay ==
  ASSUME Core, FlagsKept, NEW p \in Places, StepStay(p),
         \/ eventflags' = {}
         \/ "swint" \in Elems(deferqueue')
         \/ /\ eventflags' = eventflags /\ Elems(deferqueue) \subseteq Elems(deferqueue')
            /\ p = "return" => Top.ivp # "swint"
  PROVE  FlagsKept'
<1>1. PICK n \in Nat \ {0} : n = Len(stack) /\ Top = stack[n]
  BY StackTypes DEF Core
<1>2. /\ \A i \in 1..n - 1 : stack'[i] = stack[i]
      /\ stack'[n].kind = stack[n].kind /\ stack'[n].ivp = stack[n].ivp /\ stack'[n].at = p
      /\ Len(stack') = n
  BY <1>1 DEF StepStay, KeptBelow, TopGoes
<1>3. CASE eventflags' = {} \/ "swint" \in Elems(deferqueue')
  BY <1>3 DEF FlagsKept
<1>4. CASE /\ eventflags' = eventflags /\ Elems(deferqueue) \subseteq Elems(deferqueue')
           /\ p = "return" => Top.ivp # "swint"
  <2>1. \A i \in 1..n : Handles(i) => Handles(i)'
    BY <1>1, <1>2, <1>4 DEF Handles
  <2>. QED
    BY <1>1, <1>2, <1>4, <2>1 DEF FlagsKept
<1>. QED
  BY <1>3, <1>4

(* A frame is pushed; softint_hdlr may leave the deferqueue for it.        *)
LEMMA FlagsPush ==
  ASSUME Core, FlagsKept, NEW p \in Places, NEW f, StepPush(p, f),
         \/ f.kind = "service" /\ f.ivp = "swint" /\ f.at = "run"
         \/ /\ eventflags' = eventflags
            /\ "swint" \in Elems(deferqueue) => "swint" \in Elems(deferqueue')
            /\ p = "return" => Top.at = "return"
  PROVE  FlagsKept'
<1>1. PICK n \in Nat \ {0} : n = Len(stack) /\ Top = stack[n]
  BY StackTypes DEF Core
<1>2. /\ \A i \in 1..n - 1 : stack'[i] = stack[i]
      /\ stack'[n].kind = stack[n].kind /\ stack'[n].ivp = stack[n].ivp /\ stack'[n].at = p
      /\ Len(stack') = n + 1 /\ stack'[n + 1] = f /\ n + 1 \in 1..n + 1
  BY <1>1 DEF StepPush, KeptBelow, TopGoes
<1>3. CASE f.kind = "service" /\ f.ivp = "swint" /\ f.at = "run"
  BY <1>2, <1>3 DEF FlagsKept, Handles
<1>4. CASE /\ eventflags' = eventflags
           /\ "swint" \in Elems(deferqueue) => "swint" \in Elems(deferqueue')
           /\ p = "return" => Top.at = "return"
  <2>1. \A i \in 1..n : Handles(i) => Handles(i)'
    BY <1>1, <1>2, <1>4 DEF Handles
  <2>. QED
    BY <1>1, <1>2, <1>4, <2>1 DEF FlagsKept
<1>. QED
  BY <1>3, <1>4

(* A frame goes that is not softint_hdlr, or is at its end.                *)
LEMMA FlagsPop ==
  ASSUME Core, FlagsKept, StepPop, Top.kind # "service" \/ Top.at = "return",
         UNCHANGED <<eventflags, deferqueue>>
  PROVE  FlagsKept'
<1>1. PICK n \in Nat \ {0} : n = Len(stack) /\ Top = stack[n]
  BY StackTypes DEF Core
<1>2. \A i \in 1..n - 1 : stack'[i] = stack[i] /\ Len(stack') = n - 1
  BY <1>1 DEF StepPop, KeptBelow
<1>3. \A i \in 1..n : Handles(i) => i \in 1..n - 1 /\ Handles(i)'
  BY <1>1, <1>2 DEF Handles
<1>. QED
  BY <1>1, <1>2, <1>3 DEF FlagsKept

(* Nothing happens to the stack.                                           *)
LEMMA FlagsSame ==
  ASSUME FlagsKept, UNCHANGED <<stack, deferqueue>>, eventflags' # {} => eventflags # {}
  PROVE  FlagsKept'
  BY DEF FlagsKept, Handles

-----------------------------------------------------------------------------
(* The steps.                                                              *)

Kept == Core /\ NothingStranded /\ FlagsKept

(* Nothing waits at a level that is not a level.                           *)
LEMMA PicIpl ==
  ASSUME Core
  PROVE  picipl \in PLBASE..PLHI /\ ipl \in PLBASE..PLHI
<1>1. deferqueue \in Seq(Deferrable) /\ picipl = Highest(deferqueue) /\ ipl \in PLBASE..PLHI
  BY DEF Core, TypeInv, QueueInv
<1>2. CASE deferqueue = <<>>
  BY <1>1, <1>2 DEF Highest, PLBASE, PLHI
<1>3. CASE deferqueue # <<>>
  <2>1. Head(deferqueue) \in Deferrable
    BY <1>1, <1>3, HeadTailProperties
  <2>. QED
    BY <1>1, <1>3, <2>1, ServiceLevels DEF Highest
<1>. QED
  BY <1>1, <1>2, <1>3

(* The same of the next state.                                             *)
LEMMA PicIplNext ==
  ASSUME Core'
  PROVE  picipl' \in PLBASE..PLHI
<1>1. deferqueue' \in Seq(Deferrable) /\ picipl' = Highest(deferqueue')
  BY DEF Core, TypeInv, QueueInv
<1>2. CASE deferqueue' = <<>>
  BY <1>1, <1>2 DEF Highest, PLBASE, PLHI
<1>3. CASE deferqueue' # <<>>
  <2>1. Head(deferqueue') \in Deferrable
    BY <1>1, <1>3, HeadTailProperties
  <2>. QED
    BY <1>1, <1>3, <2>1, ServiceLevels DEF Highest
<1>. QED
  BY <1>1, <1>2, <1>3

(* Code and handlers: the spl routines, soft interrupts, the return.       *)
LEMMA RaiseKeeps ==
  ASSUME Kept, Raise
  PROVE  Kept'
<1>1. /\ UNCHANGED <<stack, queueVars, masked>> /\ stack' = stack /\ picipl' = picipl
      /\ deferqueue' = deferqueue /\ eventflags' = eventflags
      /\ ipl' \in Levels /\ ipl < ipl' /\ Levels \subseteq PLBASE..PLHI
  BY IntrAssumption DEF Raise, queueVars, softVars, IntrAssumption
<1>2. ipl' \in PLBASE..PLHI /\ (picipl' > ipl' => picipl > ipl)
  BY <1>1, PicIpl DEF Kept, PLBASE, PLHI
<1>. QED
  BY <1>1, <1>2, CoreSame, StrandedSame, FlagsSame DEF Kept

(* The spl routine stores ipl; what it uncovers waits for its look at picipl.*)
LEMMA LowerKeeps ==
  ASSUME Kept, Lower
  PROVE  Kept'
<1>1. /\ UNCHANGED <<queueVars, masked>> /\ deferqueue' = deferqueue /\ eventflags' = eventflags
      /\ stack' = Stay("check") /\ Top.kind \in {"code", "service"}
      /\ ipl' \in Levels \cup {Floor}
  BY DEF Lower, queueVars, softVars, Runs, Enabled
<1>2. TypeInv /\ Core /\ NothingStranded /\ FlagsKept
  BY DEF Kept, Core
<1>3. ipl' \in PLBASE..PLHI
  BY <1>1, <1>2, TopTypes, IntrAssumption DEF IntrAssumption
<1>4. "check" \in Places /\ MayGo("check") /\ StepStay("check")
  BY <1>1, <1>2, PlaceTypes, StayShape DEF MayGo
<1>5. Core'
  BY <1>1, <1>2, <1>3, <1>4, CoreStay
<1>6. NothingStranded'
  BY <1>2, <1>4, StrandedStay
<1>7. FlagsKept'
  BY <1>1, <1>2, <1>4, FlagsStay
<1>. QED
  BY <1>5, <1>6, <1>7 DEF Kept

(* The look at picipl after the store of ipl.                               *)
LEMMA CheckKeeps ==
  ASSUME Kept, Check
  PROVE  Kept'
<1>. DEFINE p == IF picipl > ipl THEN "splunwind" ELSE "run"
<1>1. /\ UNCHANGED <<queueVars, masked>> /\ deferqueue' = deferqueue /\ eventflags' = eventflags
      /\ stack' = Stay(p) /\ Top.kind \in {"code", "service"}
      /\ ipl' = ipl /\ picipl' = picipl
  BY DEF Check, queueVars, softVars, At
<1>2. TypeInv /\ Core /\ NothingStranded /\ FlagsKept /\ ipl' \in PLBASE..PLHI
  BY <1>1, PicIpl DEF Kept, Core
<1>3. p # "run" \/ ~(picipl' > ipl')
  BY <1>1
<1>4. p \in Places /\ p # "return" /\ p # "dispatch"
  BY PlaceTypes
<1>. HIDE DEF p
<1>5. MayGo(p) /\ StepStay(p)
  BY <1>1, <1>2, <1>4, StayShape DEF MayGo
<1>6. Core'
  BY <1>1, <1>2, <1>4, <1>5, CoreStay
<1>7. NothingStranded'
  BY <1>2, <1>3, <1>4, <1>5, StrandedStay
<1>8. FlagsKept'
  BY <1>1, <1>2, <1>4, <1>5, FlagsStay
<1>. QED
  BY <1>6, <1>7, <1>8 DEF Kept

(* splunwind disables interrupts and enters intr_undefer.                   *)
LEMMA SplunwindKeeps ==
  ASSUME Kept, Splunwind
  PROVE  Kept'
<1>. DEFINE f == Frame("unwind", "undefer", "none", PLBASE)
<1>1. /\ UNCHANGED <<queueVars, masked>> /\ deferqueue' = deferqueue /\ eventflags' = eventflags
      /\ stack' = Append(Stay("run"), f) /\ Top.kind \in {"code", "service"}
      /\ ipl' = ipl /\ masked \subseteq masked'
  BY DEF Splunwind, queueVars, softVars, At
<1>2. TypeInv /\ Core /\ NothingStranded /\ FlagsKept /\ ipl' \in PLBASE..PLHI
  BY <1>1, PicIpl DEF Kept, Core
<1>3. f \in Frames /\ f.kind = "unwind" /\ FrameOk(f) /\ ~OwnsDevice(f)
  BY FrameTypes DEF Frame, FrameOk, OwnsDevice
<1>. HIDE DEF f
<1>4. "run" \in Places /\ MayGo("run") /\ StepPush("run", f)
  BY <1>1, <1>2, <1>3, PlaceTypes, StayPushShape DEF MayGo
<1>5. Core'
  BY <1>1, <1>2, <1>3, <1>4, CorePush
<1>6. NothingStranded'
  BY <1>2, <1>3, <1>4, StrandedPush
<1>7. FlagsKept'
  BY <1>1, <1>2, <1>4, FlagsPush
<1>. QED
  BY <1>5, <1>6, <1>7 DEF Kept

(* A soft interrupt that the engine sends itself is deferred, or is already.*)
LEMMA SendSelfKeeps ==
  ASSUME Kept, SendSelf
  PROVE  Kept'
<1>1. /\ stack' = stack /\ masked' = masked /\ ipl' = ipl /\ Defer("swint") /\ ipl >= PL1
      /\ Top.kind \in {"code", "service"}
  BY DEF SendSelf, Runs, Enabled
<1>2. TypeInv /\ Core /\ NothingStranded /\ FlagsKept /\ picipl \in PLBASE..PLHI /\ ipl \in PLBASE..PLHI
  BY PicIpl DEF Kept, Core
<1>3. Top \in Frames /\ Top.at \in Places /\ Top.at # "dispatch" /\ MayGo(Top.at)
  BY <1>1, <1>2, TopTypes DEF FrameOk, MayGo
<1>4. StepStay(Top.at)
  BY <1>1, <1>2 DEF StepStay, KeptBelow, TopGoes, Top, TypeInv
<1>5. "swint" \in Deferrable /\ "swint" \notin Irq
  BY IntrAssumption DEF IntrAssumption, Deferrable
<1>6. /\ Core' /\ Elems(deferqueue') = Elems(deferqueue) \cup {"swint"}
      /\ picipl' = picipl \/ picipl' = Intpri("swint")
  BY <1>1, <1>2, <1>3, <1>4, <1>5, CoreDefer
<1>7. picipl' > ipl' => picipl > ipl /\ picipl' = picipl
  BY <1>1, <1>2, <1>6, Priorities DEF PLBASE, PL1, PLHI
<1>8. NothingStranded'
  BY <1>1, <1>2, <1>7, StrandedSame
<1>9. FlagsKept'
  BY <1>6 DEF FlagsKept
<1>. QED
  BY <1>6, <1>8, <1>9 DEF Kept

(* softint_hdlr takes one flag, and looks for the others again.             *)
LEMMA SoftintKeeps ==
  ASSUME Kept, Softint
  PROVE  Kept'
<1>1. /\ UNCHANGED <<stack, queueVars, masked>> /\ stack' = stack /\ picipl' = picipl
      /\ deferqueue' = deferqueue /\ ipl' = ipl /\ eventflags # {}
  BY DEF Softint, queueVars
<1>2. ipl' \in PLBASE..PLHI /\ (picipl' > ipl' => picipl > ipl)
  BY <1>1, PicIpl DEF Kept
<1>. QED
  BY <1>1, <1>2, CoreSame, StrandedSame, FlagsSame DEF Kept

(* A handler returns to the code that called it, its level still raised.    *)
LEMMA HandlerReturnKeeps ==
  ASSUME Kept, HandlerReturn
  PROVE  Kept'
<1>1. /\ UNCHANGED <<queueVars, masked>> /\ deferqueue' = deferqueue /\ eventflags' = eventflags
      /\ stack' = Stay("return") /\ Top.kind \in {"code", "service"} /\ ipl' = ipl
      /\ Top.ivp = "swint" => eventflags' = {}
  BY DEF HandlerReturn, queueVars, softVars, Runs, Enabled
<1>2. TypeInv /\ Core /\ NothingStranded /\ FlagsKept /\ ipl' \in PLBASE..PLHI
  BY <1>1, PicIpl DEF Kept, Core
<1>3. "return" \in Places /\ MayGo("return") /\ StepStay("return")
  BY <1>1, <1>2, PlaceTypes, StayShape DEF MayGo
<1>4. Core'
  BY <1>1, <1>2, <1>3, CoreStay
<1>5. NothingStranded'
  BY <1>2, <1>3, StrandedStay
<1>6. FlagsKept'
  BY <1>1, <1>2, <1>3, FlagsStay
<1>. QED
  BY <1>4, <1>5, <1>6 DEF Kept

(* The end of intr_service gives ipl back and unmasks the device.           *)
LEMMA CompleteKeeps ==
  ASSUME Kept, Complete
  PROVE  Kept'
<1>1. /\ UNCHANGED queueVars /\ deferqueue' = deferqueue /\ eventflags' = eventflags
      /\ stack' = Front(stack) /\ Top.kind = "service" /\ Top.at = "return"
      /\ ipl' = Top.pl /\ masked' = masked \ {Top.ivp}
  BY DEF Complete, queueVars, softVars, At
<1>2. TypeInv /\ StackInv /\ Core /\ NothingStranded /\ FlagsKept /\ ipl' \in PLBASE..PLHI
  BY <1>1, TopTypes DEF Kept, Core
<1>3. StepPop
  BY <1>1, <1>2, PopShape
<1>4. Core'
  BY <1>1, <1>2, <1>3, CorePop
<1>5. NothingStranded'
  <2>1. PICK n \in Nat \ {0} : n = Len(stack)
    BY <1>2, StackTypes
  <2>2. n >= 2 /\ stack[n - 1].kind \in {"handle", "unwind"}
    BY <1>1, <1>2, <1>3, <2>1, StackInvPop
  <2>3. Top'.kind \in {"handle", "unwind"}
    BY <1>3, <2>1, <2>2 DEF StepPop, KeptBelow, Top
  <2>. QED
    BY <2>3 DEF NothingStranded, Runs, Enabled
<1>6. FlagsKept'
  BY <1>1, <1>2, <1>3, FlagsPop
<1>. QED
  BY <1>4, <1>5, <1>6 DEF Kept

(* intr_handle is called for a device, or for what the PSM has posted.     *)
LEMMA ArriveKeeps ==
  ASSUME Kept, NEW v \in Irq, Arrive(v)
  PROVE  Kept'
<1>. DEFINE f == Frame("handle", "dispatch", v, PLBASE)
<1>1. /\ UNCHANGED queueVars /\ deferqueue' = deferqueue /\ eventflags' = eventflags
      /\ Push(f) /\ Top.kind \in {"code", "service"} /\ ipl' = ipl
      /\ v \notin masked /\ masked' = masked \cup {v} /\ masked \subseteq masked'
  BY DEF Arrive, MayArrive, Enabled, queueVars, softVars
<1>2. TypeInv /\ MaskedInv /\ Core /\ NothingStranded /\ FlagsKept /\ ipl' \in PLBASE..PLHI
  BY <1>1, PicIpl DEF Kept, Core
<1>3. /\ f \in Frames /\ f.kind = "handle" /\ f.ivp = v /\ FrameOk(f)
  BY FrameTypes DEF Frame, FrameOk
<1>. HIDE DEF f
<1>4. Top.at \in Places /\ MayGo(Top.at) /\ StepPush(Top.at, f)
  BY <1>1, <1>2, <1>3, TopTypes, PushShape DEF FrameOk, MayGo
<1>5. /\ f.ivp \in masked' /\ f.ivp \notin Elems(deferqueue)
      /\ \A i \in 1..Len(stack) : ~(Owns(i) /\ stack[i].ivp = f.ivp)
  BY <1>1, <1>2, <1>3 DEF MaskedInv
<1>6. Core'
  BY <1>1, <1>2, <1>3, <1>4, <1>5, CorePush
<1>7. NothingStranded'
  BY <1>2, <1>3, <1>4, StrandedPush
<1>8. FlagsKept'
  BY <1>1, <1>2, <1>4, FlagsPush
<1>. QED
  BY <1>6, <1>7, <1>8 DEF Kept

(* An event is posted and intr_handle entered.                              *)
LEMMA PostKeeps ==
  ASSUME Kept, NEW events, Post(events)
  PROVE  Kept'
<1>. DEFINE f == Frame("handle", "xcall", "none", PLBASE)
<1>1. /\ UNCHANGED queueVars /\ deferqueue' = deferqueue /\ eventflags' = eventflags
      /\ Push(f) /\ Top.kind \in {"code", "service"} /\ ipl' = ipl /\ masked \subseteq masked'
  BY DEF Post, MayArrive, Enabled, queueVars
<1>2. TypeInv /\ Core /\ NothingStranded /\ FlagsKept /\ ipl' \in PLBASE..PLHI
  BY <1>1, PicIpl DEF Kept, Core
<1>3. /\ f \in Frames /\ f.kind = "handle" /\ FrameOk(f) /\ ~OwnsDevice(f)
  BY FrameTypes, IntrAssumption DEF Frame, FrameOk, OwnsDevice, IntrAssumption
<1>. HIDE DEF f
<1>4. Top.at \in Places /\ MayGo(Top.at) /\ StepPush(Top.at, f)
  BY <1>1, <1>2, <1>3, TopTypes, PushShape DEF FrameOk, MayGo
<1>5. Core'
  BY <1>1, <1>2, <1>3, <1>4, CorePush
<1>6. NothingStranded'
  BY <1>2, <1>3, <1>4, StrandedPush
<1>7. FlagsKept'
  BY <1>1, <1>2, <1>4, FlagsPush
<1>. QED
  BY <1>5, <1>6, <1>7 DEF Kept

(* intr_handle goes on without running anything.                           *)
LEMMA GoesOn ==
  ASSUME Kept, NEW p \in Places, p \notin {"run", "return", "dispatch"}, stack' = Stay(p),
         Top.kind = "handle", UNCHANGED <<ipl, queueVars, eventflags, masked>>
  PROVE  Kept'
<1>1. deferqueue' = deferqueue /\ UNCHANGED <<queueVars, masked>> /\ ipl' = ipl
      /\ eventflags' = eventflags
  BY DEF queueVars
<1>2. TypeInv /\ Core /\ NothingStranded /\ FlagsKept /\ ipl' \in PLBASE..PLHI
  BY <1>1, PicIpl DEF Kept, Core
<1>3. MayGo(p) /\ StepStay(p)
  BY <1>2, StayShape DEF MayGo
<1>4. Core'
  BY <1>1, <1>2, <1>3, CoreStay
<1>5. NothingStranded'
  BY <1>2, <1>3, StrandedStay
<1>6. FlagsKept'
  BY <1>1, <1>2, <1>3, FlagsStay
<1>. QED
  BY <1>4, <1>5, <1>6 DEF Kept

(* intr_handle defers what it is not to run at this level.                 *)
LEMMA GoesOnDeferred ==
  ASSUME Kept, NEW p \in Places, p \notin {"run", "return", "dispatch"}, stack' = Stay(p),
         Top.kind = "handle", NEW v \in Deferrable, Defer(v), UNCHANGED <<ipl, masked>>,
         v = "swint" \/ UNCHANGED eventflags,
         v \in Irq => Top.at = "dispatch" /\ v = Top.ivp
  PROVE  Kept'
<1>2. TypeInv /\ Core /\ NothingStranded /\ FlagsKept /\ ipl' \in PLBASE..PLHI
  BY PicIpl DEF Kept, Core
<1>3. MayGo(p) /\ StepStay(p)
  BY <1>2, StayShape DEF MayGo
<1>4. Core' /\ Elems(deferqueue') = Elems(deferqueue) \cup {v}
  BY <1>2, <1>3, CoreDefer
<1>5. NothingStranded'
  BY <1>2, <1>3, StrandedStay
<1>6. FlagsKept'
  <2>1. "swint" \in Elems(deferqueue') \/
        (eventflags' = eventflags /\ Elems(deferqueue) \subseteq Elems(deferqueue'))
    BY <1>4
  <2>. QED
    BY <1>2, <1>3, <2>1, FlagsStay
<1>. QED
  BY <1>4, <1>5, <1>6 DEF Kept

(* intr_handle runs what is above this level.                              *)
LEMMA GoesOnServing ==
  ASSUME Kept, NEW p \in Places, p \notin {"return", "dispatch"}, Top.kind = "handle",
         NEW v \in Deferrable \cup {"xcall"}, Service(v, p), UNCHANGED <<queueVars, masked>>,
         Intpri(v) > ipl \/ Intpri(v) = PLHI,
         v = "swint" \/ UNCHANGED eventflags,
         v \in Irq => Top.at = "dispatch" /\ v = Top.ivp
  PROVE  Kept'
<1>. DEFINE f == Frame("service", "run", v, ipl)
<1>1. deferqueue' = deferqueue /\ picipl' = picipl
  BY DEF queueVars
<1>2. /\ TypeInv /\ Core /\ NothingStranded /\ FlagsKept
      /\ picipl \in PLBASE..PLHI /\ ipl \in PLBASE..PLHI
  BY PicIpl DEF Kept, Core
<1>3. MayGo(p) /\ StepPush(p, f) /\ ipl' = Intpri(v) /\ ipl' \in PLBASE..PLHI
  BY <1>2, ServiceShape, ServiceLevels DEF MayGo
<1>4. Core'
  BY <1>2, <1>3, CoreService
<1>5. f.kind = "service" /\ f.ivp = v /\ f.at = "run" /\ f.pl = ipl
  BY DEF Frame
<1>. HIDE DEF f
<1>6. NothingStranded'
  <2>1. ~(picipl' > ipl') \/ f.pl < picipl'
    BY <1>1, <1>2, <1>3, <1>5 DEF PLBASE, PLHI
  <2>. QED
    BY <1>2, <1>3, <2>1, StrandedPush
<1>7. FlagsKept'
  <2>1. \/ f.kind = "service" /\ f.ivp = "swint" /\ f.at = "run"
        \/ /\ eventflags' = eventflags
           /\ "swint" \in Elems(deferqueue) => "swint" \in Elems(deferqueue')
           /\ p = "return" => Top.at = "return"
    BY <1>1, <1>5
  <2>. QED
    BY <1>2, <1>3, <2>1, FlagsPush
<1>. QED
  BY <1>4, <1>6, <1>7 DEF Kept

(* intr_handle: the device, then the events.                               *)
LEMMA DispatchKeeps ==
  ASSUME Kept, Dispatch
  PROVE  Kept'
<1>1. /\ Top.kind = "handle" /\ Top.at = "dispatch" /\ masked' = masked /\ eventflags' = eventflags
      /\ "xcall" \in Places
  BY PlaceTypes DEF Dispatch, At, softVars
<1>2. Top.ivp \in Irq /\ Top.ivp \in Deferrable /\ Top.ivp \in Deferrable \cup {"xcall"}
  BY <1>1, TopTypes DEF Kept, FrameOk, Deferrable
<1>3. CASE Intpri(Top.ivp) <= ipl
  <2>1. Defer(Top.ivp) /\ stack' = Stay("xcall") /\ UNCHANGED <<ipl, masked>>
    BY <1>3 DEF Dispatch
  <2>. QED
    BY <1>1, <1>2, <2>1, GoesOnDeferred
<1>4. CASE ~(Intpri(Top.ivp) <= ipl)
  <2>1. Service(Top.ivp, "xcall") /\ UNCHANGED <<queueVars, masked>>
    BY <1>4 DEF Dispatch
  <2>2. Intpri(Top.ivp) > ipl
    BY <1>2, <1>4, ServiceLevels, PicIpl DEF Kept, PLBASE, PLHI
  <2>. QED
    BY <1>1, <1>2, <2>1, <2>2, GoesOnServing
<1>. QED
  BY <1>3, <1>4

(* intr_handle serves a cross-processor call.                               *)
LEMMA XcallEventKeeps ==
  ASSUME Kept, XcallEvent
  PROVE  Kept'
<1>1. /\ Top.kind = "handle" /\ masked' = masked /\ eventflags' = eventflags
      /\ UNCHANGED queueVars /\ "tick" \in Places /\ "xcall" \notin Irq
  BY PlaceTypes, IntrAssumption DEF XcallEvent, At, softVars, IntrAssumption
<1>2. CASE "MS_EVENT_XCALL" \in msevents
  <2>1. Service("xcall", "tick") /\ Intpri("xcall") = PLHI
    BY <1>2, Priorities DEF XcallEvent
  <2>. QED
    BY <1>1, <2>1, GoesOnServing
<1>3. CASE "MS_EVENT_XCALL" \notin msevents
  <2>1. stack' = Stay("tick") /\ ipl' = ipl
    BY <1>3 DEF XcallEvent
  <2>. QED
    BY <1>1, <2>1, GoesOn
<1>. QED
  BY <1>2, <1>3

(* intr_handle serves or defers the clock.                                  *)
LEMMA TickEventKeeps ==
  ASSUME Kept, TickEvent
  PROVE  Kept'
<1>1. /\ Top.kind = "handle" /\ masked' = masked /\ eventflags' = eventflags
      /\ "soft" \in Places /\ "clock" \notin Irq /\ "clock" \in Deferrable
  BY PlaceTypes, IntrAssumption DEF TickEvent, At, softVars, IntrAssumption, Deferrable
<1>2. CASE "MS_EVENT_TICK_1" \notin msevents
  <2>1. stack' = Stay("soft") /\ ipl' = ipl /\ UNCHANGED queueVars
    BY <1>2 DEF TickEvent
  <2>. QED
    BY <1>1, <2>1, GoesOn
<1>3. CASE "MS_EVENT_TICK_1" \in msevents /\ PLHI <= ipl
  <2>1. Defer("clock") /\ stack' = Stay("soft") /\ ipl' = ipl
    BY <1>3 DEF TickEvent
  <2>. QED
    BY <1>1, <2>1, GoesOnDeferred
<1>4. CASE "MS_EVENT_TICK_1" \in msevents /\ ~(PLHI <= ipl)
  <2>1. Service("clock", "soft") /\ UNCHANGED queueVars /\ Intpri("clock") = PLHI
    BY <1>4, Priorities DEF TickEvent
  <2>. QED
    BY <1>1, <2>1, GoesOnServing
<1>. QED
  BY <1>2, <1>3, <1>4

(* intr_handle moves the soft mailbox to eventflags and serves or defers.   *)
LEMMA SoftEventKeeps ==
  ASSUME Kept, SoftEvent
  PROVE  Kept'
<1>1. /\ Top.kind = "handle" /\ masked' = masked
      /\ "undefer" \in Places /\ "swint" \notin Irq /\ "swint" \in Deferrable
  BY PlaceTypes, IntrAssumption DEF SoftEvent, At, IntrAssumption, Deferrable
<1>2. CASE "MS_EVENT_SOFT" \notin msevents
  <2>1. stack' = Stay("undefer") /\ ipl' = ipl /\ UNCHANGED queueVars /\ eventflags' = eventflags
    BY <1>2 DEF SoftEvent
  <2>. QED
    BY <1>1, <2>1, GoesOn
<1>3. CASE "MS_EVENT_SOFT" \in msevents /\ PL1 <= ipl
  <2>1. Defer("swint") /\ stack' = Stay("undefer") /\ ipl' = ipl
    BY <1>3 DEF SoftEvent
  <2>. QED
    BY <1>1, <2>1, GoesOnDeferred
<1>4. CASE "MS_EVENT_SOFT" \in msevents /\ ~(PL1 <= ipl)
  <2>1. Service("swint", "undefer") /\ UNCHANGED queueVars
    BY <1>4 DEF SoftEvent
  <2>2. Intpri("swint") > ipl
    BY <1>4, Priorities, PicIpl DEF Kept, PL1, PLBASE, PLHI
  <2>. QED
    BY <1>1, <2>1, <2>2, GoesOnServing
<1>. QED
  BY <1>2, <1>3, <1>4

(* intr_undefer.                                                           *)
LEMMA UndeferKeeps ==
  ASSUME Kept, Undefer
  PROVE  Kept'
<1>. DEFINE h == Head(deferqueue)
            f == Frame("service", "run", h, ipl)
<1>1. eventflags' = eventflags /\ Core /\ FlagsKept
  BY DEF Undefer, softVars, Kept
<1>2. /\ Core' /\ Elems(deferqueue') = Elems(deferqueue) \ {h}
      /\ picipl' <= ipl' /\ h \in Deferrable /\ ipl' = Intpri(h)
      /\ StepPush("undefer", f)
  BY <1>1, CoreUndefer
<1>3. f.kind = "service" /\ f.ivp = h /\ f.at = "run"
  BY DEF Frame
<1>. HIDE DEF h, f
<1>4. "undefer" \in Places
  BY PlaceTypes
<1>5. NothingStranded'
  <2>1. picipl' \in PLBASE..PLHI /\ ipl' \in PLBASE..PLHI
    BY <1>2, ServiceLevels, PicIplNext
  <2>2. ~(picipl' > ipl')
    BY <1>2, <2>1 DEF PLBASE, PLHI
  <2>. QED
    BY <1>1, <1>2, <1>4, <2>2, StrandedPush
<1>6. FlagsKept'
  BY <1>1, <1>2, <1>3, <1>4, FlagsPush
<1>. QED
  BY <1>2, <1>5, <1>6 DEF Kept

(* Nothing that is deferred is above the level, and the frame goes.        *)
LEMMA LeaveKeeps ==
  ASSUME Kept, Leave
  PROVE  Kept'
<1>1. /\ UNCHANGED queueVars /\ deferqueue' = deferqueue /\ eventflags' = eventflags
      /\ stack' = Front(stack) /\ Top.kind \in {"handle", "unwind"}
      /\ ipl' = ipl /\ masked' = masked /\ picipl <= ipl /\ picipl' = picipl
  BY DEF Leave, queueVars, softVars, At
<1>2. /\ TypeInv /\ Core /\ NothingStranded /\ FlagsKept
      /\ ipl \in PLBASE..PLHI /\ picipl \in PLBASE..PLHI
  BY <1>1, PicIpl DEF Kept, Core
<1>3. StepPop
  BY <1>1, <1>2, PopShape
<1>4. Core'
  BY <1>1, <1>2, <1>3, CorePop
<1>5. NothingStranded'
  <2>1. ~(picipl' > ipl')
    BY <1>1, <1>2 DEF PLBASE, PLHI
  <2>. QED
    BY <2>1 DEF NothingStranded
<1>6. FlagsKept'
  BY <1>1, <1>2, <1>3, FlagsPop
<1>. QED
  BY <1>4, <1>5, <1>6 DEF Kept

(* Other engines.                                                          *)
LEMMA SendKeeps ==
  ASSUME Kept, SendMail \/ SendPost \/ XcallPost
  PROVE  Kept'
<1>1. /\ UNCHANGED <<stack, queueVars, masked>> /\ stack' = stack /\ picipl' = picipl
      /\ deferqueue' = deferqueue /\ ipl' = ipl /\ eventflags' = eventflags
  BY DEF SendMail, SendPost, XcallPost, queueVars
<1>2. ipl' \in PLBASE..PLHI /\ (picipl' > ipl' => picipl > ipl)
  BY <1>1, PicIpl DEF Kept
<1>. QED
  BY <1>1, <1>2, CoreSame, StrandedSame, FlagsSame DEF Kept

(* A flag in the mailbox has an event on its way: mssendsoft sets the flag *)
(* before it posts the event, softint_hdlr's caller takes both.            *)
LEMMA MailNext ==
  ASSUME MailKept, [Next]_vars
  PROVE  MailKept'
<1>1. CASE SendMail \/ SendPost \/ XcallPost
  BY <1>1, Zenon DEF MailKept, SendMail, SendPost, XcallPost
<1>2. CASE Tick \/ Xint
  BY <1>2, Zenon DEF MailKept, Tick, Xint, Post
<1>3. CASE SoftEvent
  <2>1. CASE "MS_EVENT_SOFT" \in msevents
    <3>1. softmbox' = {}
      BY <1>3, <2>1 DEF SoftEvent
    <3>. QED
      BY <3>1 DEF MailKept
  <2>2. CASE "MS_EVENT_SOFT" \notin msevents
    <3>1. /\ softmbox' = softmbox /\ sending' = sending /\ xpost' = xpost
          /\ msevents' = msevents \ {"MS_EVENT_SOFT"}
      BY <1>3, <2>2 DEF SoftEvent
    <3>. QED
      BY <2>2, <3>1, Zenon DEF MailKept
  <2>. QED
    BY <2>1, <2>2
<1>4. CASE XcallEvent \/ TickEvent
  <2>1. /\ softmbox' = softmbox /\ sending' = sending /\ xpost' = xpost
        /\ "MS_EVENT_SOFT" \in msevents => "MS_EVENT_SOFT" \in msevents'
    BY <1>4 DEF XcallEvent, TickEvent, softVars
  <2>. QED
    BY <2>1, Zenon DEF MailKept
<1>5. CASE \/ Raise \/ Lower \/ Check \/ Splunwind \/ SendSelf \/ Softint \/ HandlerReturn
           \/ Complete \/ (\E v \in Irq : Arrive(v)) \/ Dispatch \/ Undefer \/ Leave
           \/ UNCHANGED vars
  <2>1. softmbox' = softmbox /\ sending' = sending /\ xpost' = xpost /\ msevents' = msevents
    BY <1>5 DEF Raise, Lower, Check, Splunwind, SendSelf, Softint, HandlerReturn, Complete, Arrive,
                Dispatch, Undefer, Leave, vars, softVars
  <2>. QED
    BY <2>1, Zenon DEF MailKept
<1>. QED
  BY <1>1, <1>2, <1>3, <1>4, <1>5 DEF Next

(* The initial state: start-up code at the highest level.                  *)
LEMMA InitInv == Init => IInv
<1>. SUFFICES ASSUME Init PROVE IInv
  OBVIOUS
<1>. DEFINE f == Frame("code", "run", "none", PLBASE)
<1>1. f \in Frames /\ f.kind = "code" /\ f.at = "run"
  BY DEF Frame, Frames, Kinds, Places, PLBASE, PLHI
<1>. HIDE DEF f
<1>2. /\ stack = <<f>> /\ Len(stack) = 1 /\ stack[1] = f /\ stack \in Seq(Frames)
      /\ ipl = PLHI /\ picipl = PLBASE /\ deferqueue = <<>> /\ Len(deferqueue) = 0
      /\ deferqueue \in Seq(Deferrable) /\ mseventsdeferred = {}
      /\ eventflags = {} /\ softmbox = {}
  BY <1>1 DEF Init, f
<1>3. Elems(deferqueue) = {} /\ Events(deferqueue) = {}
  BY <1>2 DEF Elems, Events
<1>4. TypeInv
  BY <1>2 DEF TypeInv, PLBASE, PLHI
<1>5. QueueInv
  BY <1>2, <1>3 DEF QueueInv, Sorted, Distinct, Highest
<1>6. StackInv
  BY <1>1, <1>2 DEF StackInv
<1>7. MaskedInv
  BY <1>1, <1>2, <1>3 DEF MaskedInv, Owns
<1>8. NothingStranded
  BY <1>2 DEF NothingStranded, PLBASE, PLHI
<1>9. FlagsKept /\ MailKept
  BY <1>2 DEF FlagsKept, MailKept
<1>. QED
  BY <1>4, <1>5, <1>6, <1>7, <1>8, <1>9, SoftParts DEF IInv, Core

(* Every step keeps the invariant.                                         *)
LEMMA NextInv == IInv /\ [Next]_vars => IInv'
<1>. SUFFICES ASSUME IInv, [Next]_vars PROVE IInv'
  OBVIOUS
<1>1. Kept /\ MailKept
  BY SoftParts DEF IInv, Kept
<1>2. ASSUME UNCHANGED vars PROVE Kept'
  <2>1. /\ UNCHANGED <<stack, queueVars, masked>> /\ stack' = stack /\ picipl' = picipl
        /\ deferqueue' = deferqueue /\ ipl' = ipl /\ eventflags' = eventflags
    BY <1>2 DEF vars, queueVars
  <2>2. ipl' \in PLBASE..PLHI /\ (picipl' > ipl' => picipl > ipl)
    BY <1>1, <2>1, PicIpl DEF Kept
  <2>. QED
    BY <1>1, <2>1, <2>2, CoreSame, StrandedSame, FlagsSame DEF Kept
<1>3. ASSUME Next PROVE Kept'
  <2>1. ASSUME NEW v \in Irq, Arrive(v) PROVE Kept'
    BY <1>1, <2>1, ArriveKeeps
  <2>2. ASSUME Tick \/ Xint PROVE Kept'
    BY <1>1, <2>2, PostKeeps DEF Tick, Xint
  <2>. QED
    BY <1>1, <1>3, <2>1, <2>2, RaiseKeeps, LowerKeeps, CheckKeeps, SplunwindKeeps, SendSelfKeeps,
       SoftintKeeps, HandlerReturnKeeps, CompleteKeeps, DispatchKeeps, XcallEventKeeps,
       TickEventKeeps, SoftEventKeeps, UndeferKeeps, LeaveKeeps, SendKeeps DEF Next
<1>4. Kept'
  BY <1>2, <1>3
<1>5. MailKept'
  BY <1>1, MailNext
<1>. QED
  BY <1>4, <1>5, SoftParts DEF IInv, Kept

(* The invariant of interrupt delivery: the types, the deferqueue, the     *)
(* frames on the stack, and what is masked for them.                       *)
THEOREM Invariance == Spec => []IInv
  BY InitInv, NextInv, PTL DEF Spec

(* A queue without repetition has as many members as entries.              *)
LEMMA DistinctCount ==
  ASSUME NEW q \in Seq(Deferrable), Distinct(q)
  PROVE  Cardinality(Elems(q)) = Len(q)
<1>. DEFINE g == [i \in 1..Len(q) |-> q[i]]
<1>1. Len(q) \in Nat
  BY LenProperties
<1>2. g \in Bijection(1..Len(q), Elems(q))
  BY <1>1 DEF Elems, Distinct, Bijection, Injection, Surjection, IsInjective
<1>3. IsFiniteSet(1..Len(q)) /\ Cardinality(1..Len(q)) = Len(q)
  BY <1>1, UpTo
<1>4. ExistsBijection(1..Len(q), Elems(q))
  BY <1>2 DEF ExistsBijection
<1>. QED
  BY <1>3, <1>4, FS_Bijection

(* intr_defer and intr_undefer keep the deferqueue sorted, with picipl the *)
(* priority at its head and mseventsdeferred the events in it; nothing is  *)
(* in it twice, so that the free list never runs out; and a device in it   *)
(* stays masked.                                                           *)
THEOREM QueueIsExact == Spec => []QueueExact
<1>1. IInv => QueueExact
  <2>. SUFFICES ASSUME IInv PROVE QueueExact
    OBVIOUS
  <2>1. TypeInv /\ QueueInv /\ MaskedInv
    BY DEF IInv, Core
  <2>2. Queued = Elems(deferqueue) /\ Len(deferqueue) \in Nat /\ deferqueue \in Seq(Deferrable)
    BY <2>1, EntryTypes, LenProperties DEF TypeInv
  <2>3. \A i \in 1..Len(deferqueue) - 1 : Intpri(deferqueue[i]) >= Intpri(deferqueue[i + 1])
    BY <2>1, <2>2 DEF QueueInv, Sorted
  <2>4. Cardinality(Queued) = Len(deferqueue)
    BY <2>1, <2>2, DistinctCount DEF QueueInv
  <2>. QED
    BY <2>1, <2>2, <2>3, <2>4 DEF QueueExact, QueueInv, MaskedInv, Highest, Events
<1>. QED
  BY <1>1, Invariance, PTL

(* The spl routines and intr_undefer leave no interrupt in the deferqueue  *)
(* when the level goes below its priority, although they look at picipl    *)
(* after the store of ipl, with interrupts enabled.                        *)
THEOREM NoInterruptIsStranded == Spec => []NothingStranded
<1>1. IInv => NothingStranded
  BY DEF IInv
<1>. QED
  BY <1>1, Invariance, PTL

(* softint_hdlr comes for each flag that mssendsoft sets, on this engine   *)
(* or in its mailbox, whatever is deferred and in whatever order the flag  *)
(* and the event are looked at.                                            *)
THEOREM SoftInterruptsAreKept == Spec => []SoftKept
<1>1. IInv => SoftKept
  BY DEF IInv
<1>. QED
  BY <1>1, Invariance, PTL
=============================================================================
