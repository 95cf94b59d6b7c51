--------------------------- MODULE LuaEventsProofs ---------------------------
(* Proofs about the event path into the Lua frontend, for any instances,     *)
(* tasks and finalizers and any depth of the queues.                         *)
EXTENDS LuaEvents, FiniteSetTheorems, SequenceTheorems, TLAPS

-----------------------------------------------------------------------------
(* The invariant, as predicates of the values of one task's variables: p is  *)
(* where it is, c its stack, a its await, q the queues that it has.          *)

\* Where a drain returns to when it is at its end, ...
Returns == {"park", "pick", "pop", "prepare", "store", "tabled"}

\* ... what it goes through before, and where no drain is in progress.
Inside  == {"take", "prune", "convert", "reconvert"}
Outside == OffCpu \cup {"run", "prepare", "table", "tabled", "alloc", "store",
                        "flags", "pick", "pop"}

\* No drain; a drain, which d guards; one that has yet to look at the guard;
\* one inside another, which the guard will refuse.
Shape(p, c, d) ==
  \/ Len(c) = 0 /\ p \in Outside
  \/ Len(c) = 1 /\ c[1] \in Returns /\ p \in Inside /\ d
  \/ Len(c) = 1 /\ c[1] \in Returns /\ p = "drain" /\ ~d
  \/ /\ Len(c) = 2 /\ c[1] = "reconvert" /\ c[2] \in Returns
     /\ p = "drain" /\ d

\* The stacks, the guard, and the one task that has the thread.
StackInv ==
  /\ \A t \in Tasks : Shape(pc[t], calls[t], draining)
  /\ \A t, u \in Tasks : t # u => pc[t] \in OffCpu \/ pc[u] \in OffCpu
  /\ draining => \E t \in Tasks : pc[t] \notin Outside

\* The task has the event of the slot, which it has taken, or is converting.
Converts(p, c) == p \in {"convert", "reconvert"} \/ Len(c) = 2
Holds(p, c)    == p = "prune" \/ Converts(p, c)

SlotInv ==
  \A t \in Tasks :
    /\ Holds(pc[t], calls[t]) => slot.inst \in Insts
    /\ Converts(pc[t], calls[t]) /\ slot.fifo => Len(fifo) < FifoDepth

Goal(c) == c[Len(c)]

\* What a task asks for, and the instance that it is making a queue for: it
\* has a queue for whatever it waits for.
Asking(t, p, c, a, q) ==
  /\ a.insts # {} => t \in Scripts /\ p \notin {"start", "run", "done", "pop"}
  /\ p \in {"table", "tabled", "alloc", "store", "flags"} => a.making \in Insts
  /\ p \in {"park", "pick"} => a.insts \subseteq q
  /\ Len(c) > 0 =>
       /\ Goal(c) \in {"store", "tabled"} => a.making \in Insts
       /\ Goal(c) = "pop" => a.insts = {}
       /\ Goal(c) \in {"park", "pick"} => a.insts \subseteq q

AskInv == \A t \in Tasks : Asking(t, pc[t], calls[t], ask[t], queues[t])

\* The instances it has a queue for are staged and converted, but for the one
\* whose flags it is about to set.
Covered(f, p, a, q) ==
  p # "done" => \A i \in q : \/ {"CONNECTED", "AWAITED"} \subseteq f[i]
                             \/ p = "flags" /\ a.making = i

\* The flags of those that somebody listens to; none once it has shut down, but
\* of those that a finalizer has awaited since.
FlagsInv ==
  /\ sealed <=> phase \notin {"main", "seal"}
  /\ phase \in {"seal", "fold", "run"} =>
       \A i \in policies : {"CONNECTED", "POLICY"} \subseteq flags[i]
  /\ phase \notin {"clear"} \cup Ended =>
       \A t \in Tasks : Covered(flags, pc[t], ask[t], queues[t])
  /\ phase = "clear" => \A i \in Insts \ todo : flags[i] = {}
  /\ phase \in Ended => \A i \in Insts \ reopened : flags[i] = {}

StagerInv ==
  /\ stager.pc # "idle" => stager.inst \in Insts
  /\ stager.pc = "count" <=> stager.over # NULL
  /\ stager.over # NULL => stager.over \in Insts

\* Of a source that no finalizer awaited, a frontend that has shut down stages
\* at most the event that was past the filter, and always has room for it.
Past(i) == One(stager.pc = "stage" /\ stager.inst = i)

QuietInv ==
  phase \in Ended =>
    \A i \in Insts \ reopened :
      /\ Count(staging, i) + Past(i) <= 1
      /\ Past(i) = 1 => staging = <<>>

IInv ==
  /\ TypeOK /\ StackInv /\ SlotInv /\ AskInv /\ FlagsInv /\ StagerInv
  /\ QuietInv /\ Accounted

-----------------------------------------------------------------------------
(* Lemmas about stacks and about the events of a source in a queue.         *)

(* What is pushed is on top of what was there.                              *)
LEMMA PushLemma ==
  ASSUME NEW S, NEW c \in Seq(S), NEW p \in S
  PROVE  /\ <<p>> \o c \in Seq(S)
         /\ Len(<<p>> \o c) = Len(c) + 1
         /\ (<<p>> \o c)[1] = p
         /\ \A k \in 1..Len(c) : (<<p>> \o c)[k + 1] = c[k]
<1>1. <<p>> \in Seq(S) /\ Len(<<p>>) = 1 /\ <<p>>[1] = p
  OBVIOUS
<1>2. Len(c) \in Nat
  BY LenProperties
<1>3. /\ <<p>> \o c \in Seq(S)
      /\ Len(<<p>> \o c) = 1 + Len(c)
      /\ \A k \in 1..(1 + Len(c)) :
           (<<p>> \o c)[k] = IF k <= 1 THEN <<p>>[k] ELSE c[k - 1]
  BY <1>1, ConcatProperties
<1>4. QED
  BY <1>1, <1>2, <1>3

(* What is popped was on top of the rest.                                   *)
LEMMA PopLemma ==
  ASSUME NEW S, NEW c \in Seq(S), Len(c) > 0
  PROVE  /\ Head(c) = c[1] /\ Head(c) \in S
         /\ Tail(c) \in Seq(S) /\ Len(Tail(c)) = Len(c) - 1
         /\ \A k \in 1..(Len(c) - 1) : Tail(c)[k] = c[k + 1]
<1>1. c # <<>>
  BY EmptySeq
<1>2. QED
  BY <1>1, HeadTailProperties, LenProperties

\* The places of i in a queue.
Places(s, i) == {k \in DOMAIN s : s[k] = i}

(* A queue is finite, and so are the events of a source in it.              *)
LEMMA CountType ==
  ASSUME NEW S, NEW s \in Seq(S), NEW i
  PROVE  /\ IsFiniteSet(Places(s, i)) /\ Count(s, i) = Cardinality(Places(s, i))
         /\ Count(s, i) \in Nat
<1>1. DOMAIN s = 1..Len(s) /\ Len(s) \in Nat
  BY LenProperties
<1>2. IsFiniteSet(1..Len(s))
  BY <1>1, FS_Interval
<1>3. IsFiniteSet(Places(s, i))
  BY <1>1, <1>2, FS_Subset DEF Places
<1>4. QED
  BY <1>3, FS_CardinalityType DEF Count, Places

(* The empty queue has no event of any source.                              *)
LEMMA CountEmpty == \A i : Count(<<>>, i) = 0
<1>1. \A i : {k \in DOMAIN <<>> : <<>>[k] = i} = {}
  OBVIOUS
<1>2. QED
  BY <1>1, FS_EmptySet DEF Count

(* An event that is appended is one more of its source.                     *)
LEMMA CountAppend ==
  ASSUME NEW S, NEW s \in Seq(S), NEW x \in S, NEW i
  PROVE  Count(Append(s, x), i) = Count(s, i) + One(x = i)
<1> DEFINE r == Append(s, x)
           n == Len(s) + 1
<1>1. /\ r \in Seq(S) /\ Len(r) = n /\ r[n] = x /\ Len(s) \in Nat
      /\ DOMAIN r = 1..n /\ DOMAIN s = 1..Len(s)
      /\ \A k \in 1..Len(s) : r[k] = s[k]
  BY AppendProperties, LenProperties
<1> HIDE DEF r
<1>2. n \notin Places(s, i)
  BY <1>1 DEF Places
<1>3. /\ IsFiniteSet(Places(s, i)) /\ Count(s, i) = Cardinality(Places(s, i))
      /\ Count(r, i) = Cardinality(Places(r, i)) /\ Count(s, i) \in Nat
  BY <1>1, CountType
<1>4. CASE x = i
  <2>1. Places(r, i) = Places(s, i) \cup {n}
    BY <1>1, <1>4 DEF Places
  <2>2. QED
    BY <1>3, <1>2, <1>4, <2>1, FS_AddElement DEF One, r
<1>5. CASE x # i
  <2>1. Places(r, i) = Places(s, i)
    BY <1>1, <1>5 DEF Places
  <2>2. QED
    BY <1>3, <1>5, <2>1 DEF One, r
<1>6. QED
  BY <1>4, <1>5

(* Whoever takes the first event leaves one less of its source.             *)
LEMMA CountTail ==
  ASSUME NEW S, NEW s \in Seq(S), s # <<>>, NEW i
  PROVE  Count(s, i) = Count(Tail(s), i) + One(Head(s) = i)
<1> DEFINE r == Tail(s)
           f == [k \in Places(r, i) |-> k + 1]
<1>1. /\ Len(s) \in Nat \ {0} /\ Len(r) = Len(s) - 1 /\ r \in Seq(S)
      /\ DOMAIN r = 1..Len(r) /\ DOMAIN s = 1..Len(s) /\ Head(s) = s[1]
      /\ \A k \in 1..Len(r) : r[k] = s[k + 1]
  BY HeadTailProperties, LenProperties, EmptySeq
<1> HIDE DEF r
<1>2. f \in Bijection(Places(r, i), Places(s, i) \ {1})
  <2>1. \A k \in Places(r, i) : k \in Nat /\ k + 1 \in Places(s, i) \ {1}
    BY <1>1 DEF Places
  <2>2. \A k \in Places(s, i) \ {1} : k - 1 \in Places(r, i) /\ k = (k - 1) + 1
    BY <1>1 DEF Places
  <2>3. f \in Injection(Places(r, i), Places(s, i) \ {1})
    BY <2>1 DEF Injection, IsInjective
  <2>4. f \in Surjection(Places(r, i), Places(s, i) \ {1})
    BY <2>1, <2>2 DEF Surjection
  <2>5. QED
    BY <2>3, <2>4 DEF Bijection
<1>3. Cardinality(Places(s, i) \ {1}) = Count(r, i)
  BY <1>1, <1>2, CountType, FS_Bijection DEF ExistsBijection
<1>4. 1 \in Places(s, i) <=> Head(s) = i
  BY <1>1 DEF Places
<1>5. IsFiniteSet(Places(s, i)) /\ Count(s, i) = Cardinality(Places(s, i))
  BY CountType
<1>6. Cardinality(Places(s, i) \ {1})
        = IF 1 \in Places(s, i) THEN Count(s, i) - 1 ELSE Count(s, i)
  BY <1>5, FS_RemoveElement
<1>7. Count(s, i) \in Nat /\ Count(r, i) \in Nat
  BY <1>1, CountType
<1>8. QED
  BY <1>3, <1>4, <1>6, <1>7 DEF One, r

(* Without the event at k, a queue has no more of any source.               *)
LEMMA CountRemove ==
  ASSUME NEW S, NEW s \in Seq(S), NEW k \in DOMAIN s
  PROVE  LET r == SubSeq(s, 1, k - 1) \o SubSeq(s, k + 1, Len(s))
         IN  r \in Seq(S) /\ \A i : Count(r, i) <= Count(s, i)
<1> DEFINE a == SubSeq(s, 1, k - 1)
           b == SubSeq(s, k + 1, Len(s))
           r == a \o b
<1>1. /\ Len(s) \in Nat /\ DOMAIN s = 1..Len(s) /\ k \in 1..Len(s)
      /\ \A m \in 1..Len(s) : s[m] \in S
  BY LenProperties, ElementOfSeq
<1>2. /\ a \in Seq(S) /\ Len(a) = k - 1
      /\ \A m \in 1..(k - 1) : a[m] = s[m]
  <2>1. /\ \A m \in 1..(k - 1) : s[m] \in S
        /\ 1 \in Int /\ k - 1 \in Int
    BY <1>1
  <2>2. /\ a \in Seq(S) /\ Len(a) = IF 1 <= k - 1 THEN k - 1 - 1 + 1 ELSE 0
        /\ \A m \in 1..(k - 1 - 1 + 1) : a[m] = s[1 + m - 1]
    BY <2>1, SubSeqProperties
  <2>3. QED
    BY <1>1, <2>2
<1>3. /\ b \in Seq(S) /\ Len(b) = Len(s) - k
      /\ \A m \in 1..(Len(s) - k) : b[m] = s[k + m]
  <2>1. /\ \A m \in (k + 1)..Len(s) : s[m] \in S
        /\ k + 1 \in Int /\ Len(s) \in Int
    BY <1>1
  <2>2. /\ b \in Seq(S)
        /\ Len(b) = IF k + 1 <= Len(s) THEN Len(s) - (k + 1) + 1 ELSE 0
        /\ \A m \in 1..(Len(s) - (k + 1) + 1) : b[m] = s[k + 1 + m - 1]
    BY <2>1, SubSeqProperties
  <2>3. /\ Len(s) - (k + 1) + 1 = Len(s) - k
        /\ \A m \in 1..(Len(s) - k) : k + 1 + m - 1 = k + m
    BY <1>1
  <2>4. QED
    BY <1>1, <2>2, <2>3
<1> HIDE DEF a, b
<1>4. /\ r \in Seq(S) /\ Len(r) = Len(s) - 1
      /\ \A m \in 1..(Len(s) - 1) :
           r[m] = IF m <= k - 1 THEN a[m] ELSE b[m - (k - 1)]
  <2>1. /\ r \in Seq(S) /\ Len(r) = Len(a) + Len(b)
        /\ \A m \in 1..(Len(a) + Len(b)) :
             r[m] = IF m <= Len(a) THEN a[m] ELSE b[m - Len(a)]
    BY <1>2, <1>3, ConcatProperties
  <2>2. Len(a) + Len(b) = Len(s) - 1
    BY <1>1, <1>2, <1>3
  <2>3. QED
    BY <1>2, <2>1, <2>2
<1> HIDE DEF r
<1>5. DOMAIN r = 1..(Len(s) - 1)
  BY <1>4, LenProperties
<1>6. \A m \in 1..(Len(s) - 1) : r[m] = IF m < k THEN s[m] ELSE s[m + 1]
  <2> SUFFICES ASSUME NEW m \in 1..(Len(s) - 1)
               PROVE  r[m] = IF m < k THEN s[m] ELSE s[m + 1]
    OBVIOUS
  <2>1. CASE m < k
    BY <1>1, <1>2, <1>4, <2>1
  <2>2. CASE ~(m < k)
    <3>1. /\ m - (k - 1) \in 1..(Len(s) - k) /\ k + (m - (k - 1)) = m + 1
          /\ ~(m <= k - 1)
      BY <1>1, <2>2
    <3>2. r[m] = s[k + (m - (k - 1))]
      BY <1>3, <1>4, <3>1
    <3>3. QED
      BY <2>2, <3>1, <3>2
  <2>3. QED
    BY <2>1, <2>2
<1>7. ASSUME NEW i PROVE Count(r, i) <= Count(s, i)
  <2> DEFINE f == [m \in Places(r, i) |-> IF m < k THEN m ELSE m + 1]
  <2>1. \A m \in Places(r, i) : m \in Nat /\ f[m] \in Places(s, i)
    BY <1>1, <1>5, <1>6 DEF Places
  <2>2. \A m, n \in Places(r, i) : f[m] = f[n] => m = n
    BY <1>1, <2>1
  <2>3. f \in Injection(Places(r, i), Places(s, i))
    BY <2>1, <2>2 DEF Injection, IsInjective
  <2>4. IsFiniteSet(Places(s, i))
    BY CountType
  <2>5. Cardinality(Places(r, i)) <= Cardinality(Places(s, i))
    BY <2>3, <2>4, FS_Injection
  <2>6. QED
    BY <1>4, <2>5, CountType
<1>8. QED
  BY <1>4, <1>7 DEF r, a, b
-----------------------------------------------------------------------------
(* Lemmas about the moves of a task on its stack.                           *)

Moved(t, p, c) ==
  /\ pc' = [pc EXCEPT ![t] = p]
  /\ calls' = [calls EXCEPT ![t] = c]

Alone(t) == \A u \in Others(t) : pc[u] \in OffCpu

(* A move keeps the stacks in order if what it leads to is in order.        *)
LEMMA StackStep ==
  ASSUME TypeOK, StackInv, NEW t \in Tasks, Alone(t),
         NEW p \in Points, NEW c, Moved(t, p, c),
         Shape(p, c, draining'), draining' => p \notin Outside
  PROVE  StackInv'
<1>1. /\ \A u \in Tasks : /\ pc'[u] = IF u = t THEN p ELSE pc[u]
                          /\ calls'[u] = IF u = t THEN c ELSE calls[u]
  BY DEF Moved, TypeOK
<1>2. ASSUME NEW u \in Tasks PROVE Shape(pc'[u], calls'[u], draining')
  <2>1. CASE u = t
    BY <1>1, <2>1
  <2>2. CASE u # t
    <3>1. pc[u] \in OffCpu
      BY <2>2 DEF Alone, Others
    <3>2. Len(calls[u]) = 0
      BY <3>1 DEF StackInv, Shape, OffCpu, Inside
    <3>3. QED
      BY <1>1, <2>2, <3>1, <3>2 DEF Shape, Outside
  <2>3. QED
    BY <2>1, <2>2
<1>3. ASSUME NEW u \in Tasks, NEW v \in Tasks, u # v
      PROVE  pc'[u] \in OffCpu \/ pc'[v] \in OffCpu
  BY <1>1, <1>3 DEF Alone, Others
<1>4. draining' => \E u \in Tasks : pc'[u] \notin Outside
  BY <1>1
<1>5. QED
  BY <1>2, <1>3, <1>4 DEF StackInv

(* Where nobody drains, the guard is off.                                   *)
LEMMA OutsideLemma ==
  ASSUME TypeOK, StackInv, NEW t \in Tasks, Alone(t), pc[t] \in Outside
  PROVE  ~draining /\ Len(calls[t]) = 0 /\ calls[t] \in Seq(Points)
<1>1. \A u \in Tasks : pc[u] \in Outside
  BY DEF Alone, Others, Outside
<1>2. Len(calls[t]) = 0
  BY DEF StackInv, Shape, Outside, OffCpu, Inside
<1>3. QED
  BY <1>1, <1>2 DEF StackInv, TypeOK

(* A drain starts from outside.                                             *)
LEMMA DrainLemma ==
  ASSUME TypeOK, StackInv, NEW t \in Tasks, Alone(t), pc[t] \in Outside,
         NEW p \in Returns, Drain(t, p), draining' = draining
  PROVE  \E c \in Seq(Points) :
           /\ Moved(t, "drain", c) /\ Len(c) = 1 /\ c[1] = p
           /\ Shape("drain", c, draining')
<1>1. ~draining /\ Len(calls[t]) = 0 /\ calls[t] \in Seq(Points)
  BY OutsideLemma
<1> DEFINE c == <<p>> \o calls[t]
<1>2. p \in Points
  BY DEF Returns, Points, OffCpu
<1>3. c \in Seq(Points) /\ Len(c) = 1 /\ c[1] = p
  BY <1>1, <1>2, PushLemma
<1>4. Moved(t, "drain", c)
  BY DEF Drain, Goto, Moved
<1> HIDE DEF c
<1>5. Shape("drain", c, draining')
  BY <1>1, <1>3 DEF Shape
<1>6. QED
  BY <1>3, <1>4, <1>5

(* A drain inside a drain.                                                  *)
LEMMA NestLemma ==
  ASSUME TypeOK, StackInv, NEW t \in Tasks, pc[t] = "convert",
         Drain(t, "reconvert"), draining' = draining
  PROVE  /\ draining /\ Len(calls[t]) = 1 /\ calls[t][1] \in Returns
         /\ \E c \in Seq(Points) :
              /\ Moved(t, "drain", c)
              /\ Len(c) = 2 /\ c[1] = "reconvert" /\ c[2] = calls[t][1]
              /\ Shape("drain", c, draining')
<1>1. /\ Len(calls[t]) = 1 /\ calls[t][1] \in Returns
      /\ calls[t] \in Seq(Points)
  BY DEF TypeOK, StackInv, Shape, Outside, OffCpu
<1>2. draining
  BY DEF TypeOK, StackInv, Shape, Outside, OffCpu
<1> DEFINE c == <<"reconvert">> \o calls[t]
<1>3. "reconvert" \in Points
  BY DEF Points
<1>4. /\ c \in Seq(Points) /\ Len(c) = 2 /\ c[1] = "reconvert"
      /\ c[2] = calls[t][1]
  <2>1. /\ c \in Seq(Points) /\ Len(c) = Len(calls[t]) + 1
        /\ c[1] = "reconvert"
        /\ \A k \in 1..Len(calls[t]) : c[k + 1] = calls[t][k]
    BY <1>1, <1>3, PushLemma
  <2> HIDE DEF c
  <2>2. 1 \in 1..Len(calls[t]) /\ 1 + 1 = 2
    BY <1>1
  <2>3. QED
    BY <1>1, <2>1, <2>2
<1>5. Moved(t, "drain", c)
  BY DEF Drain, Goto, Moved
<1> HIDE DEF c
<1>6. Shape("drain", c, draining')
  BY <1>2, <1>1, <1>4 DEF Shape
<1>7. QED
  BY <1>2, <1>1, <1>4, <1>5, <1>6

(* A drain that is refused was inside another, which goes on.               *)
LEMMA RefusedLemma ==
  ASSUME TypeOK, StackInv, NEW t \in Tasks, pc[t] = "drain", draining,
         Return(t), draining' = draining
  PROVE  /\ Len(calls[t]) = 2
         /\ \E c \in Seq(Points) :
              /\ Moved(t, "reconvert", c)
              /\ Len(c) = 1 /\ c[1] = calls[t][2] /\ c[1] \in Returns
              /\ Shape("reconvert", c, draining')
<1>1. /\ Len(calls[t]) = 2 /\ calls[t][1] = "reconvert"
      /\ calls[t][2] \in Returns /\ calls[t] \in Seq(Points)
  BY DEF TypeOK, StackInv, Shape, Outside, OffCpu, Inside
<1> DEFINE c == Tail(calls[t])
<1>2. /\ Head(calls[t]) = "reconvert"
      /\ c \in Seq(Points) /\ Len(c) = 1 /\ c[1] = calls[t][2]
  <2>1. /\ Head(calls[t]) = calls[t][1]
        /\ c \in Seq(Points) /\ Len(c) = Len(calls[t]) - 1
        /\ \A k \in 1..(Len(calls[t]) - 1) : c[k] = calls[t][k + 1]
    BY <1>1, PopLemma
  <2> HIDE DEF c
  <2>2. 1 \in 1..(Len(calls[t]) - 1) /\ 1 + 1 = 2
    BY <1>1
  <2>3. QED
    BY <1>1, <2>1, <2>2
<1>3. Moved(t, "reconvert", c)
  BY <1>2 DEF Return, Goto, Moved
<1> HIDE DEF c
<1>4. Shape("reconvert", c, draining')
  BY <1>1, <1>2 DEF Shape, Inside
<1>5. QED
  BY <1>1, <1>2, <1>3, <1>4

(* A drain that is at its end returns to where it was begun.                *)
LEMMA EndLemma ==
  ASSUME TypeOK, StackInv, NEW t \in Tasks, pc[t] = "take",
         Return(t), ~draining'
  PROVE  /\ Len(calls[t]) = 1 /\ calls[t][1] \in Returns
         /\ \E c \in Seq(Points) :
              /\ Moved(t, calls[t][1], c) /\ Len(c) = 0
              /\ Shape(calls[t][1], c, draining')
<1>1. /\ Len(calls[t]) = 1 /\ calls[t][1] \in Returns
      /\ calls[t] \in Seq(Points)
  BY DEF TypeOK, StackInv, Shape, Outside, OffCpu
<1> DEFINE c == Tail(calls[t])
<1>2. /\ Head(calls[t]) = calls[t][1]
      /\ c \in Seq(Points) /\ Len(c) = 0
  BY <1>1, PopLemma
<1>3. Moved(t, calls[t][1], c)
  BY <1>2 DEF Return, Goto, Moved
<1> HIDE DEF c
<1>4. Shape(calls[t][1], c, draining')
  BY <1>1, <1>2 DEF Shape, Returns, Outside, OffCpu
<1>5. QED
  BY <1>1, <1>2, <1>3, <1>4

(* A step inside a drain.                                                   *)
LEMMA InsideLemma ==
  ASSUME TypeOK, StackInv, NEW t \in Tasks,
         pc[t] \in Inside \/ (pc[t] = "drain" /\ ~draining),
         NEW p \in Inside, Goto(t, p), calls' = calls, draining'
  PROVE  /\ Len(calls[t]) = 1 /\ calls[t][1] \in Returns
         /\ calls[t] \in Seq(Points)
         /\ Moved(t, p, calls[t]) /\ Shape(p, calls[t], draining')
<1>1. /\ Len(calls[t]) = 1 /\ calls[t][1] \in Returns
      /\ calls[t] \in Seq(Points) /\ calls \in [Tasks -> Seq(Points)]
  BY DEF TypeOK, StackInv, Shape, Outside, OffCpu, Inside
<1>2. Shape(p, calls[t], draining')
  BY <1>1 DEF Shape
<1>3. Moved(t, p, calls[t])
  BY <1>1 DEF Moved, Goto
<1>4. QED
  BY <1>1, <1>2, <1>3
-----------------------------------------------------------------------------
(* Types, in parts: most actions change few of them.                        *)

StartTypes ==
  /\ phase \in {"main", "seal", "fold", "run", "clear"} \cup Ended
  /\ todo \subseteq Insts /\ policies \subseteq Insts /\ reopened \subseteq Insts
  /\ poll \in BOOLEAN /\ sealed \in BOOLEAN
FlagTypes == flags \in [Insts -> SUBSET Flags]
StagingTypes == staging \in Seq(Insts) /\ Len(staging) <= StagingDepth
StagerTypes ==
  stager \in [pc: {"idle", "filter", "stage", "count", "bell", "publish"},
              inst: Insts \cup {NULL}, over: Insts \cup {NULL}]
BellTypes ==
  /\ bell_pending \in BOOLEAN /\ refused \in BOOLEAN
  /\ watching \subseteq Tasks /\ rung \subseteq watching
CountTypes ==
  /\ emitted \in [Insts -> Nat] /\ staged_drop \in [Insts -> Nat]
  /\ fifo_drop \in [Insts -> Nat] /\ delivered \in [Insts -> Nat]
  /\ preseal_drop \in [Insts -> Nat]
FifoTypes == fifo \in Seq(Insts) /\ Len(fifo) <= FifoDepth
TableTypes == tables \subseteq Insts
QueueTypes ==
  /\ queues \in [Tasks -> SUBSET Insts]
  /\ arrived \in [Tasks -> Seq(Insts)]
  /\ \A t \in Tasks, i \in Insts :
       Count(arrived[t], i) <= IF i \in queues[t] THEN AwaitDepth ELSE 0
DrainTypes ==
  /\ draining \in BOOLEAN
  /\ slot \in [inst: Insts \cup {NULL}, fifo: BOOLEAN, await: BOOLEAN]
StackTypes == pc \in [Tasks -> Points] /\ calls \in [Tasks -> Seq(Points)]
AskTypes ==
  ask \in [Tasks -> [insts: SUBSET Insts, making: Insts \cup {NULL},
                     timed: BOOLEAN]]

(* The parts make up TypeOK, ...                                            *)
LEMMA Parts ==
  /\ TypeOK <=> /\ StartTypes /\ FlagTypes /\ StagingTypes /\ StagerTypes
                /\ BellTypes /\ CountTypes /\ FifoTypes /\ QueueTypes
                /\ TableTypes /\ DrainTypes /\ StackTypes /\ AskTypes
  /\ TypeOK' <=> /\ StartTypes' /\ FlagTypes' /\ StagingTypes' /\ StagerTypes'
                 /\ BellTypes' /\ CountTypes' /\ FifoTypes' /\ QueueTypes'
                 /\ TableTypes' /\ DrainTypes' /\ StackTypes' /\ AskTypes'
BY DEF TypeOK, StartTypes, FlagTypes, StagingTypes, StagerTypes, BellTypes,
       CountTypes, FifoTypes, QueueTypes, TableTypes, DrainTypes, StackTypes,
       AskTypes

(* ... and each holds on where its variables are left alone.                *)
LEMMA Unchanged ==
  ASSUME TypeOK
  PROVE  /\ UNCHANGED start /\ UNCHANGED sealed => StartTypes'
         /\ UNCHANGED flags => FlagTypes'
         /\ UNCHANGED staging => StagingTypes'
         /\ UNCHANGED stager => StagerTypes'
         /\ UNCHANGED bell => BellTypes'
         /\ UNCHANGED counts => CountTypes'
         /\ UNCHANGED fifo => FifoTypes'
         /\ UNCHANGED <<queues, arrived>> => QueueTypes'
         /\ UNCHANGED tables => TableTypes'
         /\ UNCHANGED drain => DrainTypes'
         /\ UNCHANGED <<pc, calls>> => StackTypes'
         /\ UNCHANGED ask => AskTypes'
<1> USE Parts
<1>1. UNCHANGED start /\ UNCHANGED sealed => StartTypes'
  BY DEF StartTypes, start
<1>2. UNCHANGED flags => FlagTypes'
  BY DEF FlagTypes
<1>3. UNCHANGED staging => StagingTypes'
  BY DEF StagingTypes
<1>4. UNCHANGED stager => StagerTypes'
  BY DEF StagerTypes
<1>5. UNCHANGED bell => BellTypes'
  BY DEF BellTypes, bell
<1>6. UNCHANGED counts => CountTypes'
  BY DEF CountTypes, counts
<1>7. UNCHANGED fifo => FifoTypes'
  BY DEF FifoTypes
<1>8. UNCHANGED <<queues, arrived>> => QueueTypes'
  BY DEF QueueTypes
<1>9. UNCHANGED drain => DrainTypes'
  BY DEF DrainTypes, drain
<1>10. UNCHANGED <<pc, calls>> => StackTypes'
  BY DEF StackTypes
<1>11. UNCHANGED ask => AskTypes'
  BY DEF AskTypes
<1>12. UNCHANGED tables => TableTypes'
  BY DEF TableTypes
<1>13. QED
  BY <1>1, <1>2, <1>3, <1>4, <1>5, <1>6, <1>7, <1>8, <1>9, <1>10, <1>11,
     <1>12

(* A counter that is stepped is a counter.                                  *)
LEMMA IncType ==
  ASSUME NEW c \in [Insts -> Nat], NEW i \in Insts
  PROVE  Inc(c, i) \in [Insts -> Nat]
BY DEF Inc

(* The initial state is well typed.                                         *)
LEMMA InitTypes == Init => TypeOK
<1>1. <<>> \in Seq(Insts) /\ <<>> \in Seq(Points) /\ Len(<<>>) = 0
  BY EmptySeq
<1>2. "start" \in Points
  BY DEF Points, OffCpu
<1> SUFFICES ASSUME Init PROVE TypeOK
  OBVIOUS
<1>3. StartTypes /\ FlagTypes /\ BellTypes
  BY NameAssumption DEF Init, StartTypes, FlagTypes, BellTypes
<1>4. StagingTypes /\ FifoTypes
  BY <1>1, DepthAssumption DEF Init, StagingTypes, FifoTypes
<1>5. StagerTypes /\ DrainTypes /\ CountTypes
  BY DEF Init, StagerTypes, DrainTypes, CountTypes, Idle, NoSlot
<1>6. StackTypes /\ AskTypes
  BY <1>1, <1>2 DEF Init, StackTypes, AskTypes, NoAsk
<1>7. QueueTypes
  BY <1>1, CountEmpty, DepthAssumption DEF Init, QueueTypes
<1>7a. TableTypes
  BY DEF Init, TableTypes
<1>8. QED
  BY <1>3, <1>4, <1>5, <1>6, <1>7, <1>7a, Parts

(* The listener keeps the types.                                            *)
LEMMA ListenerTypes ==
  ASSUME TypeOK, StagerInv, Listener \/ \E i \in Insts : Emit(i)
  PROVE  TypeOK'
<1> USE Parts, Unchanged DEF shared, heap, tasks
<1>1. ASSUME NEW i \in Insts, Emit(i) PROVE TypeOK'
  <2>1. StagerTypes'
    BY <1>1 DEF Emit, Idle, StagerTypes
  <2>2. CountTypes'
    BY <1>1, IncType DEF Emit, CountTypes
  <2>3. QED
    BY <1>1, <2>1, <2>2 DEF Emit
<1>2. CASE Filter
  <2>1. StagerTypes'
    BY <1>2 DEF Filter, Idle, StagerTypes
  <2>2. QED
    BY <1>2, <2>1 DEF Filter
<1>3. CASE Stage
  <2>1. /\ staging' \in Seq(Insts) /\ Len(staging') = Len(staging) + 1
        /\ Len(staging) \in Nat
    BY <1>3, AppendProperties, LenProperties
       DEF Stage, StagerInv, StagerAt, StagingTypes
  <2>2. Len(staging') <= StagingDepth
    BY <1>3, <2>1, DepthAssumption DEF Stage, Full, StagingTypes
  <2>3. StagerTypes'
    BY <1>3 DEF Stage, StagerAt, StagerTypes
  <2>4. QED
    BY <1>3, <2>1, <2>2, <2>3 DEF Stage, StagingTypes
<1>4. CASE StageDrops
  <2>1. StagerTypes'
    BY <1>4 DEF StageDrops, Idle, StagerTypes
  <2>2. CountTypes'
    BY <1>4, IncType DEF StageDrops, StagerInv, StagerAt, CountTypes
  <2>3. QED
    BY <1>4, <2>1, <2>2 DEF StageDrops
<1>5. CASE StageOverwrites
  <2>1. staging # <<>> /\ stager.inst \in Insts
    BY <1>5, DepthAssumption, EmptySeq
       DEF StageOverwrites, Full, StagerInv, StagerAt, StagingTypes
  <2>2. /\ Tail(staging) \in Seq(Insts) /\ Head(staging) \in Insts
        /\ Len(Tail(staging)) = Len(staging) - 1 /\ Len(staging) \in Nat
    BY <2>1, HeadTailProperties, LenProperties DEF StagingTypes
  <2>3. /\ staging' \in Seq(Insts)
        /\ Len(staging') = Len(Tail(staging)) + 1
    BY <1>5, <2>1, <2>2, AppendProperties DEF StageOverwrites
  <2>4. Len(staging') <= StagingDepth
    BY <2>2, <2>3 DEF StagingTypes
  <2>5. StagerTypes'
    BY <1>5, <2>2 DEF StageOverwrites, StagerAt, StagerTypes
  <2>6. QED
    BY <1>5, <2>3, <2>4, <2>5 DEF StageOverwrites, StagingTypes
<1>6. CASE CountOverwritten
  <2>1. StagerTypes'
    BY <1>6 DEF CountOverwritten, StagerAt, StagerTypes
  <2>2. CountTypes'
    BY <1>6, IncType DEF CountOverwritten, StagerInv, StagerAt, CountTypes
  <2>3. QED
    BY <1>6, <2>1, <2>2 DEF CountOverwritten
<1>7. CASE Ring
  <2>1. StagerTypes'
    BY <1>7 DEF Ring, Idle, StagerAt, StagerTypes
  <2>2. BellTypes'
    BY <1>7 DEF Ring, BellTypes
  <2>3. QED
    BY <1>7, <2>1, <2>2 DEF Ring
<1>8. CASE Publish
  BY <1>8 DEF Publish, Idle, StagerTypes, BellTypes
<1>9. CASE PublishFails
  BY <1>9 DEF PublishFails, Idle, StagerTypes, BellTypes
<1>10. QED
  BY <1>1, <1>2, <1>3, <1>4, <1>5, <1>6, <1>7, <1>8, <1>9 DEF Listener

(* A set of flags that is set.                                              *)
LEMMA AddFlags ==
  ASSUME FlagTypes, NEW i \in Insts, NEW f \in SUBSET Flags,
         flags' = [flags EXCEPT ![i] = f]
  PROVE  FlagTypes'
BY DEF FlagTypes

(* The start and the stop of the frontend keep them.                        *)
LEMMA StartStopTypes ==
  ASSUME TypeOK,
         Coordinate \/ Fail \/ \E i \in Insts : AddPolicy(i)
  PROVE  TypeOK'
<1> USE Parts, Unchanged DEF shared, heap, tasks, Work, Phase
<1>1. ASSUME NEW i \in Insts, AddPolicy(i) PROVE TypeOK'
  BY <1>1 DEF AddPolicy, StartTypes
<1>2. CASE SealFlags
  BY <1>2 DEF SealFlags, Flags, StartTypes, FlagTypes
<1>3. CASE Seal
  BY <1>3 DEF Seal, StartTypes
<1>4. ASSUME NEW i \in Insts, Fold(i) PROVE TypeOK'
  BY <1>4 DEF Fold, StartTypes, CountTypes
<1>5. CASE Folded
  BY <1>5 DEF Folded, StartTypes
<1>6. CASE Fail
  BY <1>6 DEF Fail, StartTypes
<1>7. ASSUME NEW i \in Insts, Clear(i) PROVE TypeOK'
  BY <1>7 DEF Clear, StartTypes, FlagTypes
<1>8. CASE Empty
  <2>1. <<>> \in Seq(Insts) /\ <<>> \in Seq(Points) /\ Len(<<>>) = 0
    BY EmptySeq
  <2>2. "start" \in Points
    BY DEF Points, OffCpu
  <2>3. StackTypes' /\ AskTypes' /\ DrainTypes'
    BY <1>8, <2>1, <2>2
       DEF Empty, Abandon, NoSlot, NoAsk, StackTypes, AskTypes, DrainTypes
  <2>4. FifoTypes' /\ StagingTypes' /\ BellTypes'
    BY <1>8, <2>1, DepthAssumption
       DEF Empty, Abandon, FifoTypes, StagingTypes, BellTypes
  <2>5. QueueTypes' /\ TableTypes'
    BY <1>8, <2>1, CountEmpty, DepthAssumption
       DEF Empty, Abandon, QueueTypes, TableTypes
  <2>6. StartTypes'
    BY <1>8 DEF Empty, StartTypes, Ended
  <2>7. QED
    BY <1>8, <2>3, <2>4, <2>5, <2>6 DEF Empty
<1>9. ASSUME NEW j \in Finalized, CloseAwait(j) PROVE TypeOK'
  <2>1. j \in Insts
    BY NameAssumption
  <2>2. flags[j] \cup {"CONNECTED", "AWAITED"} \in SUBSET Flags
    BY <2>1 DEF FlagTypes, Flags
  <2>3. FlagTypes'
    BY <1>9, <2>1, <2>2, AddFlags DEF CloseAwait
  <2>4. StartTypes'
    BY <1>9, <2>1 DEF CloseAwait, StartTypes, Ended
  <2>5. QED
    BY <1>9, <2>3, <2>4 DEF CloseAwait
<1>10. CASE CloseDrain
  BY <1>10 DEF CloseDrain, StartTypes, BellTypes, Ended
<1>11. CASE CloseTake
  <2>1. /\ Tail(staging) \in Seq(Insts) /\ Len(Tail(staging)) = Len(staging) - 1
        /\ Len(staging) \in Nat
    BY <1>11, HeadTailProperties, LenProperties DEF CloseTake, StagingTypes
  <2>2. Len(Tail(staging)) <= StagingDepth
    BY <2>1, DepthAssumption DEF StagingTypes
  <2>3. QED
    BY <1>11, <2>1, <2>2 DEF CloseTake, StagingTypes
<1>12. CASE CloseDrained \/ Closed
  BY <1>12 DEF CloseDrained, Closed, StartTypes, Ended
<1>13. QED
  BY <1>1, <1>2, <1>3, <1>4, <1>5, <1>6, <1>7, <1>8, <1>9, <1>10, <1>11, <1>12
     DEF Coordinate, Closing

(* A move to a point keeps the types of the stacks, ...                     *)
LEMMA MovedTypes ==
  ASSUME StackTypes, NEW t \in Tasks, NEW p \in Points, NEW c \in Seq(Points),
         Moved(t, p, c)
  PROVE  StackTypes'
BY DEF StackTypes, Moved

(* ... and so does a step to one.                                           *)
LEMMA GotoTypes ==
  ASSUME StackTypes, NEW t \in Tasks, NEW p \in Points, Goto(t, p),
         UNCHANGED calls
  PROVE  StackTypes'
BY DEF StackTypes, Goto

(* What a task does when it has drained.                                    *)
LEMMA LoopLemma ==
  ASSUME NEW t \in Tasks
  PROVE  /\ Loop(t) \in {"park", "pick", "pop"}
         /\ Loop(t) = "park" => t = "pump"
         /\ Loop(t) = "pop" => t # "pump" /\ ask[t].insts = {}
BY DEF Loop

(* The tasks and the points.                                                *)
LEMMA TasksLemma == /\ "pump" \in Tasks /\ "dispatch" \in Tasks
                    /\ Scripts \subseteq Tasks /\ Returns \subseteq Points
                    /\ Inside \subseteq Points /\ Outside \subseteq Points
                    /\ "drain" \in Points
BY DEF Tasks, Returns, Inside, Outside, OffCpu, Points

(* A queue that is asked for is there, for the events that are not.         *)
LEMMA AddQueue ==
  ASSUME QueueTypes, NEW t \in Tasks, NEW j \in Insts,
         queues' = [queues EXCEPT ![t] = @ \cup {j}], UNCHANGED arrived
  PROVE  QueueTypes'
<1>1. queues' \in [Tasks -> SUBSET Insts]
  BY DEF QueueTypes
<1>2. ASSUME NEW u \in Tasks, NEW i \in Insts
      PROVE  Count(arrived'[u], i)
               <= IF i \in queues'[u] THEN AwaitDepth ELSE 0
  <2>1. arrived[u] \in Seq(Insts)
    BY DEF QueueTypes
  <2>2. Count(arrived[u], i) \in Nat
    BY <2>1, CountType
  <2>3. /\ Count(arrived[u], i) <= IF i \in queues[u] THEN AwaitDepth ELSE 0
        /\ i \in queues[u] => i \in queues'[u]
    BY DEF QueueTypes
  <2>4. QED
    BY <2>2, <2>3, DepthAssumption
<1>3. QED
  BY <1>1, <1>2 DEF QueueTypes

(* An event that leaves a queue leaves no more of its source behind.        *)
LEMMA DropEvent ==
  ASSUME QueueTypes, NEW t \in Tasks, NEW k \in DOMAIN arrived[t],
         arrived' = [arrived EXCEPT ![t] = Without(@, k)], UNCHANGED queues
  PROVE  QueueTypes'
<1> DEFINE s == arrived[t]
           r == Without(s, k)
<1>1. s \in Seq(Insts) /\ k \in DOMAIN s
  BY DEF QueueTypes
<1>2. r \in Seq(Insts) /\ \A i : Count(r, i) <= Count(s, i)
  BY <1>1, CountRemove DEF Without
<1>3. \A i : Count(r, i) \in Nat /\ Count(s, i) \in Nat
  BY <1>1, <1>2, CountType
<1>4. arrived' = [arrived EXCEPT ![t] = r]
  OBVIOUS
<1> HIDE DEF r
<1>5. arrived' \in [Tasks -> Seq(Insts)]
  BY <1>2, <1>4 DEF QueueTypes
<1>6. ASSUME NEW u \in Tasks, NEW i \in Insts
      PROVE  Count(arrived'[u], i)
               <= IF i \in queues'[u] THEN AwaitDepth ELSE 0
  <2>1. Count(arrived[u], i) <= IF i \in queues[u] THEN AwaitDepth ELSE 0
    BY DEF QueueTypes
  <2>2. CASE u = t
    <3>1. arrived'[u] = r
      BY <1>4, <2>2 DEF QueueTypes
    <3>2. Count(r, i) <= Count(arrived[u], i)
      BY <1>2, <2>2
    <3>3. QED
      BY <1>3, <2>1, <2>2, <3>1, <3>2, DepthAssumption
  <2>3. CASE u # t
    BY <1>4, <2>1, <2>3 DEF QueueTypes
  <2>4. QED
    BY <2>2, <2>3
<1>7. QED
  BY <1>5, <1>6 DEF QueueTypes

(* A queue that is empty may go.                                            *)
LEMMA DropQueue ==
  ASSUME QueueTypes, NEW t \in Tasks, NEW j \in Insts,
         Count(arrived[t], j) = 0,
         queues' = [queues EXCEPT ![t] = @ \ {j}], UNCHANGED arrived
  PROVE  QueueTypes'
<1>1. queues' \in [Tasks -> SUBSET Insts]
  BY DEF QueueTypes
<1>2. ASSUME NEW u \in Tasks, NEW i \in Insts
      PROVE  Count(arrived'[u], i)
               <= IF i \in queues'[u] THEN AwaitDepth ELSE 0
  <2>1. Count(arrived[u], i) <= IF i \in queues[u] THEN AwaitDepth ELSE 0
    BY DEF QueueTypes
  <2>2. CASE u = t /\ i = j
    BY <2>2, DepthAssumption
  <2>3. CASE ~(u = t /\ i = j)
    <3>1. i \in queues[u] <=> i \in queues'[u]
      BY <2>3 DEF QueueTypes
    <3>2. QED
      BY <2>1, <3>1
  <2>4. QED
    BY <2>2, <2>3
<1>3. QED
  BY <1>1, <1>2 DEF QueueTypes

(* A finalizer keeps the types.                                             *)
LEMMA FinalizerTypes ==
  ASSUME TypeOK, StackInv, NEW t \in Tasks, NEW j \in Finalized, NEW p,
         Finalizer(t, j, p),
         \/ pc[t] = "convert" /\ p = "reconvert"
         \/ pc[t] = "alloc" /\ p = "store"
         \/ pc[t] = "table" /\ p = "tabled"
  PROVE  TypeOK'
<1> USE Parts, Unchanged
<1>1. /\ Alone(t) /\ Drain(t, p) /\ draining' = draining /\ j \in Insts
  BY NameAssumption DEF Finalizer, At, Alone, drain
<1>2. StackTypes'
  <2>1. CASE pc[t] = "convert" /\ p = "reconvert"
    BY <1>1, <2>1, NestLemma, MovedTypes, TasksLemma
  <2>2. CASE \/ pc[t] = "alloc" /\ p = "store"
             \/ pc[t] = "table" /\ p = "tabled"
    <3>1. pc[t] \in Outside /\ p \in Returns
      BY <2>2 DEF Outside, Returns
    <3>2. QED
      BY <1>1, <3>1, DrainLemma, MovedTypes, TasksLemma
  <2>3. QED
    BY <2>1, <2>2
<1>3. QueueTypes'
  BY <1>1, AddQueue DEF Finalizer
<1>3a. TableTypes'
  BY <1>1 DEF Finalizer, TableTypes
<1>4. FlagTypes'
  <2>1. flags[j] \in SUBSET Flags
    BY <1>1 DEF FlagTypes
  <2>2. flags[j] \cup {"CONNECTED", "AWAITED"} \in SUBSET Flags
    BY <2>1 DEF Flags
  <2>3. QED
    BY <1>1, <2>1, <2>2, AddFlags DEF Finalizer
<1>5. QED
  BY <1>2, <1>3, <1>3a, <1>4 DEF Finalizer, start

(* So does a drain, ...                                                     *)
LEMMA DrainKeepsTypes ==
  ASSUME TypeOK, StackInv, SlotInv, NEW t \in Tasks, Draining(t)
  PROVE  TypeOK'
<1> USE Parts, Unchanged, TasksLemma
<1>1. CASE DrainBegin(t)
  <2>1. StackTypes'
    BY <1>1, GotoTypes DEF DrainBegin, Step, Inside
  <2>2. DrainTypes' /\ BellTypes'
    BY <1>1 DEF DrainBegin, DrainTypes, BellTypes
  <2>3. QED
    BY <1>1, <2>1, <2>2 DEF DrainBegin, shared, heap
<1>2. CASE DrainRefused(t)
  <2>1. StackTypes'
    BY <1>2, RefusedLemma, MovedTypes
       DEF DrainRefused, At, Inside, drain
  <2>2. QED
    BY <1>2, <2>1 DEF DrainRefused, shared, heap
<1>3. CASE StagingTake(t)
  <2>1. StackTypes'
    BY <1>3, GotoTypes DEF StagingTake, Step, Inside
  <2>2. /\ Tail(staging) \in Seq(Insts) /\ Head(staging) \in Insts
        /\ Len(Tail(staging)) = Len(staging) - 1 /\ Len(staging) \in Nat
    BY <1>3, HeadTailProperties, LenProperties DEF StagingTake, StagingTypes
  <2>3. StagingTypes'
    <3>1. staging' = Tail(staging)
      BY <1>3 DEF StagingTake
    <3>2. Len(staging) <= StagingDepth /\ StagingDepth \in Nat
      BY DepthAssumption DEF StagingTypes
    <3>3. Len(Tail(staging)) <= StagingDepth
      BY <2>2, <3>2
    <3>4. QED
      BY <2>2, <3>1, <3>3 DEF StagingTypes
  <2>4. DrainTypes'
    BY <1>3, <2>2 DEF StagingTake, DrainTypes
  <2>5. QED
    BY <1>3, <2>1, <2>3, <2>4 DEF StagingTake, shared, heap
<1>4. CASE DrainEnd(t)
  <2>1. StackTypes'
    BY <1>4, EndLemma, MovedTypes DEF DrainEnd, At
  <2>2. DrainTypes'
    BY <1>4 DEF DrainEnd, NoSlot, DrainTypes
  <2>3. QED
    BY <1>4, <2>1, <2>2 DEF DrainEnd, shared, heap
<1>5. CASE DrainPrune(t)
  <2>1. StackTypes'
    BY <1>5, GotoTypes DEF DrainPrune, Inside
  <2>2. slot.inst \in Insts
    BY <1>5 DEF DrainPrune, At, SlotInv, Holds
  <2>3. CountTypes'
    BY <1>5, <2>2, IncType DEF DrainPrune, CountTypes
  <2>4. DrainTypes'
    BY <1>5, <2>2 DEF DrainPrune, DrainTypes
  <2>5. QueueTypes' /\ FlagTypes'
    <3> DEFINE live == \E u \in Tasks :
                         slot.inst \in queues[u] /\ ~TaskFinished(u)
               gone == {u \in Tasks :
                          slot.inst \in queues[u] /\ TaskFinished(u)}
    <3>1. CASE "AWAITED" \notin flags[slot.inst]
      BY <1>5, <3>1 DEF DrainPrune
    <3>2. CASE "AWAITED" \in flags[slot.inst]
      <4>1. Prune(slot.inst, live)
        BY <1>5, <3>2 DEF DrainPrune
      <4>2. flags[slot.inst] \in SUBSET Flags
        BY <2>2 DEF FlagTypes
      <4>3. FlagTypes'
        BY <2>2, <4>1, <4>2 DEF Prune, FlagTypes
      <4>4. /\ queues' = [u \in Tasks |->
                            queues[u] \ {j \in {slot.inst} : u \in gone}]
            /\ arrived' = [u \in Tasks |->
                             IF u \in gone THEN <<>> ELSE arrived[u]]
        BY <4>1 DEF Prune
      <4> HIDE DEF gone, live
      <4>5. <<>> \in Seq(Insts)
        BY EmptySeq
      <4>6. /\ queues' \in [Tasks -> SUBSET Insts]
            /\ arrived' \in [Tasks -> Seq(Insts)]
        BY <4>4, <4>5 DEF QueueTypes
      <4>7. ASSUME NEW u \in Tasks, NEW i \in Insts
            PROVE  Count(arrived'[u], i)
                     <= IF i \in queues'[u] THEN AwaitDepth ELSE 0
        <5>1. CASE u \in gone
          BY <4>4, <5>1, CountEmpty, DepthAssumption
        <5>2. CASE u \notin gone
          <6>1. arrived'[u] = arrived[u] /\ queues'[u] = queues[u]
            BY <4>4, <5>2
          <6>2. QED
            BY <6>1 DEF QueueTypes
        <5>3. QED
          BY <5>1, <5>2
      <4>8. QED
        BY <4>3, <4>6, <4>7 DEF QueueTypes
    <3>3. QED
      BY <3>1, <3>2
  <2>6. QED
    BY <1>5, <2>1, <2>3, <2>4, <2>5 DEF DrainPrune, start
<1>6. CASE ConvertFails(t)
  <2>1. StackTypes'
    BY <1>6, GotoTypes DEF ConvertFails, Inside
  <2>2. slot.inst \in Insts
    BY <1>6 DEF ConvertFails, Converting, At, SlotInv, Holds, Converts
  <2>3. CountTypes'
    BY <1>6, <2>2, IncType DEF ConvertFails, CountTypes
  <2>4. QED
    BY <1>6, <2>1, <2>3 DEF ConvertFails, shared, heap
<1>7. CASE Route(t)
  <2>1. StackTypes'
    BY <1>7, GotoTypes DEF Route, Inside
  <2>2. /\ slot.inst \in Insts
        /\ slot.fifo => Len(fifo) < FifoDepth
    BY <1>7 DEF Route, Converting, At, SlotInv, Holds, Converts
  <2>3. FifoTypes'
    <3>1. /\ Append(fifo, slot.inst) \in Seq(Insts)
          /\ Len(Append(fifo, slot.inst)) = Len(fifo) + 1
          /\ Len(fifo) \in Nat
      BY <2>2, AppendProperties, LenProperties DEF FifoTypes
    <3>2. QED
      BY <1>7, <2>2, <3>1, DepthAssumption DEF Route, FifoTypes
  <2>4. QueueTypes'
    <3> DEFINE i == slot.inst
               open == {u \in Tasks : /\ slot.await /\ i \in queues[u]
                                      /\ Count(arrived[u], i) < AwaitDepth}
    <3>1. /\ arrived' = [u \in Tasks |-> IF u \in open
                           THEN Append(arrived[u], i) ELSE arrived[u]]
          /\ queues' = queues
      BY <1>7 DEF Route
    <3>2. \A u \in Tasks : arrived[u] \in Seq(Insts)
      BY DEF QueueTypes
    <3>3. \A u \in Tasks : Append(arrived[u], i) \in Seq(Insts)
      BY <2>2, <3>2, AppendProperties
    <3>4. arrived' \in [Tasks -> Seq(Insts)]
      BY <3>1, <3>2, <3>3
    <3>5. ASSUME NEW u \in Tasks, NEW j \in Insts
          PROVE  Count(arrived'[u], j)
                   <= IF j \in queues'[u] THEN AwaitDepth ELSE 0
      <4>1. CASE u \in open
        <5>1. arrived'[u] = Append(arrived[u], i)
          BY <3>1, <4>1
        <5>2. Count(arrived'[u], j) = Count(arrived[u], j) + One(i = j)
          BY <2>2, <3>2, <5>1, CountAppend
        <5>3. /\ Count(arrived[u], j) \in Nat
              /\ i \in queues[u] /\ Count(arrived[u], i) < AwaitDepth
          BY <3>2, <4>1, CountType
        <5>4. CASE i = j
          BY <3>1, <5>2, <5>3, <5>4, DepthAssumption DEF One
        <5>5. CASE i # j
          BY <3>1, <5>2, <5>3, <5>5 DEF One, QueueTypes
        <5>6. QED
          BY <5>4, <5>5
      <4>2. CASE u \notin open
        <5>1. arrived'[u] = arrived[u] /\ queues' = queues
          BY <3>1, <4>2
        <5>2. QED
          BY <5>1 DEF QueueTypes
      <4>3. QED
        BY <4>1, <4>2
    <3>6. QED
      BY <3>1, <3>4, <3>5 DEF QueueTypes
  <2>5. QED
    BY <1>7, <2>1, <2>3, <2>4 DEF Route, shared
<1>8. ASSUME NEW j \in Finalized, pc[t] = "convert",
             Finalizer(t, j, "reconvert")
      PROVE  TypeOK'
  BY <1>8, FinalizerTypes
<1>9. QED
  BY <1>1, <1>2, <1>3, <1>4, <1>5, <1>6, <1>7, <1>8 DEF Draining

(* So does a task that attaches to the doorbell.                            *)
LEMMA AttachTypes ==
  ASSUME TypeOK, StackInv, NEW t \in Tasks, Alone(t), pc[t] \in Outside,
         Attach(t)
  PROVE  TypeOK'
<1> USE Parts, Unchanged
<1>1. Loop(t) \in Returns /\ draining' = draining
  BY LoopLemma DEF Attach, Returns, drain
<1>2. StackTypes'
  BY <1>1, DrainLemma, MovedTypes, TasksLemma DEF Attach
<1>3. BellTypes'
  BY DEF Attach, BellTypes
<1>4. QED
  BY <1>2, <1>3 DEF Attach, shared, heap

(* ... an await, ...                                                        *)
LEMMA AwaitKeepsTypes ==
  ASSUME TypeOK, StackInv, AskInv, NEW t \in Tasks, Awaiting(t)
  PROVE  TypeOK'
<1> USE Parts, Unchanged, TasksLemma
<1>1. ASSUME NEW i \in Insts, QueueAlloc(t, i) PROVE TypeOK'
  <2>1. StackTypes'
    BY <1>1, GotoTypes DEF QueueAlloc, Step, Outside
  <2>2. AskTypes'
    BY <1>1 DEF QueueAlloc, SetAsk, AskTypes
  <2>3. QED
    BY <1>1, <2>1, <2>2 DEF QueueAlloc, shared, heap
<1>2. CASE QueueKept(t)
  <2>1. StackTypes'
    BY <1>2, GotoTypes DEF QueueKept, Outside
  <2>2. AskTypes'
    BY <1>2 DEF QueueKept, Made, SetAsk, AskTypes
  <2>3. QED
    BY <1>2, <2>1, <2>2 DEF QueueKept, shared, heap
<1>3. CASE QueueStore(t)
  <2>1. StackTypes'
    BY <1>3, GotoTypes DEF QueueStore, Outside
  <2>2. ask[t].making \in Insts
    BY <1>3 DEF QueueStore, Storing, At, AskInv, Asking
  <2>3. QueueTypes'
    BY <1>3, <2>2, AddQueue DEF QueueStore
  <2>4. QED
    BY <1>3, <2>1, <2>3 DEF QueueStore, shared
<1>4. CASE QueueFlags(t)
  <2>1. pc[t] \in Outside /\ Alone(t) /\ draining' = draining
    BY <1>4 DEF QueueFlags, At, Outside, Alone, drain
  <2>2. StackTypes'
    <3>1. "prepare" \in Returns
      BY DEF Returns
    <3>2. QED
      BY <1>4, <2>1, <3>1, DrainLemma, MovedTypes DEF QueueFlags
  <2>3. ask[t].making \in Insts
    BY <1>4 DEF QueueFlags, At, AskInv, Asking
  <2>4. FlagTypes'
    <3>1. flags[ask[t].making] \cup {"CONNECTED", "AWAITED"} \in SUBSET Flags
      BY <2>3 DEF FlagTypes, Flags
    <3>2. QED
      BY <1>4, <2>3, <3>1, AddFlags DEF QueueFlags
  <2>5. AskTypes'
    BY <1>4 DEF QueueFlags, Made, SetAsk, AskTypes
  <2>6. QED
    BY <1>4, <2>2, <2>4, <2>5 DEF QueueFlags, start, heap
<1>5. ASSUME NEW j \in Finalized, pc[t] = "alloc", Finalizer(t, j, "store")
      PROVE  TypeOK'
  BY <1>5, FinalizerTypes
<1>6. CASE Prepared(t)
  BY <1>6, AttachTypes DEF Prepared, At, Outside, Alone
<1>7. CASE TakeEvent(t)
  <2>1. StackTypes'
    BY <1>7, GotoTypes DEF TakeEvent, Step, Outside
  <2>2. AskTypes'
    BY <1>7 DEF TakeEvent, SetAsk, NoAsk, AskTypes
  <2>3. QueueTypes'
    <3> DEFINE s == arrived[t]
    <3>1. PICK k \in Mine(t) :
            arrived' = [arrived EXCEPT ![t] = Without(@, k)]
      BY <1>7 DEF TakeEvent
    <3>2. k \in DOMAIN arrived[t]
      BY <3>1 DEF Mine
    <3>3. QED
      BY <1>7, <3>1, <3>2, DropEvent DEF TakeEvent
  <2>4. QED
    BY <1>7, <2>1, <2>2, <2>3 DEF TakeEvent, shared
<1>8. CASE TakeTimeout(t)
  <2>1. StackTypes'
    BY <1>8, GotoTypes DEF TakeTimeout, Step, Outside
  <2>2. AskTypes'
    BY <1>8 DEF TakeTimeout, SetAsk, NoAsk, AskTypes
  <2>3. QED
    BY <1>8, <2>1, <2>2 DEF TakeTimeout, shared, heap
<1>9. CASE TakePark(t)
  <2>1. StackTypes'
    BY <1>9, GotoTypes DEF TakePark, Step, Outside, OffCpu
  <2>2. QED
    BY <1>9, <2>1 DEF TakePark, shared, heap
<1>10. CASE TableLoses(t)
  <2>1. QueueTypes'
    BY <1>10, DropEvent DEF TableLoses
  <2>2. QED
    BY <1>10, <2>1 DEF TableLoses, shared, tasks
<1>11. CASE TableStore(t)
  <2>1. StackTypes'
    BY <1>11, GotoTypes DEF TableStore, Outside
  <2>2. ask[t].making \in Insts
    BY <1>11 DEF TableStore, At, AskInv, Asking
  <2>3. QueueTypes' /\ TableTypes'
    BY <1>11, <2>2, DropQueue DEF TableStore, TableTypes
  <2>4. QED
    BY <1>11, <2>1, <2>3 DEF TableStore, shared
<1>12. ASSUME NEW j \in Finalized, pc[t] = "table", Finalizer(t, j, "tabled")
       PROVE  TypeOK'
  BY <1>12, FinalizerTypes
<1>13. QED
  BY <1>1, <1>2, <1>3, <1>4, <1>5, <1>6, <1>7, <1>8, <1>9, <1>10, <1>11, <1>12
     DEF Awaiting

(* An event that is taken leaves room behind.                               *)
LEMMA TakeFifo ==
  ASSUME FifoTypes, fifo # <<>>, fifo' = Tail(fifo)
  PROVE  FifoTypes' /\ Head(fifo) \in Insts
<1>1. /\ Tail(fifo) \in Seq(Insts) /\ Len(Tail(fifo)) = Len(fifo) - 1
      /\ Head(fifo) \in Insts /\ Len(fifo) \in Nat
  BY HeadTailProperties, LenProperties DEF FifoTypes
<1>2. Len(fifo) <= FifoDepth /\ FifoDepth \in Nat
  BY DepthAssumption DEF FifoTypes
<1>3. Len(Tail(fifo)) <= FifoDepth
  BY <1>1, <1>2
<1>4. QED
  BY <1>1, <1>3 DEF FifoTypes

\* The dispatcher, and the rest of the scheduler.
Scheduling ==
  \/ Dispatcher \/ WakeUp
  \/ \E t \in Tasks : Begin(t) \/ Wake(t)
  \/ \E t \in Scripts : Script(t) \/ Collect(t) \/ Spawn(t)

(* ... and everything else that the scheduler runs.                         *)
LEMMA SchedulingKeepsTypes ==
  ASSUME TypeOK, StackInv, Scheduling
  PROVE  TypeOK'
<1> USE Parts, Unchanged, TasksLemma DEF shared, heap
<1>1. CASE Pop
  <2>1. StackTypes'
    BY <1>1, GotoTypes DEF Pop, Step, Outside
  <2>2. FifoTypes' /\ Head(fifo) \in Insts
    BY <1>1, TakeFifo DEF Pop
  <2>3. CountTypes'
    BY <1>1, <2>2, IncType DEF Pop, CountTypes
  <2>4. QED
    BY <1>1, <2>1, <2>2, <2>3 DEF Pop
<1>2. CASE PopFails
  <2>1. StackTypes'
    <3>1. /\ Alone("dispatch") /\ pc["dispatch"] \in Outside
          /\ "pop" \in Returns /\ draining' = draining
      BY <1>2 DEF PopFails, At, Alone, Outside, Returns, drain
    <3>2. QED
      BY <1>2, <3>1, DrainLemma, MovedTypes DEF PopFails
  <2>2. FifoTypes' /\ Head(fifo) \in Insts
    BY <1>2, TakeFifo DEF PopFails
  <2>3. CountTypes'
    BY <1>2, <2>2, IncType DEF PopFails, CountTypes
  <2>4. QED
    BY <1>2, <2>1, <2>2, <2>3 DEF PopFails
<1>3. CASE PopNothing
  <2>1. StackTypes'
    BY <1>3, GotoTypes DEF PopNothing, Step, Outside, OffCpu
  <2>2. QED
    BY <1>3, <2>1 DEF PopNothing
<1>4. CASE HandlersReturn
  <2>1. /\ Alone("dispatch") /\ pc["dispatch"] \in Outside
        /\ "pop" \in Returns /\ draining' = draining
    BY <1>4 DEF HandlersReturn, At, Alone, Outside, Returns, drain
  <2>2. StackTypes'
    BY <1>4, <2>1, DrainLemma, MovedTypes DEF HandlersReturn
  <2>3. QED
    BY <1>4, <2>2 DEF HandlersReturn
<1>5. CASE Sleep
  <2>1. StackTypes'
    BY <1>5, GotoTypes DEF Sleep, Step, Outside, OffCpu
  <2>2. QED
    BY <1>5, <2>1 DEF Sleep
<1>6. CASE WakeUp
  <2>1. StackTypes'
    BY <1>6, GotoTypes DEF WakeUp, Step, Outside
  <2>2. QED
    BY <1>6, <2>1 DEF WakeUp
<1>7. ASSUME NEW t \in Tasks, BeginInternal(t) PROVE TypeOK'
  BY <1>7, AttachTypes DEF BeginInternal, At, Outside, OffCpu, Alone
<1>8. ASSUME NEW t \in Tasks, BeginScript(t) PROVE TypeOK'
  <2>1. StackTypes'
    BY <1>8, GotoTypes DEF BeginScript, Step, Outside
  <2>2. QED
    BY <1>8, <2>1 DEF BeginScript
<1>9. ASSUME NEW t \in Tasks, Wake(t) PROVE TypeOK'
  <2>1. /\ pc[t] \in Outside /\ Alone(t) /\ Loop(t) \in Returns
        /\ draining' = draining
    BY <1>9, LoopLemma DEF Wake, At, Outside, OffCpu, Alone, Returns, drain
  <2>2. StackTypes'
    BY <1>9, <2>1, DrainLemma, MovedTypes DEF Wake
  <2>3. BellTypes'
    BY <1>9 DEF Wake, BellTypes
  <2>4. QED
    BY <1>9, <2>2, <2>3 DEF Wake
<1>10. ASSUME NEW t \in Scripts, NEW S \in SUBSET Insts, NEW timed \in Timed,
              Await(t, S, timed)
       PROVE  TypeOK'
  <2>1. StackTypes'
    BY <1>10, GotoTypes DEF Await, Step, Outside
  <2>2. AskTypes'
    BY <1>10, NameAssumption DEF Await, SetAsk, AskTypes
  <2>3. QED
    BY <1>10, <2>1, <2>2 DEF Await
<1>11. ASSUME NEW t \in Scripts, Finish(t) PROVE TypeOK'
  <2>1. StackTypes'
    BY <1>11, GotoTypes DEF Finish, Step, Outside, OffCpu
  <2>2. BellTypes'
    BY <1>11 DEF Finish, BellTypes
  <2>3. QED
    BY <1>11, <2>1, <2>2 DEF Finish
<1>12. ASSUME NEW t \in Scripts, Collect(t) PROVE TypeOK'
  <2>1. <<>> \in Seq(Insts)
    BY EmptySeq
  <2>2. /\ queues' \in [Tasks -> SUBSET Insts]
        /\ arrived' \in [Tasks -> Seq(Insts)]
    BY <1>12, <2>1 DEF Collect, QueueTypes
  <2>3. ASSUME NEW u \in Tasks, NEW i \in Insts
        PROVE  Count(arrived'[u], i)
                 <= IF i \in queues'[u] THEN AwaitDepth ELSE 0
    <3>1. CASE u = t
      BY <1>12, <3>1, CountEmpty DEF Collect, QueueTypes
    <3>2. CASE u # t
      BY <1>12, <3>2 DEF Collect, QueueTypes
    <3>3. QED
      BY <3>1, <3>2
  <2>4. QueueTypes'
    BY <2>2, <2>3 DEF QueueTypes
  <2>5. QED
    BY <1>12, <2>4 DEF Collect, tasks
<1>13. ASSUME NEW t \in Scripts, Spawn(t) PROVE TypeOK'
  <2>1. StackTypes'
    BY <1>13, GotoTypes DEF Spawn, Outside, OffCpu
  <2>2. QED
    BY <1>13, <2>1 DEF Spawn
<1>14. QED
  BY <1>1, <1>2, <1>3, <1>4, <1>5, <1>6, <1>7, <1>8, <1>9, <1>10, <1>11,
     <1>12, <1>13 DEF Scheduling, Dispatcher, Begin, Script

\* The steps of the threads: the listeners, the start and the stop of the
\* frontend, and those of one task.
Listening == Listener \/ \E i \in Insts : Emit(i)
Starting  == Coordinate \/ Fail \/ \E i \in Insts : AddPolicy(i)

(* These are the steps there are.                                           *)
LEMMA Steps ==
  ASSUME Next
  PROVE  Listening \/ Starting \/ Scheduling
           \/ \E t \in Tasks : Draining(t) \/ Awaiting(t)
BY DEF Next, Listening, Starting, Scheduling, Running

(* Every step keeps the types.                                              *)
LEMMA NextTypes ==
  ASSUME TypeOK, StackInv, SlotInv, AskInv, StagerInv, [Next]_vars
  PROVE  TypeOK'
<1>1. CASE UNCHANGED vars
  BY <1>1, Parts, Unchanged DEF vars, shared, heap, tasks
<1>2. CASE Next
  BY <1>2, Steps, ListenerTypes, StartStopTypes, DrainKeepsTypes,
     AwaitKeepsTypes, SchedulingKeepsTypes DEF Listening, Starting
<1>3. QED
  BY <1>1, <1>2

-----------------------------------------------------------------------------
(* The stacks.                                                              *)

(* A step of a task that drains nothing keeps the stacks.                   *)
LEMMA StepStack ==
  ASSUME TypeOK, StackInv, NEW t \in Tasks, Alone(t), pc[t] \in Outside,
         NEW p \in Outside, Goto(t, p), calls' = calls, draining' = draining
  PROVE  StackInv'
<1>1. ~draining /\ Len(calls[t]) = 0 /\ calls \in [Tasks -> Seq(Points)]
  BY OutsideLemma DEF TypeOK
<1>2. Moved(t, p, calls[t])
  BY <1>1 DEF Moved, Goto
<1>3. Shape(p, calls[t], draining')
  BY <1>1 DEF Shape
<1>4. QED
  BY <1>1, <1>2, <1>3, StackStep, TasksLemma

(* So does the beginning of a drain.                                        *)
LEMMA DrainStack ==
  ASSUME TypeOK, StackInv, NEW t \in Tasks, Alone(t), pc[t] \in Outside,
         NEW p \in Returns, Drain(t, p), draining' = draining
  PROVE  StackInv'
<1>1. "drain" \notin Outside
  BY DEF Outside, OffCpu
<1>2. QED
  BY <1>1, DrainLemma, StackStep, TasksLemma

(* So does a step inside one.                                               *)
LEMMA InsideStack ==
  ASSUME TypeOK, StackInv, NEW t \in Tasks, Alone(t),
         pc[t] \in Inside \/ (pc[t] = "drain" /\ ~draining),
         NEW p \in Inside, Goto(t, p), calls' = calls, draining'
  PROVE  StackInv'
<1>1. p \notin Outside
  BY DEF Outside, OffCpu, Inside
<1>2. QED
  BY <1>1, InsideLemma, StackStep, TasksLemma

(* A finalizer drains inside a drain, or begins one.                        *)
LEMMA FinalizerStack ==
  ASSUME TypeOK, StackInv, NEW t \in Tasks, NEW j, NEW p,
         Finalizer(t, j, p),
         \/ pc[t] = "convert" /\ p = "reconvert"
         \/ pc[t] = "alloc" /\ p = "store"
         \/ pc[t] = "table" /\ p = "tabled"
  PROVE  StackInv'
<1>1. Alone(t) /\ Drain(t, p) /\ draining' = draining
  BY DEF Finalizer, At, Alone, drain
<1>2. CASE pc[t] = "convert" /\ p = "reconvert"
  <2>1. "drain" \notin Outside
    BY DEF Outside, OffCpu
  <2>2. QED
    BY <1>1, <1>2, <2>1, NestLemma, StackStep, TasksLemma
<1>3. CASE \/ pc[t] = "alloc" /\ p = "store"
           \/ pc[t] = "table" /\ p = "tabled"
  <2>1. pc[t] \in Outside /\ p \in Returns
    BY <1>3 DEF Outside, Returns
  <2>2. QED
    BY <1>1, <2>1, DrainStack
<1>4. QED
  BY <1>2, <1>3

(* Every step keeps the stacks in order.                                    *)
LEMMA NextStack ==
  ASSUME TypeOK, StackInv, [Next]_vars
  PROVE  StackInv'
<1>1. CASE UNCHANGED <<pc, calls, draining>>
  BY <1>1 DEF StackInv
<1>2. CASE Listening
  <2>1. UNCHANGED <<pc, calls, draining>>
    BY <1>2 DEF Listening, Listener, Emit, Filter, Stage, StageDrops,
                StageOverwrites, CountOverwritten, Ring, Publish,
                PublishFails, drain, tasks
  <2>2. QED
    BY <1>1, <2>1
<1>3. CASE Starting
  <2>1. CASE Empty
    <3>1. /\ pc' = [t \in Tasks |-> "start"] /\ draining' = FALSE
          /\ calls' = [t \in Tasks |-> <<>>]
      BY <2>1 DEF Empty, Abandon
    <3>2. Len(<<>>) = 0 /\ "start" \in Outside /\ "start" \in OffCpu
      BY DEF Outside, OffCpu
    <3>3. QED
      BY <3>1, <3>2 DEF StackInv, Shape
  <2>2. CASE ~Empty
    <3>1. UNCHANGED <<pc, calls, draining>>
      BY <1>3, <2>2 DEF Starting, Coordinate, SealFlags, Seal, Folded, Fold,
           Clear, Closing, CloseAwait, CloseDrain, CloseTake, CloseDrained,
           Closed, Fail, AddPolicy, Work, drain, tasks
    <3>2. QED
      BY <1>1, <3>1
  <2>3. QED
    BY <2>1, <2>2
<1>4. ASSUME NEW t \in Tasks, Draining(t) PROVE StackInv'
  <2>1. CASE DrainBegin(t)
    BY <2>1, InsideStack DEF DrainBegin, Step, At, Alone, Inside
  <2>2. CASE DrainRefused(t)
    <3>1. /\ Alone(t) /\ pc[t] = "drain" /\ draining /\ Return(t)
          /\ draining' = draining /\ "reconvert" \notin Outside
          /\ "reconvert" \in Points
      BY <2>2 DEF DrainRefused, At, Alone, drain, Outside, OffCpu, Points
    <3>2. QED
      BY <3>1, RefusedLemma, StackStep
  <2>3. CASE StagingTake(t)
    <3>1. draining
      BY <2>3 DEF StagingTake, Step, At, StackInv, Shape, Outside, OffCpu
    <3>2. QED
      BY <2>3, <3>1, InsideStack DEF StagingTake, Step, At, Alone, Inside
  <2>4. CASE DrainEnd(t)
    <3>1. Alone(t) /\ pc[t] = "take" /\ Return(t) /\ ~draining'
      BY <2>4 DEF DrainEnd, At, Alone
    <3>2. QED
      BY <3>1, EndLemma, StackStep, TasksLemma
  <2>5. CASE DrainPrune(t)
    <3>1. PICK p \in {"convert", "take"} : Goto(t, p)
      BY <2>5 DEF DrainPrune
    <3>2. draining /\ pc[t] \in Inside /\ p \in Inside
      BY <2>5, <3>1
         DEF DrainPrune, At, StackInv, Shape, Outside, OffCpu, Inside
    <3>3. Alone(t) /\ calls' = calls /\ draining' = draining
      BY <2>5 DEF DrainPrune, At, Alone
    <3>4. QED
      BY <3>1, <3>2, <3>3, InsideStack
  <2>6. CASE ConvertFails(t) \/ Route(t)
    <3>1. draining /\ pc[t] \in Inside /\ "take" \in Inside
      BY <2>6 DEF ConvertFails, Route, Converting, At, StackInv, Shape,
                  Outside, OffCpu, Inside
    <3>2. /\ Alone(t) /\ Goto(t, "take") /\ calls' = calls
          /\ draining' = draining
      BY <2>6 DEF ConvertFails, Route, Converting, At, Alone, drain
    <3>3. QED
      BY <3>1, <3>2, InsideStack
  <2>7. ASSUME NEW j \in Finalized, pc[t] = "convert",
               Finalizer(t, j, "reconvert")
        PROVE  StackInv'
    BY <2>7, FinalizerStack
  <2>8. QED
    BY <1>4, <2>1, <2>2, <2>3, <2>4, <2>5, <2>6, <2>7 DEF Draining
<1>5. ASSUME NEW t \in Tasks, Awaiting(t) PROVE StackInv'
  <2>1. ASSUME NEW i \in Insts, QueueAlloc(t, i) PROVE StackInv'
    BY <2>1, StepStack DEF QueueAlloc, Step, At, Alone, Outside, drain
  <2>2. CASE QueueKept(t)
    BY <2>2, StepStack DEF QueueKept, Storing, At, Alone, Outside, drain
  <2>3. CASE QueueStore(t)
    BY <2>3, StepStack DEF QueueStore, Storing, At, Alone, Outside, drain
  <2>4. CASE QueueFlags(t)
    BY <2>4, DrainStack DEF QueueFlags, At, Alone, Outside, Returns, drain
  <2>5. ASSUME NEW j \in Finalized, pc[t] = "alloc", Finalizer(t, j, "store")
        PROVE  StackInv'
    BY <2>5, FinalizerStack
  <2>6. CASE Prepared(t)
    BY <2>6, DrainStack, LoopLemma
       DEF Prepared, Attach, At, Alone, Outside, Returns, drain
  <2>7. CASE TakeEvent(t) \/ TakeTimeout(t) \/ TakePark(t)
    BY <2>7, StepStack DEF TakeEvent, TakeTimeout, TakePark, Step, At, Alone,
                           Outside, OffCpu, drain
  <2>8. CASE TableLoses(t)
    BY <1>1, <2>8 DEF TableLoses, drain, tasks
  <2>9. CASE TableStore(t)
    BY <2>9, StepStack DEF TableStore, At, Alone, Outside, drain
  <2>10. ASSUME NEW j \in Finalized, pc[t] = "table",
                Finalizer(t, j, "tabled")
         PROVE  StackInv'
    BY <2>10, FinalizerStack
  <2>11. QED
    BY <1>5, <2>1, <2>2, <2>3, <2>4, <2>5, <2>6, <2>7, <2>8, <2>9, <2>10
       DEF Awaiting
<1>6. CASE Scheduling
  <2> USE TasksLemma
  <2>1. CASE Pop \/ PopNothing \/ Sleep \/ WakeUp
    BY <2>1, StepStack DEF Pop, PopNothing, Sleep, WakeUp, Step, At, Alone,
                           Outside, OffCpu, drain
  <2>2. CASE PopFails \/ HandlersReturn
    <3>1. "pop" \in Returns
      BY DEF Returns
    <3>2. QED
      BY <2>2, <3>1, DrainStack
         DEF PopFails, HandlersReturn, At, Alone, Outside, drain
  <2>3. ASSUME NEW t \in Tasks, BeginInternal(t) \/ Wake(t) PROVE StackInv'
    <3>1. Loop(t) \in Returns
      BY LoopLemma DEF Returns
    <3>2. QED
      BY <2>3, <3>1, DrainStack DEF BeginInternal, Attach, Wake, At, Alone,
                                    Outside, OffCpu, drain
  <2>4. ASSUME NEW t \in Tasks, BeginScript(t) PROVE StackInv'
    BY <2>4, StepStack DEF BeginScript, Step, At, Alone, Outside, OffCpu,
                           drain
  <2>5. ASSUME NEW t \in Scripts, Script(t) PROVE StackInv'
    BY <2>5, StepStack DEF Script, Await, Finish, Step, At, Alone, Outside,
                           OffCpu, drain
  <2>6. ASSUME NEW t \in Scripts, Collect(t) PROVE StackInv'
    BY <1>1, <2>6 DEF Collect, drain, tasks
  <2>7. ASSUME NEW t \in Scripts, Spawn(t) PROVE StackInv'
    <3>1. PICK u \in Others(t) : At(u, "run")
      BY <2>7 DEF Spawn
    <3>2. /\ u \in Tasks /\ u # t /\ pc[u] = "run"
          /\ \A v \in Tasks : v # u => pc[v] \in OffCpu
      BY <3>1 DEF At, Others
    <3>3. /\ pc \in [Tasks -> Points] /\ pc' = [pc EXCEPT ![t] = "start"]
          /\ calls' = calls /\ draining' = draining /\ pc[t] = "done"
      BY <2>7 DEF Spawn, Goto, drain, TypeOK
    <3>4. "start" \in OffCpu /\ OffCpu \subseteq Outside /\ "done" \in Outside
      BY DEF OffCpu, Outside
    <3>5. Len(calls[t]) = 0
      BY <3>3 DEF StackInv, Shape, Inside
    <3>6. \A v \in Tasks : Shape(pc'[v], calls'[v], draining')
      BY <3>3, <3>4, <3>5 DEF StackInv, Shape
    <3>7. \A v, w \in Tasks : v # w => pc'[v] \in OffCpu \/ pc'[w] \in OffCpu
      BY <3>3, <3>4 DEF StackInv
    <3>8. \A v \in Tasks : pc[v] \notin Outside => pc'[v] \notin Outside
      BY <3>3, <3>4
    <3>9. QED
      BY <3>3, <3>6, <3>7, <3>8 DEF StackInv
  <2>8. QED
    BY <1>6, <2>1, <2>2, <2>3, <2>4, <2>5, <2>6, <2>7
       DEF Scheduling, Dispatcher, Begin
<1>7. QED
  BY <1>1, <1>2, <1>3, <1>4, <1>5, <1>6, Steps DEF vars, drain, tasks

-----------------------------------------------------------------------------
(* What each kind of step leaves alone.                                     *)

(* The listeners leave the tasks alone, ...                                 *)
LEMMA ListeningFrame ==
  ASSUME Listening
  PROVE  /\ UNCHANGED <<phase, todo, policies, poll, sealed, flags, reopened>>
         /\ UNCHANGED <<fifo, queues, arrived, draining, slot>>
         /\ UNCHANGED <<pc, calls, ask, fifo_drop, delivered>>
BY DEF Listening, Listener, Emit, Filter, Stage, StageDrops, StageOverwrites,
       CountOverwritten, Ring, Publish, PublishFails, shared, start, counts,
       heap, drain, tasks

(* ... the start and the stop leave the listener alone, and the tasks until *)
(* all is closed, ...                                                       *)
LEMMA StartingFrame ==
  ASSUME Starting
  PROVE  /\ UNCHANGED <<stager, emitted, fifo_drop, delivered>>
         /\ \/ Empty
            \/ /\ UNCHANGED <<fifo, queues, arrived, draining, slot>>
               /\ UNCHANGED <<pc, calls, ask>>
               /\ CloseTake \/ UNCHANGED staging
BY DEF Starting, Coordinate, SealFlags, Seal, Folded, Fold, Clear, Closing,
       CloseAwait, CloseDrain, CloseTake, CloseDrained, Closed, Fail,
       AddPolicy, Empty, Work, counts, heap, drain, tasks

(* ... and a task the listener, the start and the stop.                     *)
LEMMA TaskFrame ==
  ASSUME Scheduling \/ \E t \in Tasks : Draining(t) \/ Awaiting(t)
  PROVE  /\ phase = "run"
         /\ UNCHANGED <<phase, todo, policies, poll, reopened, sealed, stager>>
         /\ UNCHANGED <<emitted, staged_drop, preseal_drop>>
<1>1. CASE Scheduling
  BY <1>1 DEF Scheduling, Dispatcher, Pop, PopFails, PopNothing,
       HandlersReturn, Sleep, WakeUp, Begin, BeginInternal, Attach,
       BeginScript, Wake, Script, Await, Finish, Collect, Spawn, Step, At,
       shared, start, counts
<1>2. ASSUME NEW t \in Tasks, Draining(t)
      PROVE  /\ phase = "run"
             /\ UNCHANGED <<phase, todo, policies, poll, reopened, sealed, stager>>
             /\ UNCHANGED <<emitted, staged_drop, preseal_drop>>
  BY <1>2 DEF Draining, DrainBegin, DrainRefused, StagingTake, DrainEnd,
       DrainPrune, ConvertFails, Route, Converting, Finalizer, Step, At,
       shared, start, counts
<1>3. ASSUME NEW t \in Tasks, Awaiting(t)
      PROVE  /\ phase = "run"
             /\ UNCHANGED <<phase, todo, policies, poll, reopened, sealed, stager>>
             /\ UNCHANGED <<emitted, staged_drop, preseal_drop>>
  BY <1>3 DEF Awaiting, QueueAlloc, TableLoses, TableStore, QueueKept,
       QueueStore, Storing, QueueFlags, Finalizer, Prepared, Attach, TakeEvent,
       TakeTimeout, TakePark, Step, At, shared, start, counts
<1>4. QED
  BY <1>1, <1>2, <1>3

-----------------------------------------------------------------------------
(* The listener and the slot.                                               *)

(* The listener has an event until it is idle.                              *)
LEMMA NextStager ==
  ASSUME TypeOK, StagerInv, [Next]_vars
  PROVE  StagerInv'
<1>1. CASE UNCHANGED stager
  BY <1>1 DEF StagerInv
<1>2. CASE Listening
  <2>0. StagerTypes
    BY Parts
  <2>1. ASSUME NEW i \in Insts, Emit(i) PROVE StagerInv'
    BY <2>1, NameAssumption DEF Emit, Idle, StagerInv
  <2>2. CASE Filter
    BY <2>0, <2>2 DEF Filter, Idle, StagerAt, StagerInv, StagerTypes
  <2>3. CASE Stage
    BY <2>0, <2>3 DEF Stage, StagerAt, StagerInv, StagerTypes
  <2>4. CASE StageDrops
    BY <2>4 DEF StageDrops, Idle, StagerInv
  <2>5. CASE StageOverwrites
    <3>1. Head(staging) \in Insts
      <4>1. StagingTypes /\ staging # <<>>
        BY <2>5, Parts, DepthAssumption, EmptySeq DEF StageOverwrites, Full
      <4>2. QED
        BY <4>1, HeadTailProperties DEF StagingTypes
    <3>2. QED
      BY <2>0, <2>5, <3>1, NameAssumption
         DEF StageOverwrites, StagerAt, StagerInv, StagerTypes
  <2>6. CASE CountOverwritten
    BY <2>0, <2>6 DEF CountOverwritten, StagerAt, StagerInv, StagerTypes
  <2>7. CASE Ring
    BY <2>0, <2>7 DEF Ring, Idle, StagerAt, StagerInv, StagerTypes
  <2>8. CASE Publish \/ PublishFails
    BY <2>8 DEF Publish, PublishFails, Idle, StagerInv
  <2>9. QED
    BY <1>2, <2>1, <2>2, <2>3, <2>4, <2>5, <2>6, <2>7, <2>8
       DEF Listening, Listener
<1>3. QED
  BY <1>1, <1>2, Steps, StartingFrame, TaskFrame DEF vars

(* A move keeps the slot in order if the one who moves has it in order.     *)
LEMMA SlotStep ==
  ASSUME TypeOK, StackInv, NEW t \in Tasks, Alone(t), NEW p, NEW c,
         Moved(t, p, c),
         Holds(p, c) => slot'.inst \in Insts,
         Converts(p, c) /\ slot'.fifo => Len(fifo') < FifoDepth
  PROVE  SlotInv'
<1>1. ASSUME NEW u \in Tasks
      PROVE  /\ Holds(pc'[u], calls'[u]) => slot'.inst \in Insts
             /\ Converts(pc'[u], calls'[u]) /\ slot'.fifo =>
                  Len(fifo') < FifoDepth
  <2>1. CASE u = t
    BY <2>1 DEF Moved, TypeOK
  <2>2. CASE u # t
    <3>1. pc'[u] = pc[u] /\ calls'[u] = calls[u] /\ pc[u] \in OffCpu
      BY <2>2 DEF Moved, TypeOK, Alone, Others
    <3>2. Len(calls[u]) = 0
      BY <3>1 DEF StackInv, Shape, OffCpu, Inside
    <3>3. QED
      BY <3>1, <3>2 DEF Holds, Converts, OffCpu
  <2>3. QED
    BY <2>1, <2>2
<1>2. QED
  BY <1>1 DEF SlotInv

(* So does whatever happens outside a drain, or begins one.                 *)
LEMMA SlotOutside ==
  ASSUME TypeOK, StackInv, NEW t \in Tasks, Alone(t), pc[t] \in Outside,
         \/ \E p \in Outside : Goto(t, p) /\ calls' = calls
         \/ \E p \in Returns : Drain(t, p) /\ draining' = draining
  PROVE  SlotInv'
<1>1. Len(calls[t]) = 0 /\ calls \in [Tasks -> Seq(Points)]
  BY OutsideLemma DEF TypeOK
<1>2. ASSUME NEW p \in Outside, Goto(t, p), calls' = calls PROVE SlotInv'
  <2>1. Moved(t, p, calls[t])
    BY <1>1, <1>2 DEF Moved, Goto
  <2>2. ~Holds(p, calls[t]) /\ ~Converts(p, calls[t])
    BY <1>1 DEF Holds, Converts, Outside, OffCpu
  <2>3. QED
    BY <2>1, <2>2, SlotStep
<1>3. ASSUME NEW p \in Returns, Drain(t, p), draining' = draining
      PROVE  SlotInv'
  <2>1. PICK c \in Seq(Points) : Moved(t, "drain", c) /\ Len(c) = 1
    BY <1>3, DrainLemma
  <2>2. ~Holds("drain", c) /\ ~Converts("drain", c)
    BY <2>1 DEF Holds, Converts
  <2>3. QED
    BY <2>1, <2>2, SlotStep
<1>4. QED
  BY <1>2, <1>3

(* No step of a drain loses what is in the slot while it is needed.         *)
LEMMA DrainSlot ==
  ASSUME TypeOK, StackInv, SlotInv, NEW t \in Tasks, Draining(t)
  PROVE  SlotInv'
<1>1. CASE DrainBegin(t)
  <2>1. /\ Alone(t) /\ pc[t] = "drain" /\ ~draining /\ draining'
        /\ Goto(t, "take") /\ calls' = calls
    BY <1>1 DEF DrainBegin, Step, At, Alone
  <2>2. Len(calls[t]) = 1 /\ Moved(t, "take", calls[t])
    BY <2>1, InsideLemma DEF Inside
  <2>3. QED
    BY <2>1, <2>2, SlotStep DEF Holds, Converts
<1>2. CASE DrainRefused(t)
  <2>1. /\ Alone(t) /\ pc[t] = "drain" /\ draining /\ Return(t)
        /\ draining' = draining /\ slot' = slot /\ fifo' = fifo
    BY <1>2 DEF DrainRefused, At, Alone, drain, heap
  <2>2. /\ Len(calls[t]) = 2
        /\ \E c \in Seq(Points) : Moved(t, "reconvert", c)
    BY <2>1, RefusedLemma
  <2>3. /\ slot.inst \in Insts
        /\ slot.fifo => Len(fifo) < FifoDepth
    BY <2>2 DEF SlotInv, Holds, Converts
  <2>4. QED
    BY <2>1, <2>2, <2>3, SlotStep
<1>3. CASE StagingTake(t)
  <2>1. /\ Alone(t) /\ pc[t] = "take" /\ draining' = draining
        /\ Goto(t, "prune") /\ calls' = calls
    BY <1>3 DEF StagingTake, Step, At, Alone
  <2>2. draining
    BY <2>1 DEF StackInv, Shape, Outside, OffCpu
  <2>3. Len(calls[t]) = 1 /\ Moved(t, "prune", calls[t])
    BY <2>1, <2>2, InsideLemma DEF Inside
  <2>4. slot'.inst \in Insts
    BY <1>3, HeadTailProperties DEF StagingTake, TypeOK
  <2>5. QED
    BY <2>1, <2>3, <2>4, SlotStep DEF Converts
<1>4. CASE DrainEnd(t)
  <2>1. Alone(t) /\ pc[t] = "take" /\ Return(t) /\ ~draining'
    BY <1>4 DEF DrainEnd, At, Alone
  <2>2. PICK r \in Returns, c \in Seq(Points) : Moved(t, r, c) /\ Len(c) = 0
    BY <2>1, EndLemma
  <2>3. ~Holds(r, c) /\ ~Converts(r, c)
    BY <2>2 DEF Holds, Converts, Returns
  <2>4. QED
    BY <2>1, <2>2, <2>3, SlotStep
<1>5. CASE DrainPrune(t)
  <2>1. /\ Alone(t) /\ pc[t] = "prune" /\ draining' = draining
        /\ calls' = calls /\ fifo' = fifo
    BY <1>5 DEF DrainPrune, At, Alone
  <2>2. PICK p \in {"convert", "take"} : Goto(t, p)
    BY <1>5 DEF DrainPrune
  <2>3. draining
    BY <2>1 DEF StackInv, Shape, Outside, OffCpu
  <2>4. Moved(t, p, calls[t])
    BY <2>1, <2>2, <2>3, InsideLemma DEF Inside
  <2>5. slot.inst \in Insts
    BY <2>1 DEF SlotInv, Holds
  <2>6. slot'.inst = slot.inst /\ (slot'.fifo => Len(fifo) < FifoDepth)
    BY <1>5 DEF DrainPrune
  <2>7. QED
    BY <2>1, <2>4, <2>5, <2>6, SlotStep
<1>6. CASE ConvertFails(t) \/ Route(t)
  <2>1. /\ Alone(t) /\ pc[t] \in {"convert", "reconvert"}
        /\ draining' = draining /\ calls' = calls /\ Goto(t, "take")
    BY <1>6 DEF ConvertFails, Route, Converting, At, Alone, drain
  <2>2. draining
    BY <2>1 DEF StackInv, Shape, Outside, OffCpu
  <2>3. Len(calls[t]) = 1 /\ Moved(t, "take", calls[t])
    BY <2>1, <2>2, InsideLemma DEF Inside
  <2>4. QED
    BY <2>1, <2>3, SlotStep DEF Holds, Converts
<1>7. ASSUME NEW j \in Finalized, pc[t] = "convert",
             Finalizer(t, j, "reconvert")
      PROVE  SlotInv'
  <2>1. /\ Alone(t) /\ Drain(t, "reconvert") /\ draining' = draining
        /\ slot' = slot /\ fifo' = fifo
    BY <1>7 DEF Finalizer, At, Alone, drain
  <2>2. \E c \in Seq(Points) : Moved(t, "drain", c)
    BY <1>7, <2>1, NestLemma
  <2>3. /\ slot.inst \in Insts
        /\ slot.fifo => Len(fifo) < FifoDepth
    BY <1>7 DEF SlotInv, Holds, Converts
  <2>4. QED
    BY <2>1, <2>2, <2>3, SlotStep
<1>8. QED
  BY <1>1, <1>2, <1>3, <1>4, <1>5, <1>6, <1>7 DEF Draining

(* Nor does any other step.                                                 *)
LEMMA NextSlot ==
  ASSUME TypeOK, StackInv, SlotInv, [Next]_vars
  PROVE  SlotInv'
<1>1. CASE UNCHANGED <<pc, calls, slot, fifo>>
  BY <1>1 DEF SlotInv
<1>2. CASE Listening
  BY <1>1, <1>2, ListeningFrame
<1>3. CASE Starting
  <2>1. CASE Empty
    <3>1. /\ pc' = [t \in Tasks |-> "start"]
          /\ calls' = [t \in Tasks |-> <<>>]
      BY <2>1 DEF Empty, Abandon
    <3>2. QED
      BY <3>1 DEF SlotInv, Holds, Converts
  <2>2. QED
    BY <1>1, <1>3, <2>1, StartingFrame
<1>4. ASSUME NEW t \in Tasks, Awaiting(t) PROVE SlotInv'
  <2>1. Alone(t) /\ pc[t] \in Outside
    BY <1>4 DEF Awaiting, QueueAlloc, TableLoses, TableStore, QueueKept,
         QueueStore, Storing, QueueFlags, Finalizer, Prepared, TakeEvent,
         TakeTimeout, TakePark, Step, At, Alone, Outside
  <2>2. CASE \/ \E i \in Insts : QueueAlloc(t, i)
             \/ TableStore(t) \/ QueueKept(t) \/ QueueStore(t)
             \/ TakeEvent(t) \/ TakeTimeout(t) \/ TakePark(t)
    <3>1. \E p \in Outside : Goto(t, p) /\ calls' = calls
      BY <2>2 DEF QueueAlloc, TableStore, QueueKept, QueueStore, TakeEvent,
           TakeTimeout, TakePark, Step, Outside, OffCpu
    <3>2. QED
      BY <2>1, <3>1, SlotOutside
  <2>3. CASE \/ QueueFlags(t) \/ Prepared(t)
             \/ \E j \in Finalized : \/ Finalizer(t, j, "store")
                                     \/ Finalizer(t, j, "tabled")
    <3>1. \E p \in Returns : Drain(t, p) /\ draining' = draining
      BY <2>3, LoopLemma
         DEF QueueFlags, Prepared, Attach, Finalizer, Returns, drain
    <3>2. QED
      BY <2>1, <3>1, SlotOutside
  <2>4. CASE TableLoses(t)
    BY <1>1, <2>4 DEF TableLoses, drain, tasks
  <2>5. QED
    BY <1>4, <2>2, <2>3, <2>4 DEF Awaiting
<1>5. CASE Scheduling
  <2>1. ASSUME NEW t \in Scripts, Collect(t) PROVE SlotInv'
    BY <1>1, <2>1 DEF Collect, drain, tasks
  <2>2. ASSUME NEW t \in Scripts, Spawn(t) PROVE SlotInv'
    <3>1. /\ pc' = [pc EXCEPT ![t] = "start"] /\ pc[t] = "done"
          /\ calls' = calls /\ slot' = slot /\ fifo' = fifo
      BY <2>2 DEF Spawn, Goto, drain, heap
    <3>2. Len(calls[t]) = 0
      BY <2>2, <3>1, TasksLemma DEF StackInv, Shape, Inside
    <3>3. QED
      BY <3>1, <3>2 DEF SlotInv, Holds, Converts, TypeOK
  <2>3. ASSUME NEW t \in Tasks,
               \/ t = "dispatch" /\ (Dispatcher \/ WakeUp)
               \/ Begin(t) \/ Wake(t)
               \/ t \in Scripts /\ Script(t)
        PROVE  SlotInv'
    <3>1. Alone(t) /\ pc[t] \in Outside
      BY <2>3 DEF Dispatcher, Pop, PopFails, PopNothing, HandlersReturn,
           Sleep, WakeUp, Begin, BeginInternal, BeginScript, Wake, Script,
           Await, Finish, Step, At, Alone, Outside, OffCpu
    <3>2. \/ \E p \in Outside : Goto(t, p) /\ calls' = calls
          \/ \E p \in Returns : Drain(t, p) /\ draining' = draining
      BY <2>3, LoopLemma
         DEF Dispatcher, Pop, PopFails, PopNothing, HandlersReturn, Sleep,
           WakeUp, Begin, BeginInternal, Attach, BeginScript, Wake, Script,
           Await, Finish, Step, Outside, OffCpu, Returns, drain
    <3>3. QED
      BY <3>1, <3>2, SlotOutside
  <2>4. QED
    BY <1>5, <2>1, <2>2, <2>3, TasksLemma DEF Scheduling
<1>6. QED
  BY <1>1, <1>2, <1>3, <1>4, <1>5, Steps, DrainSlot
     DEF vars, heap, drain, tasks

-----------------------------------------------------------------------------
(* What the tasks ask for.                                                  *)

\* Every task but t keeps what it asks for, and the queues it has unless it
\* has finished.
OthersKeep(t) ==
  \A u \in Others(t) : /\ ask'[u] = ask[u]
                       /\ pc[u] # "done" => queues[u] \subseteq queues'[u]

(* A move keeps what is asked for if the one who moves does.                *)
LEMMA AskStep ==
  ASSUME TypeOK, StackInv, AskInv, NEW t \in Tasks, Alone(t), OthersKeep(t),
         NEW p, NEW c, Moved(t, p, c),
         Asking(t, p, c, ask'[t], queues'[t])
  PROVE  AskInv'
<1>1. ASSUME NEW u \in Tasks
      PROVE  Asking(u, pc'[u], calls'[u], ask'[u], queues'[u])
  <2>1. CASE u = t
    BY <2>1 DEF Moved, TypeOK
  <2>2. CASE u # t
    <3>1. /\ pc'[u] = pc[u] /\ calls'[u] = calls[u] /\ pc[u] \in OffCpu
          /\ ask'[u] = ask[u]
          /\ pc[u] # "done" => queues[u] \subseteq queues'[u]
      BY <2>2 DEF Moved, TypeOK, Alone, Others, OthersKeep
    <3>2. Len(calls[u]) = 0
      BY <3>1 DEF StackInv, Shape, OffCpu, Inside
    <3>3. Asking(u, pc[u], calls[u], ask[u], queues[u])
      BY DEF AskInv
    <3>4. QED
      BY <3>1, <3>2, <3>3 DEF Asking, OffCpu
  <2>3. QED
    BY <2>1, <2>2
<1>2. QED
  BY <1>1 DEF AskInv

(* A step that drains nothing, ...                                          *)
LEMMA AskOutside ==
  ASSUME TypeOK, StackInv, AskInv, NEW t \in Tasks, Alone(t),
         pc[t] \in Outside, OthersKeep(t),
         NEW p, Goto(t, p), calls' = calls,
         ask'[t].insts # {} =>
           t \in Scripts /\ p \notin {"start", "run", "done", "pop"},
         p \in {"table", "tabled", "alloc", "store", "flags"} =>
           ask'[t].making \in Insts,
         p \in {"park", "pick"} => ask'[t].insts \subseteq queues'[t]
  PROVE  AskInv'
<1>1. Len(calls[t]) = 0 /\ calls \in [Tasks -> Seq(Points)]
  BY OutsideLemma DEF TypeOK
<1>2. Moved(t, p, calls[t])
  BY <1>1 DEF Moved, Goto
<1>3. Asking(t, p, calls[t], ask'[t], queues'[t])
  BY <1>1 DEF Asking
<1>4. QED
  BY <1>2, <1>3, AskStep

(* ... the beginning of a drain, with what it returns to, ...               *)
LEMMA AskDrain ==
  ASSUME TypeOK, StackInv, AskInv, NEW t \in Tasks, Alone(t),
         pc[t] \in Outside, OthersKeep(t),
         NEW p \in Returns, Drain(t, p), draining' = draining,
         ask'[t].insts # {} => t \in Scripts,
         p \in {"store", "tabled"} => ask'[t].making \in Insts,
         p = "pop" => ask'[t].insts = {},
         p \in {"park", "pick"} => ask'[t].insts \subseteq queues'[t]
  PROVE  AskInv'
<1>1. PICK c \in Seq(Points) : Moved(t, "drain", c) /\ Len(c) = 1 /\ c[1] = p
  BY DrainLemma
<1>2. Asking(t, "drain", c, ask'[t], queues'[t])
  BY <1>1 DEF Asking, Goal
<1>3. QED
  BY <1>1, <1>2, AskStep

(* ... and what happens in it, which returns to the same.                   *)
LEMMA AskInside ==
  ASSUME TypeOK, StackInv, AskInv, NEW t \in Tasks, Alone(t), OthersKeep(t),
         ask'[t] = ask[t], queues[t] \subseteq queues'[t],
         NEW p, p \in Inside \/ p = "drain", NEW c, Moved(t, p, c),
         Len(calls[t]) > 0, Len(c) > 0, Goal(c) = Goal(calls[t])
  PROVE  AskInv'
<1>1. Asking(t, pc[t], calls[t], ask[t], queues[t])
  BY DEF AskInv
<1>2. Asking(t, p, c, ask'[t], queues'[t])
  BY <1>1 DEF Asking, Inside
<1>3. QED
  BY <1>2, AskStep

(* A drain returns to something that goes on with what is asked for.        *)
LEMMA DrainAsk ==
  ASSUME TypeOK, StackInv, AskInv, NEW t \in Tasks, Draining(t)
  PROVE  AskInv'
<1>1. Alone(t) /\ ask' = ask
  BY DEF Draining, DrainBegin, DrainRefused, StagingTake, DrainEnd,
       DrainPrune, ConvertFails, Route, Converting, Finalizer, Step, At, Alone
<1>2. OthersKeep(t) /\ queues[t] \subseteq queues'[t]
  <2>1. CASE queues' = queues
    BY <1>1, <2>1 DEF OthersKeep
  <2>2. CASE DrainPrune(t)
    <3>1. CASE "AWAITED" \notin flags[slot.inst]
      BY <2>1, <2>2, <3>1 DEF DrainPrune
    <3>2. CASE "AWAITED" \in flags[slot.inst]
      <4>1. pc[t] = "prune"
        BY <2>2 DEF DrainPrune, At
      <4>2. queues' = [u \in Tasks |-> queues[u] \ {j \in {slot.inst} :
              u \in {v \in Tasks : slot.inst \in queues[v] /\ TaskFinished(v)}}]
        BY <2>2, <3>2 DEF DrainPrune, Prune
      <4>3. \A u \in Tasks : pc[u] # "done" => queues'[u] = queues[u]
        BY <4>2 DEF TaskFinished
      <4>4. QED
        BY <1>1, <4>1, <4>3 DEF OthersKeep, Others
    <3>3. QED
      BY <3>1, <3>2
  <2>3. ASSUME NEW j \in Finalized, Finalizer(t, j, "reconvert")
        PROVE  OthersKeep(t) /\ queues[t] \subseteq queues'[t]
    BY <1>1, <2>3 DEF Finalizer, OthersKeep, Others, TypeOK
  <2>4. QED
    BY <2>1, <2>2, <2>3 DEF Draining, DrainBegin, DrainRefused, StagingTake,
         DrainEnd, ConvertFails, Route, heap
<1>3. ASSUME NEW p \in Inside, Goto(t, p), calls' = calls, draining',
             pc[t] \in Inside \/ (pc[t] = "drain" /\ ~draining)
      PROVE  AskInv'
  <2>1. Len(calls[t]) = 1 /\ Moved(t, p, calls[t])
    BY <1>3, InsideLemma
  <2>2. ask'[t] = ask[t] /\ Len(calls[t]) > 0
    BY <1>1, <2>1
  <2>3. QED
    BY <1>1, <1>2, <2>1, <2>2, AskInside
<1>4. CASE DrainBegin(t)
  BY <1>3, <1>4 DEF DrainBegin, Step, At, Inside
<1>5. CASE DrainRefused(t)
  <2>1. pc[t] = "drain" /\ draining /\ Return(t) /\ draining' = draining
    BY <1>5 DEF DrainRefused, At, drain
  <2>2. PICK c \in Seq(Points) :
          /\ Moved(t, "reconvert", c) /\ Len(c) = 1 /\ c[1] = calls[t][2]
          /\ Len(calls[t]) = 2
    BY <2>1, RefusedLemma
  <2>3. Goal(c) = Goal(calls[t])
    BY <2>2 DEF Goal
  <2>4. /\ ask'[t] = ask[t] /\ Len(calls[t]) > 0 /\ Len(c) > 0
        /\ "reconvert" \in Inside
    BY <1>1, <2>2 DEF Inside
  <2>5. QED
    BY <1>1, <1>2, <2>2, <2>3, <2>4, AskInside
<1>6. CASE StagingTake(t) \/ DrainPrune(t) \/ ConvertFails(t) \/ Route(t)
  <2>1. pc[t] \in Inside /\ calls' = calls /\ draining' = draining
    BY <1>6 DEF StagingTake, DrainPrune, ConvertFails, Route, Converting,
         Step, At, Inside, drain
  <2>2. draining
    BY <2>1 DEF StackInv, Shape, Inside, Outside, OffCpu
  <2>3. \E p \in Inside : Goto(t, p)
    BY <1>6 DEF StagingTake, DrainPrune, ConvertFails, Route, Step, Inside
  <2>4. QED
    BY <1>3, <2>1, <2>2, <2>3
<1>7. CASE DrainEnd(t)
  <2>1. pc[t] = "take" /\ Return(t) /\ ~draining'
    BY <1>7 DEF DrainEnd, At
  <2>2. PICK c \in Seq(Points) :
          /\ Moved(t, calls[t][1], c) /\ Len(c) = 0
          /\ Len(calls[t]) = 1 /\ calls[t][1] \in Returns
    BY <2>1, EndLemma
  <2>3. Asking(t, pc[t], calls[t], ask[t], queues[t])
    BY DEF AskInv
  <2>4. Asking(t, calls[t][1], c, ask'[t], queues'[t])
    BY <1>1, <1>2, <2>2, <2>3 DEF Asking, Goal, Returns
  <2>5. QED
    BY <1>1, <1>2, <2>2, <2>4, AskStep
<1>8. ASSUME NEW j \in Finalized, pc[t] = "convert",
             Finalizer(t, j, "reconvert")
      PROVE  AskInv'
  <2>1. Drain(t, "reconvert") /\ draining' = draining
    BY <1>8 DEF Finalizer, drain
  <2>2. PICK c \in Seq(Points) :
          /\ Moved(t, "drain", c) /\ Len(c) = 2 /\ c[2] = calls[t][1]
          /\ Len(calls[t]) = 1
    BY <1>8, <2>1, NestLemma
  <2>3. Goal(c) = Goal(calls[t])
    BY <2>2 DEF Goal
  <2>4. ask'[t] = ask[t] /\ Len(calls[t]) > 0 /\ Len(c) > 0
    BY <1>1, <2>2
  <2>5. QED
    BY <1>1, <1>2, <2>2, <2>3, <2>4, AskInside
<1>9. QED
  BY <1>4, <1>5, <1>6, <1>7, <1>8 DEF Draining

(* An await asks for what it has queues for when it looks at them.          *)
LEMMA AwaitAsk ==
  ASSUME TypeOK, StackInv, AskInv, NEW t \in Tasks, Awaiting(t)
  PROVE  AskInv'
<1>1. Alone(t) /\ pc[t] \in Outside /\ draining' = draining
  BY DEF Awaiting, QueueAlloc, TableLoses, TableStore, QueueKept, QueueStore,
       Storing, QueueFlags, Finalizer, Prepared, Attach, TakeEvent, TakeTimeout, TakePark, Step,
       At, Alone, Outside, drain
<1>2. \A u \in Others(t) : ask'[u] = ask[u]
  BY DEF Awaiting, QueueAlloc, TableLoses, TableStore, QueueKept, QueueStore,
       QueueFlags, Made, Finalizer, Prepared, Attach, TakeEvent, TakeTimeout,
       TakePark, SetAsk, Others, TypeOK, tasks
<1>3. \A u \in Others(t) : queues'[u] = queues[u]
  <2>1. CASE \E q : queues' = [queues EXCEPT ![t] = q]
    BY <2>1 DEF TypeOK, Others
  <2>2. CASE UNCHANGED queues
    BY <2>2
  <2>3. QED
    BY <2>1, <2>2
       DEF Awaiting, QueueAlloc, TableLoses, TableStore, QueueKept, QueueStore,
         QueueFlags, Finalizer, Prepared, Attach, TakeEvent, TakeTimeout,
         TakePark, heap
<1>4. OthersKeep(t)
  BY <1>3, <1>2 DEF OthersKeep
<1>5. /\ ask \in [Tasks -> [insts: SUBSET Insts, making: Insts \cup {NULL},
                            timed: BOOLEAN]]
      /\ Asking(t, pc[t], calls[t], ask[t], queues[t])
      /\ pc[t] # "start" /\ pc[t] # "run" /\ Len(calls[t]) = 0
  BY <1>1, OutsideLemma
     DEF AskInv, TypeOK, Awaiting, QueueAlloc, TableLoses, TableStore,
       QueueKept, QueueStore, Storing, QueueFlags, Finalizer, Prepared, TakeEvent, TakeTimeout,
       TakePark, Step, At
<1>6. ASSUME NEW i \in Insts, QueueAlloc(t, i) PROVE AskInv'
  <2>0. PICK p \in {"alloc", "table"} : Goto(t, p)
    BY <1>6 DEF QueueAlloc
  <2>1. /\ calls' = calls /\ pc[t] = "prepare"
        /\ ask'[t].insts = ask[t].insts /\ ask'[t].making = i
    BY <1>5, <1>6 DEF QueueAlloc, Step, At, SetAsk
  <2>2. ask[t].insts # {} => t \in Scripts
    BY <1>5 DEF Asking
  <2>3. QED
    BY <1>1, <1>4, <2>0, <2>1, <2>2, AskOutside
<1>7. CASE QueueKept(t)
  <2>1. /\ Goto(t, "prepare") /\ calls' = calls
        /\ ask'[t].insts = ask[t].insts
    BY <1>5, <1>7 DEF QueueKept, Made, SetAsk
  <2>2. ask[t].insts # {} => t \in Scripts
    BY <1>5 DEF Asking
  <2>3. QED
    BY <1>1, <1>4, <2>1, <2>2, AskOutside
<1>8. CASE QueueStore(t)
  <2>1. /\ Goto(t, "flags") /\ calls' = calls /\ ask' = ask
        /\ pc[t] \in {"alloc", "store"}
    BY <1>8 DEF QueueStore, Storing, At
  <2>2. ask[t].making \in Insts /\ (ask[t].insts # {} => t \in Scripts)
    BY <1>5, <2>1 DEF Asking
  <2>3. QED
    BY <1>1, <1>4, <2>1, <2>2, AskOutside
<1>9. CASE QueueFlags(t)
  <2>1. Drain(t, "prepare") /\ ask'[t].insts = ask[t].insts
    BY <1>5, <1>9 DEF QueueFlags, Made, SetAsk
  <2>2. ask[t].insts # {} => t \in Scripts
    BY <1>5 DEF Asking
  <2>3. "prepare" \in Returns
    BY DEF Returns
  <2>4. QED
    BY <1>1, <1>4, <2>1, <2>2, <2>3, AskDrain
<1>10. ASSUME NEW j \in Finalized, NEW p \in {"store", "tabled"},
              pc[t] \in {"alloc", "table"}, Finalizer(t, j, p)
       PROVE  AskInv'
  <2>1. Drain(t, p) /\ ask' = ask /\ t \in Scripts
    BY <1>10 DEF Finalizer
  <2>2. ask[t].making \in Insts
    BY <1>5, <1>10 DEF Asking
  <2>3. p \in Returns /\ p \notin {"pop", "park", "pick"}
    BY <1>10 DEF Returns
  <2>4. QED
    BY <1>1, <1>4, <2>1, <2>2, <2>3, AskDrain
<1>11. CASE Prepared(t)
  <2>1. /\ Drain(t, Loop(t)) /\ ask' = ask /\ queues' = queues
        /\ ask[t].insts \subseteq queues[t]
    BY <1>11 DEF Prepared, Attach, Lacking, heap
  <2>2. ask[t].insts # {} => t \in Scripts
    BY <1>5 DEF Asking
  <2>3. /\ Loop(t) \in Returns /\ Loop(t) \notin {"store", "tabled"}
        /\ Loop(t) = "pop" => ask[t].insts = {}
    BY LoopLemma DEF Returns
  <2>4. QED
    BY <1>1, <1>4, <2>1, <2>2, <2>3, AskDrain
<1>12. CASE TakeEvent(t) \/ TakeTimeout(t)
  <2>1. /\ Goto(t, "run") /\ calls' = calls /\ ask'[t].insts = {}
    BY <1>5, <1>12 DEF TakeEvent, TakeTimeout, Step, SetAsk, NoAsk
  <2>2. QED
    BY <1>1, <1>4, <2>1, AskOutside
<1>13. CASE TakePark(t)
  <2>1. /\ Goto(t, "park") /\ calls' = calls /\ ask' = ask
        /\ queues' = queues /\ pc[t] = "pick"
    BY <1>13 DEF TakePark, Step, At, heap
  <2>2. /\ ask[t].insts # {} => t \in Scripts
        /\ ask[t].insts \subseteq queues[t]
    BY <1>5, <2>1 DEF Asking
  <2>3. QED
    BY <1>1, <1>4, <2>1, <2>2, AskOutside
<1>14. CASE TableLoses(t)
  BY <1>14 DEF TableLoses, AskInv, tasks
<1>15. CASE TableStore(t)
  <2>1. /\ Goto(t, "alloc") /\ calls' = calls /\ ask' = ask
        /\ pc[t] \in {"table", "tabled"}
    BY <1>15 DEF TableStore, At
  <2>2. ask[t].making \in Insts /\ (ask[t].insts # {} => t \in Scripts)
    BY <1>5, <2>1 DEF Asking
  <2>3. QED
    BY <1>1, <1>4, <2>1, <2>2, AskOutside
<1>16. QED
  BY <1>6, <1>7, <1>8, <1>9, <1>10, <1>11, <1>12, <1>13, <1>14, <1>15
     DEF Awaiting

(* So it does whatever the scheduler runs.                                  *)
LEMMA SchedulingAsk ==
  ASSUME TypeOK, StackInv, AskInv, Scheduling
  PROVE  AskInv'
<1> USE TasksLemma
<1>1. /\ ask \in [Tasks -> [insts: SUBSET Insts, making: Insts \cup {NULL},
                            timed: BOOLEAN]]
      /\ "pump" \notin Scripts /\ "dispatch" \notin Scripts
      /\ \A t \in Tasks : Asking(t, pc[t], calls[t], ask[t], queues[t])
  BY NameAssumption DEF TypeOK, AskInv
<1>2. ask["dispatch"].insts = {} /\ ask["pump"].insts = {}
  BY <1>1 DEF Asking
<1>3. ASSUME NEW t \in Tasks, ask' = ask, queues' = queues PROVE OthersKeep(t)
  BY <1>3 DEF OthersKeep
<1>4. CASE Pop \/ PopNothing \/ Sleep \/ WakeUp
  <2>1. /\ Alone("dispatch") /\ pc["dispatch"] \in Outside
        /\ ask' = ask /\ queues' = queues /\ calls' = calls
    BY <1>4 DEF Pop, PopNothing, Sleep, WakeUp, Step, At, Alone, Outside,
         OffCpu, heap
  <2>2. \E p \in {"run", "park", "sleep"} : Goto("dispatch", p)
    BY <1>4 DEF Pop, PopNothing, Sleep, WakeUp, Step
  <2>3. QED
    BY <1>2, <1>3, <2>1, <2>2, AskOutside
<1>5. CASE PopFails \/ HandlersReturn
  <2>1. /\ Alone("dispatch") /\ pc["dispatch"] \in Outside
        /\ ask' = ask /\ queues' = queues /\ draining' = draining
        /\ Drain("dispatch", "pop") /\ "pop" \in Returns
    BY <1>5 DEF PopFails, HandlersReturn, At, Alone, Outside, Returns, drain,
         heap
  <2>2. QED
    BY <1>2, <1>3, <2>1, AskDrain
<1>6. ASSUME NEW t \in Tasks, BeginInternal(t) \/ Wake(t) PROVE AskInv'
  <2>1. /\ Alone(t) /\ pc[t] \in {"start", "park"} /\ pc[t] \in Outside
        /\ ask' = ask /\ queues' = queues /\ draining' = draining
        /\ Drain(t, Loop(t))
    BY <1>6 DEF BeginInternal, Wake, Attach, At, Alone, Outside, OffCpu,
         drain, heap
  <2>2. /\ ask[t].insts # {} => t \in Scripts
        /\ ask[t].insts \subseteq queues[t]
    BY <1>1, <2>1 DEF Asking
  <2>3. /\ Loop(t) \in Returns /\ Loop(t) \notin {"store", "tabled"}
        /\ Loop(t) = "pop" => ask[t].insts = {}
    BY LoopLemma DEF Returns
  <2>4. QED
    BY <1>3, <2>1, <2>2, <2>3, AskDrain
<1>7. ASSUME NEW t \in Tasks, BeginScript(t) \/ (t \in Scripts /\ Finish(t))
      PROVE  AskInv'
  <2>1. /\ Alone(t) /\ pc[t] \in {"start", "run"} /\ pc[t] \in Outside
        /\ ask' = ask /\ queues' = queues /\ calls' = calls
        /\ \E p \in {"run", "done"} : Goto(t, p)
    BY <1>7 DEF BeginScript, Finish, Step, At, Alone, Outside, OffCpu, heap
  <2>2. ask[t].insts = {}
    BY <1>1, <2>1 DEF Asking
  <2>3. QED
    BY <1>3, <2>1, <2>2, AskOutside
<1>8. ASSUME NEW t \in Scripts, NEW S \in SUBSET Insts, NEW timed \in Timed,
             Await(t, S, timed)
      PROVE  AskInv'
  <2>1. /\ Alone(t) /\ pc[t] \in Outside /\ Goto(t, "prepare")
        /\ calls' = calls /\ queues' = queues
    BY <1>8 DEF Await, Step, At, Alone, Outside, heap
  <2>2. OthersKeep(t)
    BY <1>8, <1>1, <2>1 DEF Await, SetAsk, OthersKeep, Others
  <2>3. QED
    BY <2>1, <2>2, AskOutside
<1>9. ASSUME NEW t \in Scripts, Collect(t) PROVE AskInv'
  <2>1. /\ UNCHANGED <<pc, calls, ask>> /\ pc[t] = "done"
        /\ \A u \in Tasks : queues'[u] = IF u = t THEN {} ELSE queues[u]
    BY <1>9 DEF Collect, tasks, TypeOK
  <2>2. Len(calls[t]) = 0
    BY <2>1 DEF StackInv, Shape, Inside
  <2>3. QED
    BY <1>1, <2>1, <2>2 DEF AskInv, Asking
<1>10. ASSUME NEW t \in Scripts, Spawn(t) PROVE AskInv'
  <2>1. /\ UNCHANGED <<calls, ask, queues>> /\ pc[t] = "done"
        /\ \A u \in Tasks : pc'[u] = IF u = t THEN "start" ELSE pc[u]
    BY <1>10 DEF Spawn, Goto, heap, TypeOK
  <2>2. Len(calls[t]) = 0
    BY <2>1 DEF StackInv, Shape, Inside
  <2>3. QED
    BY <1>1, <2>1, <2>2 DEF AskInv, Asking
<1>11. QED
  BY <1>4, <1>5, <1>6, <1>7, <1>8, <1>9, <1>10
     DEF Scheduling, Dispatcher, Begin, Script

(* Every step keeps it.                                                     *)
LEMMA NextAsk ==
  ASSUME TypeOK, StackInv, AskInv, [Next]_vars
  PROVE  AskInv'
<1>1. CASE UNCHANGED <<pc, calls, ask, queues>>
  BY <1>1 DEF AskInv
<1>2. CASE Empty
  <2>1. \A t \in Tasks : /\ pc'[t] = "start" /\ calls'[t] = <<>>
                         /\ ask'[t].insts = {}
    BY <1>2 DEF Empty, Abandon, NoAsk
  <2>2. QED
    BY <2>1 DEF AskInv, Asking
<1>3. CASE UNCHANGED vars
  BY <1>1, <1>3 DEF vars, heap, tasks
<1>4. CASE Listening \/ Starting
  BY <1>1, <1>2, <1>4, ListeningFrame, StartingFrame
<1>5. QED
  BY <1>3, <1>4, Steps, DrainAsk, AwaitAsk, SchedulingAsk

-----------------------------------------------------------------------------
(* The flags.                                                               *)

(* A task step keeps the flags in order if it takes no flag away, and if    *)
(* the one who moves has them set for the queues that it has then.          *)
LEMMA FlagsGrow ==
  ASSUME TypeOK, FlagsInv, NEW t \in Tasks, phase = "run",
         UNCHANGED <<phase, todo, policies, sealed>>,
         \A i \in Insts : flags[i] \subseteq flags'[i],
         \A u \in Others(t) : /\ pc'[u] = pc[u] /\ ask'[u] = ask[u]
                              /\ queues'[u] = queues[u],
         Covered(flags', pc'[t], ask'[t], queues'[t])
  PROVE  FlagsInv'
<1>1. ASSUME NEW u \in Tasks
      PROVE  Covered(flags', pc'[u], ask'[u], queues'[u])
  <2>1. CASE u = t
    BY <2>1
  <2>2. CASE u # t
    <3>1. /\ pc'[u] = pc[u] /\ ask'[u] = ask[u] /\ queues'[u] = queues[u]
          /\ queues[u] \subseteq Insts
      BY <2>2 DEF Others, TypeOK
    <3>2. Covered(flags, pc[u], ask[u], queues[u])
      BY DEF FlagsInv, Ended
    <3>3. QED
      BY <3>1, <3>2 DEF Covered
  <2>3. QED
    BY <2>1, <2>2
<1>2. \A i \in policies : {"CONNECTED", "POLICY"} \subseteq flags'[i]
  BY DEF FlagsInv, TypeOK
<1>3. QED
  BY <1>1, <1>2 DEF FlagsInv, Ended

(* A step that changes no queue and no flag, but for a task that finished.  *)
LEMMA FlagsKeep ==
  ASSUME TypeOK, FlagsInv, NEW t \in Tasks, phase = "run",
         UNCHANGED <<phase, todo, policies, sealed, flags, queues>>,
         \A u \in Others(t) : pc'[u] = pc[u] /\ ask'[u] = ask[u],
         pc[t] \notin {"done", "flags"} \/ queues[t] = {}
  PROVE  FlagsInv'
<1>1. Covered(flags, pc[t], ask[t], queues[t])
  BY DEF FlagsInv, Ended
<1>2. Covered(flags', pc'[t], ask'[t], queues'[t])
  BY <1>1 DEF Covered
<1>3. QED
  BY <1>2, FlagsGrow

(* A finalizer sets the flags of what it makes a queue for.                 *)
LEMMA FinalizerFlags ==
  ASSUME TypeOK, FlagsInv, NEW t \in Tasks, NEW j \in Finalized, NEW p,
         Finalizer(t, j, p), pc[t] \in {"convert", "table", "alloc"},
         UNCHANGED <<phase, todo, policies, sealed>>, phase = "run"
  PROVE  FlagsInv'
<1>1. /\ j \in Insts /\ queues[t] \subseteq Insts
      /\ queues'[t] = queues[t] \cup {j}
      /\ \A u \in Others(t) : /\ pc'[u] = pc[u] /\ ask'[u] = ask[u]
                              /\ queues'[u] = queues[u]
  BY NameAssumption DEF Finalizer, Drain, Goto, Others, TypeOK
<1>2. /\ \A i \in Insts : flags[i] \subseteq flags'[i]
      /\ j \notin queues[t] => {"CONNECTED", "AWAITED"} \subseteq flags'[j]
  BY <1>1 DEF Finalizer, TypeOK
<1>3. Covered(flags, pc[t], ask[t], queues[t])
  BY DEF FlagsInv, Ended
<1>4. Covered(flags', pc'[t], ask'[t], queues'[t])
  BY <1>1, <1>2, <1>3 DEF Covered
<1>5. QED
  BY <1>1, <1>2, <1>4, FlagsGrow

(* What zlet_lua_await_prune takes away nobody listens to.                  *)
LEMMA PruneFlags ==
  ASSUME TypeOK, FlagsInv, SlotInv, NEW t \in Tasks, DrainPrune(t),
         UNCHANGED <<phase, todo, policies, sealed>>, phase = "run"
  PROVE  FlagsInv'
<1> DEFINE i == slot.inst
           live == \E u \in Tasks : i \in queues[u] /\ ~TaskFinished(u)
           gone == {u \in Tasks : i \in queues[u] /\ TaskFinished(u)}
<1>1. /\ i \in Insts /\ pc[t] = "prune" /\ ask' = ask
      /\ \A u \in Others(t) : pc'[u] = pc[u]
      /\ pc'[t] \notin {"done", "flags"}
  BY DEF DrainPrune, At, SlotInv, Holds, Goto, Others, TypeOK
<1>2. CASE "AWAITED" \notin flags[i]
  <2>1. UNCHANGED <<flags, queues>>
    BY <1>2 DEF DrainPrune
  <2>2. QED
    BY <1>1, <2>1, FlagsKeep
<1>3. CASE "AWAITED" \in flags[i]
  <2>1. Prune(i, live)
    BY <1>3 DEF DrainPrune
  <2>2. /\ \A u \in Tasks : queues'[u] \subseteq queues[u]
        /\ \A j \in Insts \ {i} : flags'[j] = flags[j]
        /\ live => flags'[i] = flags[i]
        /\ "POLICY" \in flags[i] =>
             flags[i] \ {"AWAITED"} \subseteq flags'[i]
    BY <1>1, <2>1 DEF Prune, TypeOK
  <2>3. ASSUME NEW j \in policies
        PROVE  {"CONNECTED", "POLICY"} \subseteq flags'[j]
    <3>1. j \in Insts /\ {"CONNECTED", "POLICY"} \subseteq flags[j]
      BY DEF FlagsInv, TypeOK
    <3>2. QED
      BY <2>2, <3>1
  <2>4. ASSUME NEW u \in Tasks
        PROVE  Covered(flags', pc'[u], ask'[u], queues'[u])
    <3>1. Covered(flags, pc[u], ask[u], queues[u]) /\ queues[u] \subseteq Insts
      BY DEF FlagsInv, TypeOK, Ended
    <3>2. pc[u] # "done" /\ i \in queues[u] => flags'[i] = flags[i]
      BY <2>2 DEF TaskFinished
    <3>3. /\ pc'[u] # "done" => pc[u] # "done"
          /\ pc[u] = "flags" => pc'[u] = "flags"
      BY <1>1 DEF Others
    <3>4. QED
      BY <1>1, <2>2, <3>1, <3>2, <3>3 DEF Covered
  <2>5. QED
    BY <2>3, <2>4 DEF FlagsInv, Ended
<1>4. QED
  BY <1>2, <1>3

(* The steps of one task keep the flags, ...                                *)
LEMMA TaskFlags ==
  ASSUME TypeOK, StackInv, SlotInv, AskInv, FlagsInv, NEW t \in Tasks,
         Draining(t) \/ Awaiting(t)
  PROVE  FlagsInv'
<1>0. /\ phase = "run" /\ UNCHANGED <<phase, todo, policies, sealed>>
      /\ Len(calls[t]) = 1 => calls[t] \in Seq(Points)
  BY TaskFrame DEF TypeOK
<1>1. ASSUME NEW p, Moved(t, p, calls'[t]) \/ Goto(t, p)
      PROVE  \A u \in Others(t) : pc'[u] = pc[u]
  BY <1>1 DEF Moved, Goto, Others, TypeOK
<1>2. CASE DrainBegin(t) \/ DrainRefused(t) \/ StagingTake(t) \/ DrainEnd(t)
             \/ ConvertFails(t) \/ Route(t)
  <2>1. /\ UNCHANGED <<flags, queues, ask>> /\ pc[t] \notin {"done", "flags"}
        /\ \E p : Goto(t, p)
    BY <1>2 DEF DrainBegin, DrainRefused, StagingTake, DrainEnd, ConvertFails,
         Route, Converting, Return, Step, At, shared, heap
  <2>2. QED
    BY <1>0, <1>1, <2>1, FlagsKeep
<1>3. CASE DrainPrune(t)
  BY <1>0, <1>3, PruneFlags
<1>4. ASSUME NEW j \in Finalized, NEW p,
             pc[t] \in {"convert", "table", "alloc"}, Finalizer(t, j, p)
      PROVE  FlagsInv'
  BY <1>0, <1>4, FinalizerFlags
<1>5. CASE \/ \E i \in Insts : QueueAlloc(t, i)
           \/ TableLoses(t) \/ QueueKept(t) \/ Prepared(t)
           \/ TakeEvent(t) \/ TakeTimeout(t) \/ TakePark(t)
  <2>1. /\ UNCHANGED <<flags, queues>> /\ pc[t] \notin {"done", "flags"}
        /\ (\E p : Goto(t, p)) \/ pc' = pc
    BY <1>5 DEF QueueAlloc, TableLoses, QueueKept, Storing, Prepared, Attach,
         Drain, TakeEvent, TakeTimeout, TakePark, Step, At, shared, heap, tasks
  <2>2. \A u \in Others(t) : ask'[u] = ask[u]
    BY <1>5 DEF QueueAlloc, TableLoses, QueueKept, Made, Prepared, Attach,
         TakeEvent, TakeTimeout, TakePark, SetAsk, Others, TypeOK, tasks
  <2>3. \A u \in Others(t) : pc'[u] = pc[u]
    BY <1>1, <2>1
  <2>4. QED
    BY <1>0, <2>1, <2>2, <2>3, FlagsKeep
<1>6. CASE QueueStore(t)
  <2>1. /\ pc[t] \in {"alloc", "store"} /\ ask' = ask /\ flags' = flags
        /\ Goto(t, "flags") /\ pc'[t] = "flags"
    BY <1>6 DEF QueueStore, Storing, At, Goto, TypeOK, shared
  <2>2. /\ queues'[t] = queues[t] \cup {ask[t].making}
        /\ \A u \in Others(t) : queues'[u] = queues[u]
    BY <1>6 DEF QueueStore, Others, TypeOK
  <2>3. Covered(flags, pc[t], ask[t], queues[t])
    BY <1>0 DEF FlagsInv, Ended
  <2>4. Covered(flags', pc'[t], ask'[t], queues'[t])
    BY <2>1, <2>2, <2>3 DEF Covered
  <2>5. \A u \in Others(t) : pc'[u] = pc[u]
    BY <1>1, <2>1
  <2>6. QED
    BY <1>0, <2>1, <2>2, <2>4, <2>5, FlagsGrow
<1>7. CASE QueueFlags(t)
  <2> DEFINE i == ask[t].making
  <2>1. /\ pc[t] = "flags" /\ queues' = queues /\ Goto(t, "drain")
        /\ \A u \in Others(t) : ask'[u] = ask[u]
    BY <1>7 DEF QueueFlags, At, Made, SetAsk, Drain, Others, TypeOK, heap
  <2>2. i \in Insts
    BY <2>1 DEF AskInv, Asking
  <2>3. /\ \A j \in Insts : flags[j] \subseteq flags'[j]
        /\ {"CONNECTED", "AWAITED"} \subseteq flags'[i]
    BY <1>7, <2>2 DEF QueueFlags, TypeOK
  <2>4. Covered(flags, pc[t], ask[t], queues[t]) /\ queues[t] \subseteq Insts
    BY <1>0 DEF FlagsInv, TypeOK, Ended
  <2>5. Covered(flags', pc'[t], ask'[t], queues'[t])
    BY <2>1, <2>3, <2>4 DEF Covered
  <2>6. \A u \in Others(t) : pc'[u] = pc[u]
    BY <1>1, <2>1
  <2>7. QED
    BY <1>0, <2>1, <2>3, <2>5, <2>6, FlagsGrow
<1>8. CASE TableStore(t)
  <2>1. /\ pc[t] # "flags" /\ pc[t] # "done" /\ ask' = ask /\ flags' = flags
        /\ Goto(t, "alloc")
    BY <1>8 DEF TableStore, At, shared
  <2>2. /\ queues'[t] \subseteq queues[t]
        /\ \A u \in Others(t) : queues'[u] = queues[u]
    BY <1>8 DEF TableStore, Others, TypeOK
  <2>3. Covered(flags, pc[t], ask[t], queues[t])
    BY <1>0 DEF FlagsInv, Ended
  <2>4. Covered(flags', pc'[t], ask'[t], queues'[t])
    BY <2>1, <2>2, <2>3 DEF Covered
  <2>5. \A u \in Others(t) : pc'[u] = pc[u]
    BY <1>1, <2>1
  <2>6. QED
    BY <1>0, <2>1, <2>2, <2>4, <2>5, FlagsGrow
<1>9. QED
  BY <1>2, <1>3, <1>4, <1>5, <1>6, <1>7, <1>8 DEF Draining, Awaiting

(* ... those that the scheduler runs, ...                                   *)
LEMMA SchedulingFlags ==
  ASSUME TypeOK, FlagsInv, Scheduling
  PROVE  FlagsInv'
<1> USE TasksLemma
<1>0. /\ phase = "run" /\ UNCHANGED <<phase, todo, policies, sealed>>
  BY TaskFrame
<1>1. ASSUME NEW t \in Tasks,
             \/ t = "dispatch" /\ (Dispatcher \/ WakeUp)
             \/ Begin(t) \/ Wake(t)
             \/ t \in Scripts /\ Script(t)
      PROVE  FlagsInv'
  <2>1. /\ UNCHANGED <<flags, queues>> /\ pc[t] \notin {"done", "flags"}
        /\ \E p : Goto(t, p)
    BY <1>1 DEF Dispatcher, Pop, PopFails, PopNothing, HandlersReturn, Sleep,
         WakeUp, Begin, BeginInternal, BeginScript, Attach, Wake, Script,
         Await, Finish, Drain, Step, At, shared, heap
  <2>2. \A u \in Others(t) : ask'[u] = ask[u]
    BY <1>1 DEF Dispatcher, Pop, PopFails, PopNothing, HandlersReturn, Sleep,
         WakeUp, Begin, BeginInternal, BeginScript, Attach, Wake, Script,
         Await, Finish, SetAsk, Others, TypeOK
  <2>3. \A u \in Others(t) : pc'[u] = pc[u]
    BY <2>1 DEF Goto, Others, TypeOK
  <2>4. QED
    BY <1>0, <2>1, <2>2, <2>3, FlagsKeep
<1>2. ASSUME NEW t \in Scripts, Collect(t) PROVE FlagsInv'
  <2>1. /\ UNCHANGED <<flags, pc, ask>> /\ pc[t] = "done"
        /\ \A u \in Others(t) : queues'[u] = queues[u]
    BY <1>2 DEF Collect, Others, TypeOK, shared, tasks
  <2>2. Covered(flags', pc'[t], ask'[t], queues'[t])
    BY <2>1 DEF Covered
  <2>3. QED
    BY <1>0, <2>1, <2>2, FlagsGrow
<1>3. ASSUME NEW t \in Scripts, Spawn(t) PROVE FlagsInv'
  <2>1. /\ UNCHANGED <<flags, queues, ask>> /\ queues[t] = {}
        /\ \A u \in Others(t) : pc'[u] = pc[u]
    BY <1>3 DEF Spawn, Goto, Others, TypeOK, shared, heap
  <2>2. QED
    BY <1>0, <2>1, FlagsKeep
<1>4. QED
  BY <1>1, <1>2, <1>3 DEF Scheduling

(* ... and the start and the stop.                                          *)
LEMMA NextFlags ==
  ASSUME TypeOK, StackInv, SlotInv, AskInv, FlagsInv, [Next]_vars
  PROVE  FlagsInv'
<1>1. CASE /\ UNCHANGED <<phase, todo, policies, reopened, sealed, flags>>
           /\ UNCHANGED <<pc, ask, queues>>
  BY <1>1 DEF FlagsInv
<1>2. CASE Listening
  BY <1>1, <1>2, ListeningFrame
<1>3. CASE Starting
  <2>1. CASE Empty
    BY <2>1 DEF Empty, Phase, FlagsInv, Ended
  <2>2. CASE ~Empty
    <3>1. UNCHANGED <<pc, ask, queues>>
      BY <1>3, <2>2, StartingFrame
    <3>2. ASSUME NEW i \in Insts, AddPolicy(i) PROVE FlagsInv'
      BY <3>1, <3>2 DEF AddPolicy, FlagsInv, Ended
    <3>3. CASE SealFlags
      <4>1. /\ \A i \in Insts : flags[i] \subseteq flags'[i]
            /\ \A i \in policies : {"CONNECTED", "POLICY"} \subseteq flags'[i]
        BY <3>3 DEF SealFlags, TypeOK
      <4>2. \A t \in Tasks : Covered(flags, pc[t], ask[t], queues[t])
        BY <3>3 DEF SealFlags, Phase, FlagsInv, Ended
      <4>3. \A t \in Tasks : queues[t] \subseteq Insts
        BY DEF TypeOK
      <4>4. \A t \in Tasks : Covered(flags', pc[t], ask[t], queues[t])
        BY <4>1, <4>2, <4>3 DEF Covered
      <4>5. QED
        BY <3>1, <3>3, <4>1, <4>4 DEF SealFlags, Phase, FlagsInv, Ended
    <3>4. CASE Seal \/ Folded
      BY <3>1, <3>4 DEF Seal, Folded, Phase, FlagsInv, Ended
    <3>5. ASSUME NEW i \in Insts, Fold(i) PROVE FlagsInv'
      BY <3>1, <3>5 DEF Fold, FlagsInv, Ended
    <3>6. CASE Fail
      BY <3>6 DEF Fail, FlagsInv, Ended
    <3>7. ASSUME NEW i \in Insts, Clear(i) PROVE FlagsInv'
      BY <3>7 DEF Clear, FlagsInv, TypeOK, Ended
    <3>8. ASSUME NEW j \in Finalized, CloseAwait(j) PROVE FlagsInv'
      BY <3>8 DEF CloseAwait, Phase, FlagsInv, TypeOK, Ended
    <3>9. CASE CloseDrain \/ CloseTake \/ CloseDrained \/ Closed
      BY <3>9 DEF CloseDrain, CloseTake, CloseDrained, Closed, Phase, shared,
                  start, FlagsInv, Ended
    <3>10. QED
      BY <1>3, <2>2, <3>2, <3>3, <3>4, <3>5, <3>6, <3>7, <3>8, <3>9
         DEF Starting, Coordinate, Closing
  <2>3. QED
    BY <2>1, <2>2
<1>4. QED
  BY <1>1, <1>2, <1>3, Steps, TaskFlags, SchedulingFlags
     DEF vars, shared, start, heap, tasks

-----------------------------------------------------------------------------
(* The frontend after its shutdown.                                         *)

(* Once the flags are gone and staging is empty, only the event that was    *)
(* past the filter can still be staged, and of the others only those that a *)
(* finalizer has awaited.                                                   *)
LEMMA ListeningQuiet ==
  ASSUME TypeOK, FlagsInv, StagerInv, QuietInv, Listening, phase \in Ended
  PROVE  QuietInv'
<1>1. /\ UNCHANGED <<phase, sealed, flags, reopened>> /\ sealed
      /\ staging \in Seq(Insts)
  BY ListeningFrame DEF FlagsInv, Ended, TypeOK
<1>2. ASSUME NEW i \in Insts \ reopened
      PROVE  /\ Count(staging', i) + Past(i)' <= 1
             /\ Past(i)' = 1 => staging' = <<>>
  <2>1. /\ flags[i] = {} /\ Count(staging, i) \in Nat
        /\ Count(staging, i) + Past(i) <= 1
        /\ Past(i) = 1 => staging = <<>>
    BY <1>1, CountType DEF FlagsInv, QuietInv
  <2>2. CASE Filter
    <3>1. stager.inst \in Insts
      BY <2>2 DEF Filter, StagerAt, StagerInv
    <3>2. /\ staging' = staging
          /\ ~(stager'.pc = "stage" /\ stager'.inst = i)
      BY <1>1, <2>1, <2>2, <3>1 DEF Filter, StagerAt, Idle
    <3>3. QED
      BY <2>1, <3>2 DEF Past, One
  <2>3. CASE Stage
    <3>1. /\ stager.pc = "stage" /\ stager'.pc = "bell"
          /\ stager.inst \in Insts /\ staging' = Append(staging, stager.inst)
      BY <2>3, Parts DEF Stage, StagerAt, StagerTypes, StagerInv
    <3>2. Count(staging', i) = Count(staging, i) + One(stager.inst = i)
      BY <1>1, <3>1, CountAppend
    <3>3. QED
      BY <2>1, <3>1, <3>2 DEF Past, One
  <2>4. CASE ~Filter /\ ~Stage
    <3>1. staging' = staging /\ stager'.pc # "stage"
      <4>1. ASSUME NEW j \in Insts, Emit(j)
            PROVE  staging' = staging /\ stager'.pc # "stage"
        BY <4>1 DEF Emit, Idle
      <4>2. CASE StageDrops \/ Publish \/ PublishFails
        BY <4>2 DEF StageDrops, Publish, PublishFails, Idle
      <4>3. CASE CountOverwritten \/ Ring
        <5>1. StagerTypes
          BY Parts
        <5>2. CASE CountOverwritten
          BY <5>1, <5>2 DEF CountOverwritten, StagerTypes
        <5>3. CASE Ring
          BY <5>1, <5>3 DEF Ring, Idle, StagerTypes
        <5>4. QED
          BY <4>3, <5>2, <5>3
      <4>4. ~StageOverwrites
        BY <1>1 DEF StageOverwrites
      <4>5. QED
        BY <2>4, <4>1, <4>2, <4>3, <4>4 DEF Listening, Listener
    <3>2. Past(i)' = 0
      BY <3>1 DEF Past, One
    <3>3. QED
      BY <2>1, <3>1, <3>2 DEF Past, One
  <2>5. QED
    BY <2>2, <2>3, <2>4
<1>3. QED
  BY <1>1, <1>2 DEF QuietInv

(* So it is after every step.                                               *)
LEMMA NextQuiet ==
  ASSUME TypeOK, FlagsInv, StagerInv, QuietInv, [Next]_vars
  PROVE  QuietInv'
<1>1. CASE UNCHANGED <<phase, staging, stager, reopened>>
  BY <1>1 DEF QuietInv, Past
<1>2. CASE Listening
  <2>1. CASE phase \in Ended
    BY <1>2, <2>1, ListeningQuiet
  <2>2. CASE phase \notin Ended
    BY <1>2, <2>2, ListeningFrame DEF QuietInv
  <2>3. QED
    BY <2>1, <2>2
<1>3. CASE Starting
  <2>1. CASE Empty
    <3>1. staging' = <<>>
      BY <2>1 DEF Empty
    <3>2. \A i : Count(staging', i) = 0
      BY <3>1, CountEmpty
    <3>3. QED
      BY <3>1, <3>2 DEF QuietInv, Past, One
  <2>2. CASE CloseTake
    <3>1. /\ UNCHANGED <<phase, stager, reopened>> /\ staging' = Tail(staging)
          /\ staging # <<>> /\ staging \in Seq(Insts) /\ phase \in Ended
      BY <2>2 DEF CloseTake, shared, start, TypeOK, Ended
    <3>2. ASSUME NEW i \in Insts \ reopened
          PROVE  /\ Count(staging', i) + Past(i)' <= 1
                 /\ Past(i)' = 1 => staging' = <<>>
      <4>1. /\ Count(staging, i) + Past(i) <= 1
            /\ Past(i) = 1 => staging = <<>>
        BY <3>1 DEF QuietInv
      <4>2. Count(staging, i) = Count(Tail(staging), i) + One(Head(staging) = i)
        BY <3>1, CountTail
      <4>3. Tail(staging) \in Seq(Insts)
        BY <3>1, HeadTailProperties
      <4>4. Count(Tail(staging), i) \in Nat /\ Past(i)' = Past(i)
        BY <3>1, <4>3, CountType DEF Past
      <4>5. QED
        BY <3>1, <4>1, <4>2, <4>4 DEF One, Past
    <3>3. QED
      BY <3>1, <3>2 DEF QuietInv
  <2>3. ASSUME NEW j \in Finalized, CloseAwait(j) PROVE QuietInv'
    BY <2>3 DEF CloseAwait, Phase, Work, QuietInv, Past, Ended
  <2>4. CASE CloseDrain \/ CloseDrained \/ Closed
    BY <2>4 DEF CloseDrain, CloseDrained, Closed, Phase, Work, QuietInv, Past,
                Ended
  <2>5. CASE ~Empty /\ ~Closing
    BY <1>3, <2>5 DEF Starting, Coordinate, SealFlags, Seal, Folded, Fold,
         Clear, Fail, AddPolicy, Phase, QuietInv, Ended
  <2>6. QED
    BY <2>1, <2>2, <2>3, <2>4, <2>5 DEF Closing
<1>4. QED
  BY <1>1, <1>2, <1>3, Steps, TaskFrame DEF vars, shared, start, QuietInv, Ended

-----------------------------------------------------------------------------
(* The balance of the events.                                               *)

\* The task has the event of i that is in the slot s, which still counts.
Carries(i, p, c, s) == s.inst = i /\ (p = "prune" \/ (s.fifo /\ Converts(p, c)))

(* The event that the drains hold is the one of the task on the thread: of  *)
(* all the places and stacks, only its own say that there is one.           *)
LEMMA CarriesLemma ==
  ASSUME NEW P, NEW C, NEW d, NEW s, NEW i, NEW t \in Tasks,
         \A u \in Tasks : Shape(P[u], C[u], d) /\ C[u] \in Seq(Points),
         \A u \in Others(t) : P[u] \in OffCpu
  PROVE  LET at == {P[u] : u \in Tasks}
                     \cup UNION {{C[u][k] : k \in DOMAIN C[u]} : u \in Tasks}
         IN  One(s.inst = i /\ \/ "prune" \in at
                               \/ s.fifo /\ at \cap {"convert", "reconvert"} # {})
               = One(Carries(i, P[t], C[t], s))
<1> DEFINE places == {P[u] : u \in Tasks}
           stacks == UNION {{C[u][k] : k \in DOMAIN C[u]} : u \in Tasks}
           at     == places \cup stacks
<1>1. \A u \in Tasks : DOMAIN C[u] = 1..Len(C[u]) /\ Len(C[u]) \in Nat
  BY LenProperties
<1>2. \A u \in Others(t) : /\ P[u] \notin {"prune", "convert", "reconvert"}
                           /\ Len(C[u]) = 0
  BY DEF Others, Shape, OffCpu, Inside
<1>3. ASSUME NEW u \in Tasks, NEW k \in DOMAIN C[u]
      PROVE  /\ C[u][k] \notin {"prune", "convert"}
             /\ C[u][k] = "reconvert" => u = t /\ Len(C[u]) = 2
  <2>1. k \in 1..Len(C[u]) /\ Len(C[u]) \in {1, 2}
    BY <1>1, <1>3 DEF Shape
  <2>2. k = 1 \/ k = 2
    BY <2>1
  <2>3. u = t
    BY <1>2, <2>1 DEF Others
  <2>4. QED
    BY <2>1, <2>2, <2>3 DEF Shape, Returns
<1>4. "prune" \in at <=> P[t] = "prune"
  <2>1. "prune" \notin stacks
    BY <1>3
  <2>2. "prune" \in places <=> P[t] = "prune"
    BY <1>2 DEF Others
  <2>3. QED
    BY <2>1, <2>2
<1>5. at \cap {"convert", "reconvert"} # {} <=> Converts(P[t], C[t])
  <2>1. \A p \in {"convert", "reconvert"} : p \in places <=> P[t] = p
    BY <1>2 DEF Others
  <2>2. "convert" \notin stacks
    BY <1>3
  <2>3. "reconvert" \in stacks <=> Len(C[t]) = 2
    <3>1. ASSUME Len(C[t]) = 2 PROVE "reconvert" \in stacks
      <4>1. 1 \in DOMAIN C[t] /\ C[t][1] = "reconvert"
        BY <1>1, <3>1 DEF Shape
      <4>2. QED
        BY <4>1
    <3>2. ASSUME "reconvert" \in stacks PROVE Len(C[t]) = 2
      BY <1>3, <3>2
    <3>3. QED
      BY <3>1, <3>2
  <2> HIDE DEF places, stacks
  <2>4. QED
    BY <2>1, <2>2, <2>3 DEF Converts
<1> HIDE DEF places, stacks
<1>6. (s.inst = i /\ \/ "prune" \in at
                     \/ s.fifo /\ at \cap {"convert", "reconvert"} # {})
        <=> Carries(i, P[t], C[t], s)
  BY <1>4, <1>5 DEF Carries
<1>7. One(s.inst = i /\ \/ "prune" \in at
                        \/ s.fifo /\ at \cap {"convert", "reconvert"} # {})
        = One(Carries(i, P[t], C[t], s))
  BY <1>6 DEF One
<1>8. QED
  BY <1>7 DEF places, stacks

(* What the drains hold before and after a move.                            *)
LEMMA InDrainMoved ==
  ASSUME TypeOK, StackInv, TypeOK', StackInv', NEW t \in Tasks, Alone(t),
         NEW p, NEW c, Moved(t, p, c), NEW i
  PROVE  /\ InDrain(i) = One(Carries(i, pc[t], calls[t], slot))
         /\ InDrain(i)' = One(Carries(i, p, c, slot'))
<1>1. InDrain(i) = One(Carries(i, pc[t], calls[t], slot))
  <2>1. /\ \A u \in Tasks : /\ Shape(pc[u], calls[u], draining)
                            /\ calls[u] \in Seq(Points)
        /\ \A u \in Others(t) : pc[u] \in OffCpu
    BY DEF StackInv, TypeOK, Alone
  <2>2. QED
    BY <2>1, CarriesLemma DEF InDrain
<1>2. pc'[t] = p /\ calls'[t] = c
  BY DEF Moved, TypeOK
<1>3. InDrain(i)' = One(Carries(i, pc'[t], calls'[t], slot'))
  <2>1. /\ \A u \in Tasks : /\ Shape(pc'[u], calls'[u], draining')
                            /\ calls'[u] \in Seq(Points)
        /\ \A u \in Others(t) : pc'[u] \in OffCpu
    BY DEF StackInv, TypeOK, Alone, Moved, Others
  <2>2. QED
    BY <2>1, CarriesLemma DEF InDrain
<1>4. QED
  BY <1>1, <1>2, <1>3

(* The numbers of the balance.                                              *)
LEMMA Numbers ==
  ASSUME NEW i \in Insts
  PROVE  /\ TypeOK => /\ staging \in Seq(Insts) /\ fifo \in Seq(Insts)
                      /\ Count(staging, i) \in Nat /\ Count(fifo, i) \in Nat
                      /\ emitted[i] \in Nat /\ delivered[i] \in Nat
                      /\ preseal_drop[i] \in Nat /\ staged_drop[i] \in Nat
                      /\ fifo_drop[i] \in Nat
                      /\ InListener(i) \in Nat /\ InDrain(i) \in Nat
         /\ TypeOK' => /\ staging' \in Seq(Insts) /\ fifo' \in Seq(Insts)
                       /\ Count(staging', i) \in Nat /\ Count(fifo', i) \in Nat
                       /\ emitted'[i] \in Nat /\ delivered'[i] \in Nat
                       /\ preseal_drop'[i] \in Nat /\ staged_drop'[i] \in Nat
                       /\ fifo_drop'[i] \in Nat
                       /\ InListener(i)' \in Nat /\ InDrain(i)' \in Nat
<1>1. ASSUME TypeOK
      PROVE  /\ staging \in Seq(Insts) /\ fifo \in Seq(Insts)
             /\ Count(staging, i) \in Nat /\ Count(fifo, i) \in Nat
             /\ emitted[i] \in Nat /\ delivered[i] \in Nat
             /\ preseal_drop[i] \in Nat /\ staged_drop[i] \in Nat
             /\ fifo_drop[i] \in Nat
  <2>1. CountTypes /\ staging \in Seq(Insts) /\ fifo \in Seq(Insts)
    BY <1>1, Parts DEF StagingTypes, FifoTypes
  <2>2. QED
    BY <2>1, CountType DEF CountTypes
<1>2. ASSUME TypeOK'
      PROVE  /\ staging' \in Seq(Insts) /\ fifo' \in Seq(Insts)
             /\ Count(staging', i) \in Nat /\ Count(fifo', i) \in Nat
             /\ emitted'[i] \in Nat /\ delivered'[i] \in Nat
             /\ preseal_drop'[i] \in Nat /\ staged_drop'[i] \in Nat
             /\ fifo_drop'[i] \in Nat
  <2>1. CountTypes' /\ staging' \in Seq(Insts) /\ fifo' \in Seq(Insts)
    BY <1>2, Parts DEF StagingTypes, FifoTypes
  <2>2. QED
    BY <2>1, CountType DEF CountTypes
<1>3. InListener(i) \in Nat /\ InDrain(i) \in Nat
  BY DEF InListener, InDrain, One
<1>4. InListener(i)' \in Nat /\ InDrain(i)' \in Nat
  BY DEF InListener, InDrain, One
<1>5. QED
  BY <1>1, <1>2, <1>3, <1>4

\* What is between the listener and its end, delivered or dropped.
Pending(i) ==
  Count(staging, i) + InDrain(i) + Count(fifo, i) + delivered[i] + fifo_drop[i]

(* A step outside a drain, or one that begins a drain, moves no event.      *)
LEMMA PendingOutside ==
  ASSUME TypeOK, StackInv, TypeOK', StackInv', NEW t \in Tasks, Alone(t),
         pc[t] \in Outside,
         \/ \E p \in Outside : Goto(t, p) /\ calls' = calls
         \/ \E p \in Returns : Drain(t, p) /\ draining' = draining
  PROVE  \A i : InDrain(i) = 0 /\ InDrain(i)' = 0
<1>1. Len(calls[t]) = 0 /\ calls \in [Tasks -> Seq(Points)]
  BY OutsideLemma DEF TypeOK
<1>2. ~Converts(pc[t], calls[t]) /\ pc[t] # "prune"
  BY <1>1 DEF Converts, Outside, OffCpu
<1>3. ASSUME NEW p \in Outside, Goto(t, p), calls' = calls, NEW i
      PROVE  InDrain(i) = 0 /\ InDrain(i)' = 0
  <2>1. Moved(t, p, calls[t])
    BY <1>1, <1>3 DEF Moved, Goto
  <2>2. ~Converts(p, calls[t]) /\ p # "prune"
    BY <1>1 DEF Converts, Outside, OffCpu
  <2>3. QED
    BY <1>2, <2>1, <2>2, InDrainMoved DEF Carries, One
<1>4. ASSUME NEW p \in Returns, Drain(t, p), draining' = draining, NEW i
      PROVE  InDrain(i) = 0 /\ InDrain(i)' = 0
  <2>1. PICK c \in Seq(Points) : Moved(t, "drain", c) /\ Len(c) = 1
    BY <1>4, DrainLemma
  <2>2. ~Converts("drain", c)
    BY <2>1 DEF Converts
  <2>3. QED
    BY <1>2, <2>1, <2>2, InDrainMoved DEF Carries, One
<1>5. QED
  BY <1>3, <1>4

(* A drain moves the events of a source with policies, and loses none.      *)
LEMMA DrainPending ==
  ASSUME TypeOK, StackInv, SlotInv, FlagsInv, TypeOK', StackInv',
         NEW t \in Tasks, Draining(t), NEW i \in policies
  PROVE  Pending(i)' = Pending(i)
<1>1. /\ Alone(t) /\ phase = "run" /\ i \in Insts
      /\ "POLICY" \in flags[i]
  BY TaskFrame DEF Draining, DrainBegin, DrainRefused, StagingTake, DrainEnd,
       DrainPrune, ConvertFails, Route, Converting, Finalizer, Step, At, Alone,
       FlagsInv, TypeOK
<1>2. /\ staging \in Seq(Insts) /\ fifo \in Seq(Insts)
      /\ Count(staging, i) \in Nat /\ Count(fifo, i) \in Nat
      /\ delivered[i] \in Nat /\ fifo_drop[i] \in Nat
      /\ fifo_drop \in [Insts -> Nat]
  BY <1>1, Numbers, Parts DEF CountTypes
<1>3. ASSUME NEW p \in Inside, Goto(t, p), calls' = calls, draining',
             pc[t] \in Inside \/ (pc[t] = "drain" /\ ~draining)
      PROVE  /\ Moved(t, p, calls[t]) /\ Len(calls[t]) = 1
             /\ InDrain(i) = One(Carries(i, pc[t], calls[t], slot))
             /\ InDrain(i)' = One(Carries(i, p, calls[t], slot'))
  BY <1>1, <1>3, InsideLemma, InDrainMoved
<1>4. CASE DrainBegin(t)
  <2>1. /\ pc[t] = "drain" /\ ~draining /\ draining' /\ calls' = calls
        /\ Goto(t, "take") /\ "take" \in Inside
        /\ UNCHANGED <<staging, fifo, delivered, fifo_drop>>
    BY <1>4 DEF DrainBegin, Step, At, Inside, counts, heap
  <2>2. InDrain(i) = 0 /\ InDrain(i)' = 0
    BY <1>3, <2>1 DEF Carries, Converts, One
  <2>3. QED
    BY <2>1, <2>2 DEF Pending
<1>5. CASE DrainRefused(t)
  <2>1. /\ pc[t] = "drain" /\ draining /\ Return(t) /\ draining' = draining
        /\ UNCHANGED <<slot, staging, fifo, delivered, fifo_drop>>
    BY <1>5 DEF DrainRefused, At, drain, counts, heap
  <2>2. PICK c \in Seq(Points) :
          Len(calls[t]) = 2 /\ Moved(t, "reconvert", c)
    BY <2>1, RefusedLemma
  <2>3. /\ InDrain(i) = One(Carries(i, pc[t], calls[t], slot))
        /\ InDrain(i)' = One(Carries(i, "reconvert", c, slot'))
    BY <1>1, <2>2, InDrainMoved
  <2>4. InDrain(i)' = InDrain(i)
    BY <2>1, <2>2, <2>3 DEF Carries, Converts, One
  <2>5. QED
    BY <2>1, <2>4 DEF Pending
<1>6. ASSUME draining, pc[t] \in Inside, NEW p \in Inside, Goto(t, p),
             calls' = calls, draining' = draining
      PROVE  /\ InDrain(i) = One(Carries(i, pc[t], calls[t], slot))
             /\ InDrain(i)' = One(Carries(i, p, calls[t], slot'))
             /\ Len(calls[t]) = 1
  BY <1>3, <1>6
<1>7. pc[t] \in Inside => draining
  BY DEF StackInv, Shape, Inside, Outside, OffCpu
<1>8. CASE StagingTake(t)
  <2>1. /\ pc[t] = "take" /\ pc[t] \in Inside /\ calls' = calls
        /\ draining' = draining /\ Goto(t, "prune") /\ "prune" \in Inside
        /\ staging # <<>> /\ staging' = Tail(staging)
        /\ slot'.inst = Head(staging)
        /\ UNCHANGED <<fifo, delivered, fifo_drop>>
    BY <1>8 DEF StagingTake, Step, At, Inside, counts, heap
  <2>0. /\ InDrain(i) = One(Carries(i, pc[t], calls[t], slot))
        /\ InDrain(i)' = One(Carries(i, "prune", calls[t], slot'))
        /\ Len(calls[t]) = 1
    BY <1>6, <1>7, <2>1
  <2>2. InDrain(i) = 0 /\ InDrain(i)' = One(Head(staging) = i)
    BY <2>0, <2>1 DEF Carries, Converts, One
  <2>3. Count(staging, i) = Count(staging', i) + One(Head(staging) = i)
    BY <1>2, <2>1, CountTail
  <2>4. Count(staging', i) \in Nat /\ One(Head(staging) = i) \in Nat
    BY <1>1, Numbers DEF One
  <2>5. QED
    BY <1>2, <2>1, <2>2, <2>3, <2>4 DEF Pending
<1>9. CASE DrainEnd(t)
  <2>1. /\ pc[t] = "take" /\ Return(t) /\ ~draining'
        /\ UNCHANGED <<staging, fifo, delivered, fifo_drop>>
    BY <1>9 DEF DrainEnd, At, counts, heap
  <2>2. PICK c \in Seq(Points), r \in Returns :
          Len(calls[t]) = 1 /\ Moved(t, r, c) /\ Len(c) = 0
    BY <2>1, EndLemma
  <2>3. /\ InDrain(i) = One(Carries(i, pc[t], calls[t], slot))
        /\ InDrain(i)' = One(Carries(i, r, c, slot'))
    BY <1>1, <2>2, InDrainMoved
  <2>4. InDrain(i) = 0 /\ InDrain(i)' = 0
    BY <2>1, <2>2, <2>3 DEF Carries, Converts, Returns, One
  <2>5. QED
    BY <2>1, <2>4 DEF Pending
<1>10. CASE DrainPrune(t)
  <2> DEFINE j == slot.inst
             toFifo == "POLICY" \in flags[j] /\ Len(fifo) < FifoDepth
  <2>1. /\ pc[t] = "prune" /\ pc[t] \in Inside /\ calls' = calls
        /\ draining' = draining /\ UNCHANGED <<staging, fifo, delivered>>
        /\ slot'.inst = j /\ slot'.fifo = toFifo
        /\ fifo_drop' = IF "POLICY" \in flags[j] /\ ~toFifo
                          THEN Inc(fifo_drop, j) ELSE fifo_drop
    BY <1>10 DEF DrainPrune, At, Inside
  <2>2. PICK p \in {"convert", "take"} :
          Goto(t, p) /\ (toFifo => p = "convert")
    BY <1>10 DEF DrainPrune
  <2>3. p \in Inside
    BY DEF Inside
  <2>4. /\ InDrain(i) = One(Carries(i, pc[t], calls[t], slot))
        /\ InDrain(i)' = One(Carries(i, p, calls[t], slot'))
        /\ Len(calls[t]) = 1
    BY <1>6, <1>7, <2>1, <2>2, <2>3
  <2>5. CASE j = i
    <3>1. InDrain(i) = 1
      BY <2>1, <2>4, <2>5 DEF Carries, One
    <3>2. CASE toFifo
      <4>1. InDrain(i)' = 1 /\ fifo_drop' = fifo_drop
        BY <2>1, <2>2, <2>4, <2>5, <3>2 DEF Carries, Converts, One
      <4>2. QED
        BY <2>1, <3>1, <4>1 DEF Pending
    <3>3. CASE ~toFifo
      <4>1. InDrain(i)' = 0
        BY <2>1, <2>2, <2>4, <3>3 DEF Carries, One
      <4>2. fifo_drop'[i] = fifo_drop[i] + 1
        BY <1>1, <1>2, <2>1, <2>5, <3>3 DEF Inc
      <4>3. /\ Pending(i) = Count(staging, i) + 1 + Count(fifo, i)
                               + delivered[i] + fifo_drop[i]
            /\ Pending(i)' = Count(staging, i) + 0 + Count(fifo, i)
                                + delivered[i] + (fifo_drop[i] + 1)
        BY <2>1, <3>1, <4>1, <4>2 DEF Pending
      <4>4. /\ Count(staging, i) \in Nat /\ Count(fifo, i) \in Nat
            /\ delivered[i] \in Nat /\ fifo_drop[i] \in Nat
        BY <1>2
      <4>5. QED
        BY <4>3, <4>4
    <3>4. QED
      BY <3>2, <3>3
  <2>6. CASE j # i
    <3>1. InDrain(i) = 0 /\ InDrain(i)' = 0
      BY <2>1, <2>4, <2>6 DEF Carries, One
    <3>2. fifo_drop'[i] = fifo_drop[i]
      BY <1>1, <1>2, <2>1, <2>6 DEF Inc
    <3>3. QED
      BY <2>1, <3>1, <3>2 DEF Pending
  <2>7. QED
    BY <2>5, <2>6
<1>11. CASE ConvertFails(t) \/ Route(t)
  <2> DEFINE j == slot.inst
  <2>1. /\ pc[t] \in {"convert", "reconvert"} /\ pc[t] \in Inside
        /\ calls' = calls /\ draining' = draining /\ Goto(t, "take")
        /\ "take" \in Inside /\ UNCHANGED <<staging, delivered, slot>>
    BY <1>11
       DEF ConvertFails, Route, Converting, At, Inside, counts, heap, drain
  <2>2. /\ InDrain(i) = One(Carries(i, pc[t], calls[t], slot))
        /\ InDrain(i)' = One(Carries(i, "take", calls[t], slot'))
        /\ Len(calls[t]) = 1
    BY <1>6, <1>7, <2>1
  <2>3. InDrain(i) = One(j = i /\ slot.fifo) /\ InDrain(i)' = 0
    BY <2>1, <2>2 DEF Carries, Converts, One
  <2>4. CASE ConvertFails(t)
    <3>1. /\ fifo_drop' = IF slot.fifo THEN Inc(fifo_drop, j) ELSE fifo_drop
          /\ fifo' = fifo
      BY <2>4 DEF ConvertFails, heap
    <3>2. fifo_drop'[i] = fifo_drop[i] + One(j = i /\ slot.fifo)
      BY <1>1, <1>2, <3>1 DEF Inc, One
    <3>3. /\ Pending(i) = Count(staging, i) + One(j = i /\ slot.fifo)
                             + Count(fifo, i) + delivered[i] + fifo_drop[i]
          /\ Pending(i)' = Count(staging, i) + 0 + Count(fifo, i)
               + delivered[i] + (fifo_drop[i] + One(j = i /\ slot.fifo))
      BY <2>1, <2>3, <3>1, <3>2 DEF Pending
    <3>4. One(j = i /\ slot.fifo) \in Nat
      BY DEF One
    <3>5. QED
      BY <1>2, <3>3, <3>4
  <2>5. CASE Route(t)
    <3>1. /\ fifo' = IF slot.fifo THEN Append(fifo, j) ELSE fifo
          /\ fifo_drop' = fifo_drop
      BY <2>5 DEF Route, counts
    <3>2. j \in Insts
      BY <2>1 DEF SlotInv, Holds, Converts
    <3>3. Count(fifo', i) = Count(fifo, i) + One(j = i /\ slot.fifo)
      <4>1. CASE slot.fifo
        BY <1>2, <3>1, <3>2, <4>1, CountAppend DEF One
      <4>2. CASE ~slot.fifo
        BY <1>2, <3>1, <4>2 DEF One
      <4>3. QED
        BY <4>1, <4>2
    <3>4. QED
      BY <1>2, <2>1, <2>3, <3>1, <3>3 DEF Pending, One
  <2>6. QED
    BY <1>11, <2>4, <2>5
<1>12. ASSUME NEW j \in Finalized, pc[t] = "convert",
              Finalizer(t, j, "reconvert")
       PROVE  Pending(i)' = Pending(i)
  <2>1. /\ Drain(t, "reconvert") /\ draining' = draining
        /\ UNCHANGED <<slot, staging, fifo, delivered, fifo_drop>>
    BY <1>12 DEF Finalizer, drain, counts
  <2>2. PICK c \in Seq(Points) : Moved(t, "drain", c) /\ Len(c) = 2
    BY <1>12, <2>1, NestLemma
  <2>3. /\ InDrain(i) = One(Carries(i, pc[t], calls[t], slot))
        /\ InDrain(i)' = One(Carries(i, "drain", c, slot'))
    BY <1>1, <2>2, InDrainMoved
  <2>4. InDrain(i)' = InDrain(i)
    BY <1>12, <2>1, <2>2, <2>3 DEF Carries, Converts, One
  <2>5. QED
    BY <2>1, <2>4 DEF Pending
<1>13. QED
  BY <1>4, <1>5, <1>8, <1>9, <1>10, <1>11, <1>12 DEF Draining

(* The other steps of the tasks move them from the FIFO to its end only.    *)
LEMMA OtherPending ==
  ASSUME TypeOK, StackInv, TypeOK', StackInv',
         Scheduling \/ \E t \in Tasks : Awaiting(t), NEW i \in Insts
  PROVE  Pending(i)' = Pending(i)
<1> USE TasksLemma
<1>1. /\ fifo \in Seq(Insts) /\ Count(fifo, i) \in Nat
      /\ Count(fifo', i) \in Nat /\ Count(staging, i) \in Nat
      /\ delivered[i] \in Nat /\ fifo_drop[i] \in Nat
      /\ delivered \in [Insts -> Nat] /\ fifo_drop \in [Insts -> Nat]
      /\ InDrain(i) \in Nat /\ InDrain(i)' \in Nat
  BY Numbers, Parts DEF CountTypes
<1>2. ASSUME InDrain(i)' = InDrain(i),
             UNCHANGED <<staging, fifo, delivered, fifo_drop>>
      PROVE  Pending(i)' = Pending(i)
  BY <1>2 DEF Pending
<1>3. ASSUME fifo # <<>>, fifo' = Tail(fifo), staging' = staging,
             InDrain(i)' = InDrain(i),
             \/ delivered' = Inc(delivered, Head(fifo)) /\ fifo_drop' = fifo_drop
             \/ fifo_drop' = Inc(fifo_drop, Head(fifo)) /\ delivered' = delivered
      PROVE  Pending(i)' = Pending(i)
  <2>1. Count(fifo, i) = Count(fifo', i) + One(Head(fifo) = i)
    BY <1>1, <1>3, CountTail
  <2>2. /\ One(Head(fifo) = i) \in Nat /\ Head(fifo) \in Insts
    BY <1>1, <1>3, HeadTailProperties DEF One
  <2>3. ASSUME NEW c \in [Insts -> Nat]
        PROVE  Inc(c, Head(fifo))[i] = c[i] + One(Head(fifo) = i)
    BY <2>2 DEF Inc, One
  <2>4. Pending(i) = Count(staging, i) + InDrain(i)
                       + (Count(fifo', i) + One(Head(fifo) = i))
                       + delivered[i] + fifo_drop[i]
    BY <2>1 DEF Pending
  <2>5. \/ Pending(i)' = Count(staging, i) + InDrain(i) + Count(fifo', i)
               + (delivered[i] + One(Head(fifo) = i)) + fifo_drop[i]
        \/ Pending(i)' = Count(staging, i) + InDrain(i) + Count(fifo', i)
               + delivered[i] + (fifo_drop[i] + One(Head(fifo) = i))
    BY <1>1, <1>3, <2>3 DEF Pending
  <2>6. QED
    BY <1>1, <2>2, <2>4, <2>5
<1>4. ASSUME NEW t \in Tasks, Awaiting(t) PROVE Pending(i)' = Pending(i)
  <2>1. /\ Alone(t) /\ pc[t] \in Outside
        /\ UNCHANGED <<staging, fifo, delivered, fifo_drop>>
    BY <1>4 DEF Awaiting, QueueAlloc, TableLoses, TableStore, QueueKept,
         QueueStore, Storing, QueueFlags, Finalizer, Prepared, Attach,
         TakeEvent, TakeTimeout, TakePark, Step, At, Alone, Outside, counts,
         heap
  <2>2. \/ TableLoses(t)
        \/ \E p \in Outside : Goto(t, p) /\ calls' = calls
        \/ \E p \in Returns : Drain(t, p) /\ draining' = draining
    BY <1>4, LoopLemma DEF Awaiting, QueueAlloc, TableStore, QueueKept,
         QueueStore, QueueFlags, Finalizer, Prepared, Attach, TakeEvent,
         TakeTimeout, TakePark, Step, Outside, OffCpu, Returns, drain
  <2>3. InDrain(i)' = InDrain(i)
    <3>1. CASE TableLoses(t)
      BY <3>1 DEF TableLoses, InDrain, drain, tasks
    <3>2. CASE ~TableLoses(t)
      BY <2>1, <2>2, <3>2, PendingOutside
    <3>3. QED
      BY <3>1, <3>2
  <2>4. QED
    BY <1>2, <2>1, <2>3
<1>5. ASSUME NEW t \in Tasks,
             \/ t = "dispatch" /\ (Dispatcher \/ WakeUp)
             \/ Begin(t) \/ Wake(t)
             \/ t \in Scripts /\ Script(t)
      PROVE  Pending(i)' = Pending(i)
  <2>1. Alone(t) /\ pc[t] \in Outside
    BY <1>5 DEF Dispatcher, Pop, PopFails, PopNothing, HandlersReturn,
         Sleep, WakeUp, Begin, BeginInternal, BeginScript, Wake, Script,
         Await, Finish, Step, At, Alone, Outside, OffCpu
  <2>2. \/ \E p \in Outside : Goto(t, p) /\ calls' = calls
        \/ \E p \in Returns : Drain(t, p) /\ draining' = draining
    BY <1>5, LoopLemma
       DEF Dispatcher, Pop, PopFails, PopNothing, HandlersReturn, Sleep,
         WakeUp, Begin, BeginInternal, Attach, BeginScript, Wake, Script,
         Await, Finish, Step, Outside, OffCpu, Returns, drain
  <2>3. InDrain(i)' = InDrain(i)
    BY <2>1, <2>2, PendingOutside
  <2>4. CASE t = "dispatch" /\ (Pop \/ PopFails)
    BY <1>3, <2>3, <2>4 DEF Pop, PopFails
  <2>5. CASE ~(t = "dispatch" /\ (Pop \/ PopFails))
    <3>1. UNCHANGED <<staging, fifo, delivered, fifo_drop>>
      BY <1>5, <2>5 DEF Dispatcher, PopNothing, HandlersReturn, Sleep, WakeUp,
           Begin, BeginInternal, Attach, BeginScript, Wake, Script, Await,
           Finish, counts, heap
    <3>2. QED
      BY <1>2, <2>3, <3>1
  <2>6. QED
    BY <2>4, <2>5
<1>6. ASSUME NEW t \in Scripts, Collect(t) PROVE Pending(i)' = Pending(i)
  <2>1. /\ UNCHANGED <<pc, calls, slot>>
        /\ UNCHANGED <<staging, fifo, delivered, fifo_drop>>
    BY <1>6 DEF Collect, counts, drain, tasks
  <2>2. InDrain(i)' = InDrain(i)
    BY <2>1 DEF InDrain
  <2>3. QED
    BY <1>2, <2>1, <2>2
<1>7. ASSUME NEW t \in Scripts, Spawn(t) PROVE Pending(i)' = Pending(i)
  <2>1. PICK u \in Others(t) : At(u, "run")
    BY <1>7 DEF Spawn
  <2>2. /\ u \in Tasks /\ u # t /\ pc[u] = "run" /\ Alone(u)
        /\ pc' = [pc EXCEPT ![t] = "start"] /\ calls' = calls /\ slot' = slot
        /\ UNCHANGED <<staging, fifo, delivered, fifo_drop>>
    BY <1>7, <2>1 DEF Spawn, At, Alone, Others, Goto, counts, heap, drain
  <2>3. /\ pc'[u] = "run"
        /\ \A v \in Others(u) : pc'[v] \in OffCpu
    BY <2>2 DEF TypeOK, Alone, Others, OffCpu
  <2>4. InDrain(i) = One(Carries(i, pc[u], calls[u], slot))
    <3>1. /\ \A v \in Tasks : /\ Shape(pc[v], calls[v], draining)
                              /\ calls[v] \in Seq(Points)
          /\ \A v \in Others(u) : pc[v] \in OffCpu
      BY <2>2 DEF StackInv, TypeOK, Alone
    <3>2. QED
      BY <2>2, <3>1, CarriesLemma DEF InDrain
  <2>5. InDrain(i)' = One(Carries(i, pc'[u], calls'[u], slot'))
    <3>1. /\ \A v \in Tasks : /\ Shape(pc'[v], calls'[v], draining')
                              /\ calls'[v] \in Seq(Points)
          /\ \A v \in Others(u) : pc'[v] \in OffCpu
          /\ u \in Tasks
      BY <2>2, <2>3 DEF StackInv, TypeOK
    <3>2. QED
      BY <3>1, CarriesLemma DEF InDrain
  <2>6. InDrain(i)' = InDrain(i)
    BY <2>2, <2>3, <2>4, <2>5
  <2>7. QED
    BY <1>2, <2>2, <2>6
<1>8. QED
  BY <1>4, <1>5, <1>6, <1>7 DEF Scheduling

\* The events of i that were emitted are where they should be.
Balance(i) ==
  emitted[i] = InListener(i) + Pending(i) + preseal_drop[i] + staged_drop[i]

(* This is what Accounted says.                                             *)
LEMMA AccountedBalance ==
  /\ TypeOK => (Accounted <=> (phase \notin {"clear"} \cup Ended =>
       \A i \in Insts : ~sealed \/ i \in policies => Balance(i)))
  /\ TypeOK' => (Accounted' <=> (phase' \notin {"clear"} \cup Ended =>
       \A i \in Insts : ~sealed' \/ i \in policies' => Balance(i)'))
<1>1. ASSUME TypeOK, NEW i \in Insts
      PROVE  Balance(i) <=>
               emitted[i] = InListener(i) + Count(staging, i) + InDrain(i)
                              + Count(fifo, i) + delivered[i]
                              + preseal_drop[i] + staged_drop[i] + fifo_drop[i]
  <2>1. /\ Count(staging, i) \in Nat /\ Count(fifo, i) \in Nat
        /\ delivered[i] \in Nat /\ fifo_drop[i] \in Nat
        /\ preseal_drop[i] \in Nat /\ staged_drop[i] \in Nat
        /\ InListener(i) \in Nat /\ InDrain(i) \in Nat
    BY <1>1, Numbers
  <2>2. QED
    BY <2>1 DEF Balance, Pending
<1>2. ASSUME TypeOK', NEW i \in Insts
      PROVE  Balance(i)' <=>
               emitted'[i] = InListener(i)' + Count(staging', i) + InDrain(i)'
                               + Count(fifo', i) + delivered'[i]
                               + preseal_drop'[i] + staged_drop'[i]
                               + fifo_drop'[i]
  <2>1. /\ Count(staging', i) \in Nat /\ Count(fifo', i) \in Nat
        /\ delivered'[i] \in Nat /\ fifo_drop'[i] \in Nat
        /\ preseal_drop'[i] \in Nat /\ staged_drop'[i] \in Nat
        /\ InListener(i)' \in Nat /\ InDrain(i)' \in Nat
    BY <1>2, Numbers
  <2>2. QED
    BY <2>1 DEF Balance, Pending
<1>3. TypeOK => (Accounted <=> (phase \notin {"clear"} \cup Ended =>
        \A i \in Insts : ~sealed \/ i \in policies => Balance(i)))
  BY <1>1 DEF Accounted
<1>4. TypeOK' => (Accounted' <=> (phase' \notin {"clear"} \cup Ended =>
        \A i \in Insts : ~sealed' \/ i \in policies' => Balance(i)'))
  BY <1>2 DEF Accounted
<1>5. QED
  BY <1>3, <1>4

(* A listener counts what it takes, and stages or counts what it took.      *)
LEMMA ListeningBalance ==
  ASSUME TypeOK, StagerInv, FlagsInv, TypeOK', Listening,
         phase \notin {"clear"} \cup Ended,
         NEW i \in Insts, ~sealed \/ i \in policies, Balance(i)
  PROVE  Balance(i)'
<1>1. /\ StagerTypes /\ CountTypes /\ i # NULL
      /\ staging \in Seq(Insts) /\ Count(staging, i) \in Nat
      /\ emitted[i] \in Nat /\ preseal_drop[i] \in Nat
      /\ staged_drop[i] \in Nat /\ InListener(i) \in Nat
      /\ Count(fifo, i) \in Nat /\ delivered[i] \in Nat
      /\ fifo_drop[i] \in Nat /\ InDrain(i) \in Nat
  BY Parts, Numbers, NameAssumption
<1>2. /\ Count(staging', i) \in Nat /\ emitted'[i] \in Nat
      /\ preseal_drop'[i] \in Nat /\ staged_drop'[i] \in Nat
      /\ InListener(i)' \in Nat
  BY Numbers
<1>3. /\ InDrain(i)' = InDrain(i)
      /\ fifo' = fifo /\ delivered' = delivered /\ fifo_drop' = fifo_drop
  BY ListeningFrame DEF InDrain
<1>4. ASSUME emitted'[i] + (InListener(i) + Count(staging, i)
                              + preseal_drop[i] + staged_drop[i])
               = emitted[i] + (InListener(i)' + Count(staging', i)
                                 + preseal_drop'[i] + staged_drop'[i])
      PROVE  Balance(i)'
  <2> DEFINE rest == InDrain(i) + Count(fifo, i) + delivered[i] + fifo_drop[i]
             old  == InListener(i) + Count(staging, i) + preseal_drop[i]
                       + staged_drop[i]
             new  == InListener(i)' + Count(staging', i) + preseal_drop'[i]
                       + staged_drop'[i]
  <2>0. /\ InListener(i) \in Nat /\ Count(staging, i) \in Nat
        /\ preseal_drop[i] \in Nat /\ staged_drop[i] \in Nat
        /\ InListener(i)' \in Nat /\ Count(staging', i) \in Nat
        /\ preseal_drop'[i] \in Nat /\ staged_drop'[i] \in Nat
        /\ InDrain(i) \in Nat /\ Count(fifo, i) \in Nat
        /\ delivered[i] \in Nat /\ fifo_drop[i] \in Nat
    BY <1>1, <1>2
  <2>1. rest \in Nat /\ old \in Nat /\ new \in Nat
    BY <2>0
  <2>2. /\ Pending(i) = Count(staging, i) + InDrain(i) + Count(fifo, i)
                           + delivered[i] + fifo_drop[i]
        /\ Pending(i)' = Count(staging', i) + InDrain(i) + Count(fifo, i)
                            + delivered[i] + fifo_drop[i]
    BY <1>3 DEF Pending
  <2>3. /\ InListener(i) + Pending(i) + preseal_drop[i] + staged_drop[i]
             = old + rest
        /\ InListener(i)' + Pending(i)' + preseal_drop'[i] + staged_drop'[i]
             = new + rest
    BY <2>0, <2>2
  <2>4. emitted'[i] + old = emitted[i] + new
    BY <1>4
  <2> HIDE DEF rest, old, new
  <2>5. emitted[i] = old + rest
    BY <2>3 DEF Balance
  <2>6. emitted'[i] \in Nat /\ emitted[i] \in Nat
    BY <1>1, <1>2
  <2>7. emitted'[i] = new + rest
    BY <2>1, <2>4, <2>5, <2>6
  <2>8. QED
    BY <2>3, <2>7 DEF Balance
<1>5. InListener(i) = One(stager.inst = i /\ stager.pc \in {"filter", "stage"})
                        + One(stager.over = i)
  BY DEF InListener
<1>6. InListener(i)' =
        One(stager'.inst = i /\ stager'.pc \in {"filter", "stage"})
          + One(stager'.over = i)
  BY DEF InListener
<1>7. ASSUME NEW j \in Insts, Emit(j) PROVE Balance(i)'
  <2>1. InListener(i) = 0 /\ InListener(i)' = One(j = i)
    BY <1>1, <1>5, <1>6, <1>7 DEF Emit, Idle, One
  <2>2. emitted'[i] = emitted[i] + One(j = i)
    BY <1>1, <1>7 DEF Emit, Inc, One, CountTypes
  <2>3. UNCHANGED <<staging, preseal_drop, staged_drop>>
    BY <1>7 DEF Emit
  <2>4. One(j = i) \in Nat
    BY DEF One
  <2>5. emitted'[i] + (InListener(i) + Count(staging, i)
                         + preseal_drop[i] + staged_drop[i])
          = emitted[i] + (InListener(i)' + Count(staging', i)
                            + preseal_drop'[i] + staged_drop'[i])
    BY <1>1, <2>1, <2>2, <2>3, <2>4
  <2>6. QED
    BY <1>4, <2>5
<1>8. CASE Filter
  <2>1. stager.inst = i => ~(sealed /\ "CONNECTED" \notin flags[i])
    BY Parts DEF FlagsInv, StartTypes
  <2>2. stager.pc = "filter" /\ stager.over = NULL
    BY <1>8 DEF Filter, StagerAt, StagerInv
  <2>3. InListener(i)' = InListener(i)
    <3>1. CASE stager.inst = i
      <4>1. stager' = [stager EXCEPT !.pc = "stage"]
        BY <1>8, <2>1, <3>1 DEF Filter
      <4>2. QED
        BY <1>1, <1>5, <1>6, <2>2, <3>1, <4>1 DEF StagerTypes, One
    <3>2. CASE stager.inst # i
      <4>1. stager'.inst # i /\ stager'.over = NULL
        BY <1>1, <1>8, <2>2, <3>2 DEF Filter, Idle, StagerTypes
      <4>2. QED
        BY <1>1, <1>5, <1>6, <2>2, <3>2, <4>1 DEF One
    <3>3. QED
      BY <3>1, <3>2
  <2>4. UNCHANGED <<emitted, staging, preseal_drop, staged_drop>>
    BY <1>8 DEF Filter, counts
  <2>5. QED
    BY <1>4, <2>3, <2>4
<1>9. CASE Stage
  <2>1. /\ stager.pc = "stage" /\ stager.over = NULL /\ stager.inst \in Insts
        /\ stager'.pc = "bell" /\ stager'.over = NULL
        /\ staging' = Append(staging, stager.inst)
        /\ UNCHANGED <<emitted, preseal_drop, staged_drop>>
    BY <1>1, <1>9 DEF Stage, StagerAt, StagerInv, StagerTypes, counts
  <2>2. Count(staging', i) = Count(staging, i) + One(stager.inst = i)
    BY <1>1, <2>1, CountAppend
  <2>3. InListener(i) = One(stager.inst = i) /\ InListener(i)' = 0
    BY <1>1, <1>5, <1>6, <2>1 DEF One
  <2>4. One(stager.inst = i) \in Nat
    BY DEF One
  <2>5. emitted'[i] + (InListener(i) + Count(staging, i)
                         + preseal_drop[i] + staged_drop[i])
          = emitted[i] + (InListener(i)' + Count(staging', i)
                            + preseal_drop'[i] + staged_drop'[i])
    BY <1>1, <2>1, <2>2, <2>3, <2>4
  <2>6. QED
    BY <1>4, <2>5
<1>10. CASE StageDrops
  <2>1. /\ stager.pc = "stage" /\ stager.over = NULL /\ stager.inst \in Insts
        /\ stager' = Idle /\ staged_drop' = Inc(staged_drop, stager.inst)
        /\ UNCHANGED <<emitted, staging, preseal_drop>>
    BY <1>10 DEF StageDrops, StagerAt, StagerInv
  <2>2. staged_drop'[i] = staged_drop[i] + One(stager.inst = i)
    BY <1>1, <2>1 DEF Inc, One, CountTypes
  <2>3. InListener(i) = One(stager.inst = i) /\ InListener(i)' = 0
    BY <1>1, <1>5, <1>6, <2>1 DEF One, Idle
  <2>4. One(stager.inst = i) \in Nat
    BY DEF One
  <2>5. emitted'[i] + (InListener(i) + Count(staging, i)
                         + preseal_drop[i] + staged_drop[i])
          = emitted[i] + (InListener(i)' + Count(staging', i)
                            + preseal_drop'[i] + staged_drop'[i])
    BY <1>1, <2>1, <2>2, <2>3, <2>4
  <2>6. QED
    BY <1>4, <2>5
<1>11. CASE StageOverwrites
  <2>1. /\ stager.pc = "stage" /\ stager.over = NULL /\ stager.inst \in Insts
        /\ stager'.pc = "count" /\ stager'.over = Head(staging)
        /\ staging' = Append(Tail(staging), stager.inst)
        /\ UNCHANGED <<emitted, preseal_drop, staged_drop>>
    BY <1>1, <1>11 DEF StageOverwrites, StagerAt, StagerInv, StagerTypes, counts
  <2>2. staging # <<>>
    BY <1>11, DepthAssumption, EmptySeq DEF StageOverwrites, Full
  <2>3. Tail(staging) \in Seq(Insts) /\ Count(Tail(staging), i) \in Nat
    BY <1>1, <2>2, HeadTailProperties, CountType
  <2>4. Count(staging, i) = Count(Tail(staging), i) + One(Head(staging) = i)
    BY <1>1, <2>2, CountTail
  <2>5. Count(staging', i) = Count(Tail(staging), i) + One(stager.inst = i)
    <3> DEFINE s == Tail(staging)
    <3>1. s \in Seq(Insts) /\ stager.inst \in Insts
      BY <2>1, <2>3
    <3> HIDE DEF s
    <3>2. Count(Append(s, stager.inst), i) = Count(s, i) + One(stager.inst = i)
      BY <3>1, CountAppend
    <3>3. QED
      BY <2>1, <3>2 DEF s
  <2>6. /\ InListener(i) = One(stager.inst = i)
        /\ InListener(i)' = One(Head(staging) = i)
    BY <1>1, <1>5, <1>6, <2>1 DEF One
  <2>7. One(stager.inst = i) \in Nat /\ One(Head(staging) = i) \in Nat
    BY DEF One
  <2>8. emitted'[i] + (InListener(i) + Count(staging, i)
                         + preseal_drop[i] + staged_drop[i])
          = emitted[i] + (InListener(i)' + Count(staging', i)
                            + preseal_drop'[i] + staged_drop'[i])
    BY <1>1, <2>5, <2>1, <2>3, <2>4, <2>6, <2>7
  <2>9. QED
    BY <1>4, <2>8
<1>12. CASE CountOverwritten
  <2>1. /\ stager.pc = "count" /\ stager.over \in Insts
        /\ stager'.pc = "bell" /\ stager'.over = NULL
        /\ preseal_drop' = Inc(preseal_drop, stager.over)
        /\ UNCHANGED <<emitted, staging, staged_drop>>
    BY <1>1, <1>12 DEF CountOverwritten, StagerAt, StagerInv, StagerTypes
  <2>2. preseal_drop'[i] = preseal_drop[i] + One(stager.over = i)
    BY <1>1, <2>1 DEF Inc, One, CountTypes
  <2>3. InListener(i) = One(stager.over = i) /\ InListener(i)' = 0
    BY <1>1, <1>5, <1>6, <2>1 DEF One
  <2>4. One(stager.over = i) \in Nat
    BY DEF One
  <2>5. emitted'[i] + (InListener(i) + Count(staging, i)
                         + preseal_drop[i] + staged_drop[i])
          = emitted[i] + (InListener(i)' + Count(staging', i)
                            + preseal_drop'[i] + staged_drop'[i])
    BY <1>1, <2>1, <2>2, <2>3, <2>4
  <2>6. QED
    BY <1>4, <2>5
<1>13. CASE Ring \/ Publish \/ PublishFails
  <2>1. stager.pc \in {"bell", "publish"} /\ stager.over = NULL
    BY <1>13 DEF Ring, Publish, PublishFails, StagerAt, StagerInv
  <2>2. stager'.pc \in {"publish", "idle"} /\ stager'.over = NULL
    BY <1>1, <1>13, <2>1 DEF Ring, Publish, PublishFails, Idle, StagerTypes
  <2>3. InListener(i) = 0 /\ InListener(i)' = 0
    BY <1>1, <1>5, <1>6, <2>1, <2>2 DEF One
  <2>4. UNCHANGED <<emitted, staging, preseal_drop, staged_drop>>
    BY <1>13 DEF Ring, Publish, PublishFails, counts
  <2>5. QED
    BY <1>4, <2>3, <2>4
<1>14. QED
  BY <1>7, <1>8, <1>9, <1>10, <1>11, <1>12, <1>13 DEF Listening, Listener

(* The start moves no event, but for the drops that it folds together.      *)
LEMMA StartingBalance ==
  ASSUME TypeOK, FlagsInv, Starting, phase' \notin {"clear"} \cup Ended,
         NEW i \in Insts, ~sealed' \/ i \in policies',
         ~sealed \/ i \in policies => Balance(i)
  PROVE  Balance(i)'
<1>1. ~Empty /\ ~Fail /\ \A j \in Insts : ~Clear(j)
  BY DEF Empty, Fail, Clear, Phase, Ended
<1>1a. ~Closing
  BY DEF Closing, CloseAwait, CloseDrain, CloseTake, CloseDrained, Closed,
         Phase, shared, start, Ended
<1>2. /\ UNCHANGED <<emitted, fifo_drop, delivered, stager, staging, fifo>>
      /\ UNCHANGED <<pc, calls, slot>>
  BY <1>1, <1>1a, StartingFrame DEF Closing
<1>3. InListener(i)' = InListener(i) /\ Pending(i)' = Pending(i)
  BY <1>2 DEF InListener, Pending, InDrain
<1>4. ~sealed \/ i \in policies
  BY <1>1, <1>1a DEF Starting, Coordinate, SealFlags, Seal, Folded, Fold,
       AddPolicy, Phase, FlagsInv, Ended
<1>5. preseal_drop'[i] + staged_drop'[i] = preseal_drop[i] + staged_drop[i]
  <2>1. ASSUME NEW j \in Insts, Fold(j)
        PROVE  preseal_drop'[i] + staged_drop'[i]
                 = preseal_drop[i] + staged_drop[i]
    <3>1. CASE i = j
      <4>1. "CONNECTED" \in flags[i]
        BY <1>4, <2>1 DEF Fold, FlagsInv
      <4>2. preseal_drop[i] \in Nat /\ staged_drop[i] \in Nat
        BY Numbers
      <4>3. /\ preseal_drop'[i] = 0
            /\ staged_drop'[i] = staged_drop[i] + preseal_drop[i]
        BY <2>1, <3>1, <4>1, Parts DEF Fold, CountTypes
      <4>4. QED
        BY <4>2, <4>3
    <3>2. CASE i # j
      BY <2>1, <3>2, Parts DEF Fold, CountTypes
    <3>3. QED
      BY <3>1, <3>2
  <2>2. CASE \A j \in Insts : ~Fold(j)
    BY <1>1, <1>1a, <2>2 DEF Starting, Coordinate, SealFlags, Seal, Folded,
         AddPolicy, counts
  <2>3. QED
    BY <2>1, <2>2
<1>6. preseal_drop[i] \in Nat /\ staged_drop[i] \in Nat
  BY Numbers
<1>7. preseal_drop'[i] \in Nat /\ staged_drop'[i] \in Nat
  BY StartStopTypes, Numbers DEF Starting
<1>8. InListener(i) \in Nat /\ Pending(i) \in Nat
  BY Numbers DEF Pending
<1>9. emitted[i] = InListener(i) + Pending(i) + preseal_drop[i] + staged_drop[i]
  BY <1>4 DEF Balance
<1>10. emitted[i] = InListener(i) + Pending(i) + preseal_drop'[i]
                      + staged_drop'[i]
  BY <1>5, <1>6, <1>7, <1>8, <1>9
<1>11. QED
  BY <1>2, <1>3, <1>10 DEF Balance

(* No step loses an event, or has it twice.                                 *)
LEMMA NextAccounted ==
  ASSUME IInv, TypeOK', StackInv', [Next]_vars
  PROVE  Accounted'
<1>1. /\ TypeOK /\ StackInv /\ SlotInv /\ StagerInv /\ FlagsInv /\ Accounted
  BY DEF IInv
<1>2. CASE UNCHANGED vars
  <2>1. /\ UNCHANGED <<phase, sealed, policies, stager, staging, fifo, slot>>
        /\ UNCHANGED <<emitted, delivered, preseal_drop, staged_drop>>
        /\ UNCHANGED <<fifo_drop, pc, calls>>
    BY <1>2 DEF vars, shared, start, counts, heap, drain, tasks
  <2>2. QED
    BY <1>1, <2>1 DEF Accounted, InListener, InDrain
<1>3. SUFFICES ASSUME Next, phase' \notin {"clear"} \cup Ended,
                      NEW i \in Insts, ~sealed' \/ i \in policies'
               PROVE  Balance(i)'
  BY <1>2, AccountedBalance
<1>4. phase \notin {"clear"} \cup Ended /\ (~sealed \/ i \in policies)
        => Balance(i)
  BY <1>1, AccountedBalance
<1>5. CASE Listening
  BY <1>1, <1>3, <1>4, <1>5, ListeningFrame, ListeningBalance
<1>6. CASE Starting
  <2>1. phase \notin {"clear"} \cup Ended
    BY <1>3, <1>6 DEF Starting, Coordinate, SealFlags, Seal, Folded, Fold,
         Clear, Closing, CloseAwait, CloseDrain, CloseTake, CloseDrained,
         Closed, Fail, AddPolicy, Empty, Phase, shared, start, Ended
  <2>2. QED
    BY <1>1, <1>3, <1>4, <1>6, <2>1, StartingBalance
<1>7. CASE Scheduling \/ \E t \in Tasks : Draining(t) \/ Awaiting(t)
  <2>1. /\ phase = "run" /\ UNCHANGED <<policies, sealed, stager>>
        /\ UNCHANGED <<emitted, staged_drop, preseal_drop>>
    BY <1>7, TaskFrame
  <2>2. i \in policies /\ Balance(i)
    BY <1>1, <1>3, <1>4, <2>1 DEF FlagsInv, Ended
  <2>3. Pending(i)' = Pending(i)
    BY <1>1, <1>7, <2>2, DrainPending, OtherPending
  <2>4. InListener(i)' = InListener(i)
    BY <2>1 DEF InListener
  <2>5. QED
    BY <2>1, <2>2, <2>3, <2>4 DEF Balance
<1>8. QED
  BY <1>3, <1>5, <1>6, <1>7, Steps

-----------------------------------------------------------------------------
(* The theorems.                                                            *)

(* The invariant holds at first: nothing runs, and nothing is counted.      *)
LEMMA InitInv == Init => IInv
<1> SUFFICES ASSUME Init PROVE IInv
  OBVIOUS
<1>1. TypeOK
  BY InitTypes
<1>2. /\ phase = "main" /\ sealed = FALSE /\ draining = FALSE
      /\ stager = Idle /\ staging = <<>> /\ fifo = <<>> /\ slot = NoSlot
      /\ \A t \in Tasks : /\ pc[t] = "start" /\ calls[t] = <<>>
                          /\ ask[t].insts = {} /\ queues[t] = {}
  BY DEF Init, NoAsk
<1>3. Len(<<>>) = 0
  BY EmptySeq
<1>4. "start" \in Outside /\ "start" \in OffCpu
  BY DEF Outside, OffCpu
<1>5. StackInv
  BY <1>2, <1>3, <1>4 DEF StackInv, Shape
<1>6. SlotInv
  BY <1>2, <1>3 DEF SlotInv, Holds, Converts
<1>7. AskInv
  BY <1>2, <1>3 DEF AskInv, Asking
<1>8. FlagsInv
  BY <1>2 DEF FlagsInv, Covered, Ended
<1>9. StagerInv /\ QuietInv
  BY <1>2 DEF StagerInv, QuietInv, Idle, Ended
<1>10. Accounted
  <2> SUFFICES ASSUME NEW i \in Insts PROVE Balance(i)
    BY <1>1, AccountedBalance
  <2>1. InListener(i) = 0
    BY <1>2, NameAssumption DEF InListener, Idle, One
  <2>2. InDrain(i) = 0
    BY <1>2, NameAssumption DEF InDrain, NoSlot, One
  <2>3. Count(staging, i) = 0 /\ Count(fifo, i) = 0
    BY <1>2, CountEmpty
  <2>4. /\ emitted[i] = 0 /\ delivered[i] = 0 /\ preseal_drop[i] = 0
        /\ staged_drop[i] = 0 /\ fifo_drop[i] = 0
    BY DEF Init
  <2>5. QED
    BY <2>1, <2>2, <2>3, <2>4 DEF Balance, Pending
<1>11. QED
  BY <1>1, <1>5, <1>6, <1>7, <1>8, <1>9, <1>10 DEF IInv

(* Every step keeps it.                                                     *)
LEMMA NextInv ==
  ASSUME IInv, [Next]_vars
  PROVE  IInv'
<1>1. /\ TypeOK /\ StackInv /\ SlotInv /\ AskInv /\ FlagsInv /\ StagerInv
      /\ QuietInv
  BY DEF IInv
<1>2. TypeOK' /\ StackInv'
  BY <1>1, NextTypes, NextStack
<1>3. SlotInv' /\ AskInv' /\ FlagsInv'
  BY <1>1, NextSlot, NextAsk, NextFlags
<1>4. StagerInv' /\ QuietInv'
  BY <1>1, NextStager, NextQuiet
<1>5. Accounted'
  BY <1>2, NextAccounted
<1>6. QED
  BY <1>2, <1>3, <1>4, <1>5 DEF IInv

(* The invariant: the stacks, the slot, the awaits, the flags, the listener *)
(* and the balance of the events are in order in every state.               *)
THEOREM Inductive == Spec => []IInv
<1>1. IInv /\ [Next]_vars => IInv'
  BY NextInv
<1>2. QED
  BY <1>1, InitInv, PTL DEF Spec

(* The variables keep their types and every queue its depth, whatever the   *)
(* listeners, the tasks and the finalizers do.                              *)
THEOREM TypeCorrect == Spec => []TypeOK
<1>1. IInv => TypeOK
  BY DEF IInv
<1>2. QED
  BY <1>1, Inductive, PTL

(* Between zephlet_lua_stage and core.pop no event of a source with         *)
(* policies is lost uncounted or counted twice.                             *)
THEOREM AccountedAlways == Spec => []Accounted
<1>1. IInv => Accounted
  BY DEF IInv
<1>2. QED
  BY <1>1, Inductive, PTL

(* zlet_lua_await_prune never turns off what a policy or a task that has    *)
(* not finished listens to.                                                 *)
THEOREM ListenersConnectedAlways == Spec => []ListenersConnected
<1>1. IInv => ListenersConnected
  <2> SUFFICES ASSUME IInv, phase = "run"
               PROVE  /\ \A i \in policies :
                           {"CONNECTED", "POLICY"} \subseteq flags[i]
                      /\ \A t \in Tasks :
                           /\ pc[t] = "park" => ask[t].insts \subseteq queues[t]
                           /\ pc[t] # "done" => \A i \in queues[t] :
                                \/ {"CONNECTED", "AWAITED"} \subseteq flags[i]
                                \/ pc[t] = "flags" /\ ask[t].making = i
    BY DEF ListenersConnected
  <2>1. \A i \in policies : {"CONNECTED", "POLICY"} \subseteq flags[i]
    BY DEF IInv, FlagsInv
  <2>2. ASSUME NEW t \in Tasks
        PROVE  /\ Covered(flags, pc[t], ask[t], queues[t])
               /\ Asking(t, pc[t], calls[t], ask[t], queues[t])
    BY DEF IInv, FlagsInv, AskInv, Ended
  <2>3. QED
    BY <2>1, <2>2 DEF Covered, Asking
<1>2. QED
  BY <1>1, Inductive, PTL

(* After the shutdown nothing of a source is counted as dropped, and at     *)
(* most one event of it is staged, as long as no finalizer that lua_close   *)
(* runs has awaited it: what was past the filter finds staging empty, for   *)
(* until it is staged the listener stages nothing else.                     *)
THEOREM QuietOnceStoppedAlways == Spec => QuietOnceStopped
<1>1. ASSUME IInv, Next, phase \in Ended, NEW i \in Insts \ reopened
      PROVE  Quiet(i)
  <2>1. /\ Count(staging, i) \in Nat /\ Count(staging, i) + Past(i) <= 1
        /\ Past(i) = 1 => staging = <<>>
        /\ staging \in Seq(Insts) /\ staged_drop \in [Insts -> Nat]
    BY <1>1, CountType DEF IInv, TypeOK, QuietInv
  <2>2. Listening \/ Closing
    BY <1>1, Steps, TaskFrame DEF Starting, Coordinate, SealFlags, Seal, Folded,
         Fold, Clear, Fail, AddPolicy, Empty, Phase, Ended
  <2>3. CASE Listening
    <3>1. QuietInv' /\ UNCHANGED <<phase, reopened>>
      BY <1>1, <2>3, ListeningQuiet, ListeningFrame DEF IInv
    <3>2. Count(staging', i) + Past(i)' <= 1 /\ staging' \in Seq(Insts)
      BY <1>1, <3>1, NextInv DEF QuietInv, IInv, TypeOK
    <3>3. Count(staging', i) <= 1
      BY <3>2, CountType DEF Past, One
    <3>4. staged_drop'[i] = staged_drop[i]
      <4>1. CASE StageDrops
        <5>1. stager.inst # i
          BY <2>1, <4>1, EmptySeq, DepthAssumption
             DEF StageDrops, StagerAt, Full, Past, One
        <5>2. QED
          BY <2>1, <4>1, <5>1 DEF StageDrops, Inc
      <4>2. CASE ~StageDrops
        BY <2>3, <4>2 DEF Listening, Listener, Emit, Filter, Stage,
           StageOverwrites, CountOverwritten, Ring, Publish, PublishFails,
           counts
      <4>3. QED
        BY <4>1, <4>2
    <3>5. QED
      BY <3>3, <3>4 DEF Quiet
  <2>4. CASE Closing
    <3>1. staged_drop' = staged_drop
      BY <2>4 DEF Closing, CloseAwait, CloseDrain, CloseTake, CloseDrained,
         Closed, counts
    <3>2. CASE CloseTake
      <4>1. staging' = Tail(staging) /\ staging # <<>>
        BY <3>2 DEF CloseTake
      <4>2. /\ Count(staging, i) = Count(Tail(staging), i) + One(Head(staging) = i)
            /\ Count(Tail(staging), i) \in Nat
        BY <2>1, <4>1, CountTail, CountType, HeadTailProperties
      <4>3. QED
        BY <2>1, <3>1, <4>1, <4>2 DEF Quiet, Past, One
    <3>3. CASE ~CloseTake
      <4>1. staging' = staging
        BY <2>4, <3>3 DEF Closing, CloseAwait, CloseDrain, CloseDrained,
           Closed, Work
      <4>2. QED
        BY <2>1, <3>1, <4>1 DEF Quiet, Past, One
    <3>4. QED
      BY <3>2, <3>3
  <2>5. QED
    BY <2>2, <2>3, <2>4
<1>2. IInv /\ [Next]_vars =>
        [(phase \in Ended) => \A i \in Insts \ reopened : Quiet(i)]_vars
  BY <1>1
<1>3. QED
  BY <1>2, Inductive, PTL DEF Spec, QuietOnceStopped
=============================================================================
