--------------------------- MODULE CommandsProofs ---------------------------
(* Proofs about the command channels, for any number of threads, instances, *)
(* types and methods, and for handlers that issue any commands.             *)
EXTENDS Commands, SequenceTheorems, TLAPS

-----------------------------------------------------------------------------
(* The invariant, as a predicate of the three variables' values, so that a  *)
(* step that changes two threads can be taken as two.                       *)

\* Where a publish has the semaphore of its channel.
Section == {"store", "notify", "handler", "give"}

Typed(C, H, M) ==
  /\ C \in [Threads -> Seq(Env)]
  /\ H \in [Insts -> Threads \cup {NULL}]
  /\ M \in [Insts -> Addresses \cup {NULL}]

\* An envelope that has been answered, by a handler or by zephlet_dispatch.
Served(e) ==
  IF HasHandler(e.z, e.method_id) THEN e.ran = 1
  ELSE e.ran = 0 /\ e.return_code = "ENOSYS"

\* What holds of the publish of thread t at depth d with the envelope e.
Fine(t, d, e, H, M) ==
  /\ e.pc \in Section => H[e.z] = t
  /\ e.pc = "notify" => M[e.z] = <<t, d>>
  /\ e.pc = "handler" => e.of = <<t, d>> /\ HasHandler(e.z, e.method_id)
  /\ e.req # "partial"
  /\ e.err # "0" => e.pc = "ret"
  /\ e.pc \notin {"give", "ret"} \/ e.err # "0" => e.ran = 0
  /\ e.pc \in {"give", "ret"} /\ e.err = "0" => Served(e)

AllFine(C, H, M) ==
  \A t \in Threads : \A d \in 1..Len(C[t]) : Fine(t, d, C[t][d], H, M)

\* One publish at most has the semaphore of a channel.
Alone(C) ==
  \A t, u \in Threads : \A c \in 1..Len(C[t]), d \in 1..Len(C[u]) :
    /\ C[t][c].pc \in Section /\ C[u][d].pc \in Section
    /\ C[t][c].z = C[u][d].z
    => t = u /\ c = d

Good(C, H, M) == Typed(C, H, M) /\ AllFine(C, H, M) /\ Alone(C)

IInv == Good(calls, holder, message)

\* Whoever is in a publish stays in it, and the outermost one remains that of
\* the instance and the method it began with.
SameRoots(C, D) ==
  \A u \in Threads :
    /\ Len(D[u]) > 0 <=> Len(C[u]) > 0
    /\ Len(C[u]) > 0 => /\ D[u][1].z = C[u][1].z
                        /\ D[u][1].method_id = C[u][1].method_id

-----------------------------------------------------------------------------
(* What a step may do to the envelopes of a thread.                        *)

\* The envelope at depth n of thread t is exchanged for f.
Exchange(C, t, n, f) == [C EXCEPT ![t] = [@ EXCEPT ![n] = f]]

\* What makes the exchange one of the publish's own channel, that the thread
\* has, finds free or leaves alone.
Lawful(C, H, M, t, n, f, H2, M2) ==
  /\ t \in Threads /\ n \in 1..Len(C[t]) /\ f \in Env
  /\ H2 \in [Insts -> Threads \cup {NULL}]
  /\ M2 \in [Insts -> Addresses \cup {NULL}]
  /\ f.z = C[t][n].z /\ f.method_id = C[t][n].method_id
  /\ Fine(t, n, f, H2, M2)
  /\ \A z \in Insts \ {f.z} : H2[z] = H[z] /\ M2[z] = M[z]
  /\ \/ C[t][n].pc \in Section
     \/ H[f.z] = NULL
     \/ f.pc \notin Section /\ H2 = H /\ M2 = M

(* One envelope is exchanged for another with the same instance.            *)
LEMMA ChangeLemma ==
  ASSUME NEW C, NEW H, NEW M, Good(C, H, M),
         NEW t, NEW n, NEW f, NEW H2, NEW M2,
         Lawful(C, H, M, t, n, f, H2, M2)
  PROVE  /\ Good(Exchange(C, t, n, f), H2, M2)
         /\ SameRoots(C, Exchange(C, t, n, f))
<1> DEFINE D == Exchange(C, t, n, f)
<1>0. /\ t \in Threads /\ n \in 1..Len(C[t]) /\ f \in Env
      /\ H2 \in [Insts -> Threads \cup {NULL}]
      /\ M2 \in [Insts -> Addresses \cup {NULL}]
      /\ f.z = C[t][n].z /\ f.method_id = C[t][n].method_id
      /\ Fine(t, n, f, H2, M2)
      /\ \A z \in Insts \ {f.z} : H2[z] = H[z] /\ M2[z] = M[z]
      /\ \/ C[t][n].pc \in Section
         \/ H[f.z] = NULL
         \/ f.pc \notin Section /\ H2 = H /\ M2 = M
  BY DEF Lawful
<1>1. /\ C \in [Threads -> Seq(Env)]
      /\ H \in [Insts -> Threads \cup {NULL}]
      /\ M \in [Insts -> Addresses \cup {NULL}]
  BY DEF Good, Typed
<1>2. C[t] \in Seq(Env) /\ Len(C[t]) \in Nat
  BY <1>0, <1>1
<1>3. /\ [C[t] EXCEPT ![n] = f] \in Seq(Env)
      /\ Len([C[t] EXCEPT ![n] = f]) = Len(C[t])
  BY <1>0, <1>2, ExceptSeq
<1>4. /\ D \in [Threads -> Seq(Env)]
      /\ \A u \in Threads : Len(D[u]) = Len(C[u])
      /\ D[t][n] = f
      /\ \A u \in Threads : \A d \in 1..Len(C[u]) :
           u # t \/ d # n => D[u][d] = C[u][d]
  BY <1>0, <1>1, <1>2, <1>3 DEF Exchange
<1> HIDE DEF D
<1>5. \A u \in Threads : \A d \in 1..Len(C[u]) : C[u][d] \in Env
  BY <1>1
<1>6. \A u \in Threads : \A d \in 1..Len(C[u]) : Fine(u, d, C[u][d], H, M)
  BY DEF Good, AllFine
<1>7. ASSUME NEW u \in Threads, NEW d \in 1..Len(C[u]), u # t \/ d # n,
             C[u][d].pc \in Section, C[u][d].z = f.z
      PROVE  f.pc \notin Section /\ H2 = H /\ M2 = M
  <2>1. C[t][n].pc \notin Section
    BY <1>0, <1>7 DEF Good, Alone
  <2>2. H[f.z] # NULL
    BY <1>6, <1>7, DispatchAssumption DEF Fine
  <2>3. QED
    BY <1>0, <2>1, <2>2
<1>8. Typed(D, H2, M2)
  BY <1>0, <1>4 DEF Typed
<1>9. ASSUME NEW u \in Threads, NEW d \in 1..Len(D[u])
      PROVE  Fine(u, d, D[u][d], H2, M2)
  <2>1. d \in 1..Len(C[u])
    BY <1>4
  <2>2. CASE u = t /\ d = n
    BY <1>0, <1>4, <2>2
  <2>3. CASE u # t \/ d # n
    <3>1. D[u][d] = C[u][d] /\ Fine(u, d, C[u][d], H, M) /\ C[u][d].z \in Insts
      BY <1>4, <1>5, <1>6, <2>1, <2>3 DEF Env
    <3>2. C[u][d].pc \in Section =>
            H2[C[u][d].z] = H[C[u][d].z] /\ M2[C[u][d].z] = M[C[u][d].z]
      BY <1>0, <1>7, <2>1, <2>3, <3>1
    <3>3. C[u][d].pc = "notify" => C[u][d].pc \in Section
      BY DEF Section
    <3>4. QED
      BY <3>1, <3>2, <3>3 DEF Fine
  <2>4. QED
    BY <2>2, <2>3
<1>10. ASSUME NEW u \in Threads, NEW v \in Threads,
              NEW c \in 1..Len(D[u]), NEW d \in 1..Len(D[v]),
              D[u][c].pc \in Section, D[v][d].pc \in Section,
              D[u][c].z = D[v][d].z
       PROVE  u = v /\ c = d
  <2>1. c \in 1..Len(C[u]) /\ d \in 1..Len(C[v])
    BY <1>4
  <2>2. CASE u = t /\ c = n
    BY <1>4, <1>7, <1>10, <2>1, <2>2
  <2>3. CASE v = t /\ d = n
    BY <1>4, <1>7, <1>10, <2>1, <2>3
  <2>4. CASE (u # t \/ c # n) /\ (v # t \/ d # n)
    BY <1>4, <1>10, <2>1, <2>4 DEF Good, Alone
  <2>5. QED
    BY <2>2, <2>3, <2>4
<1>11. AllFine(D, H2, M2)
  BY <1>9 DEF AllFine
<1>12. Alone(D)
  BY <1>10 DEF Alone
<1>13. Good(D, H2, M2)
  BY <1>8, <1>11, <1>12 DEF Good
<1>14. SameRoots(C, D)
  <2> SUFFICES ASSUME NEW u \in Threads
               PROVE  /\ Len(D[u]) > 0 <=> Len(C[u]) > 0
                      /\ Len(C[u]) > 0 =>
                           /\ D[u][1].z = C[u][1].z
                           /\ D[u][1].method_id = C[u][1].method_id
    BY DEF SameRoots
  <2>1. Len(C[u]) \in Nat /\ Len(D[u]) = Len(C[u])
    BY <1>1, <1>4
  <2>2. CASE u = t /\ n = 1
    BY <1>0, <1>4, <2>1, <2>2
  <2>3. CASE u # t \/ n # 1
    BY <1>4, <2>1, <2>3
  <2>4. QED
    BY <2>2, <2>3
<1>15. QED
  BY <1>13, <1>14 DEF D

(* A thread begins a publish, with a request that is not half decoded.      *)
LEMMA PushLemma ==
  ASSUME NEW C, NEW H, NEW M, Good(C, H, M), NEW t \in Threads,
         NEW z \in Insts, NEW id \in Nat, NEW req \in {"none", "whole"},
         NEW timeout \in Timeouts
  PROVE  LET D == [C EXCEPT ![t] = Append(@, Envelope(z, id, req, timeout))]
         IN  /\ Good(D, H, M)
             /\ Len(C[t]) > 0 => SameRoots(C, D)
<1> DEFINE e == Envelope(z, id, req, timeout)
           D == [C EXCEPT ![t] = Append(@, e)]
<1>1. /\ e \in Env /\ e.pc = "take" /\ e.req # "partial"
      /\ e.err = "0" /\ e.ran = 0
  <2>1. e = [z |-> z, method_id |-> id, req |-> req, timeout |-> timeout,
             pc |-> "take", of |-> NULL, err |-> "0", return_code |-> "0",
             resp |-> "none", ran |-> 0, nested |-> FALSE]
    BY DEF Envelope
  <2> HIDE DEF e
  <2>2. e \in Env
    BY <2>1 DEF Env, PCs, Codes, Responses
  <2>3. QED
    BY <2>1, <2>2
<1> HIDE DEF e
<1>2. C \in [Threads -> Seq(Env)] /\ C[t] \in Seq(Env) /\ Len(C[t]) \in Nat
  BY DEF Good, Typed
<1>3. /\ D \in [Threads -> Seq(Env)]
      /\ Len(D[t]) = Len(C[t]) + 1
      /\ D[t][Len(C[t]) + 1] = e
      /\ \A d \in 1..Len(C[t]) : D[t][d] = C[t][d]
      /\ \A u \in Threads \ {t} : D[u] = C[u]
  BY <1>1, <1>2
<1> HIDE DEF D
<1>4. ASSUME NEW u \in Threads, NEW d \in 1..Len(D[u])
      PROVE  \/ D[u][d] = e
             \/ d \in 1..Len(C[u]) /\ D[u][d] = C[u][d]
  <2>1. CASE u # t
    BY <1>3, <2>1
  <2>2. CASE u = t
    <3>1. d \in 1..Len(C[t]) \/ d = Len(C[t]) + 1
      BY <1>2, <1>3, <2>2
    <3>2. QED
      BY <1>3, <2>2, <3>1
  <2>3. QED
    BY <2>1, <2>2
<1>5. "take" \notin Section
  BY DEF Section
<1>6. AllFine(D, H, M)
  <2> SUFFICES ASSUME NEW u \in Threads, NEW d \in 1..Len(D[u])
               PROVE  Fine(u, d, D[u][d], H, M)
    BY DEF AllFine
  <2>1. CASE D[u][d] = e
    BY <1>1, <1>5, <2>1 DEF Fine
  <2>2. CASE d \in 1..Len(C[u]) /\ D[u][d] = C[u][d]
    BY <2>2 DEF Good, AllFine
  <2>3. QED
    BY <1>4, <2>1, <2>2
<1>7. Alone(D)
  <2> SUFFICES ASSUME NEW u \in Threads, NEW v \in Threads,
                      NEW c \in 1..Len(D[u]), NEW d \in 1..Len(D[v]),
                      D[u][c].pc \in Section, D[v][d].pc \in Section,
                      D[u][c].z = D[v][d].z
               PROVE  u = v /\ c = d
    BY DEF Alone
  <2>1. c \in 1..Len(C[u]) /\ D[u][c] = C[u][c]
    BY <1>1, <1>4, <1>5
  <2>2. d \in 1..Len(C[v]) /\ D[v][d] = C[v][d]
    BY <1>1, <1>4, <1>5
  <2>3. QED
    BY <2>1, <2>2 DEF Good, Alone
<1>8. Good(D, H, M)
  BY <1>3, <1>6, <1>7 DEF Good, Typed
<1>9. Len(C[t]) > 0 => SameRoots(C, D)
  <2> SUFFICES ASSUME Len(C[t]) > 0, NEW u \in Threads
               PROVE  /\ Len(D[u]) > 0 <=> Len(C[u]) > 0
                      /\ Len(C[u]) > 0 =>
                           /\ D[u][1].z = C[u][1].z
                           /\ D[u][1].method_id = C[u][1].method_id
    BY DEF SameRoots
  <2>1. D[t][1] = C[t][1] /\ Len(D[t]) > 0
    BY <1>2, <1>3
  <2>2. QED
    BY <1>3, <2>1
<1>10. QED
  BY <1>8, <1>9 DEF D, e

(* A wrapper returns.                                                       *)
LEMMA PopLemma ==
  ASSUME NEW C, NEW H, NEW M, Good(C, H, M), NEW t \in Threads,
         Len(C[t]) > 0
  PROVE  LET D == [C EXCEPT ![t] = SubSeq(@, 1, Len(C[t]) - 1)]
         IN  /\ Good(D, H, M)
             /\ Len(C[t]) > 1 => SameRoots(C, D)
<1> DEFINE D == [C EXCEPT ![t] = SubSeq(@, 1, Len(C[t]) - 1)]
<1>1. C \in [Threads -> Seq(Env)] /\ C[t] \in Seq(Env) /\ Len(C[t]) \in Nat
  BY DEF Good, Typed
<1>2. /\ SubSeq(C[t], 1, Len(C[t]) - 1) \in Seq(Env)
      /\ Len(SubSeq(C[t], 1, Len(C[t]) - 1)) = Len(C[t]) - 1
      /\ \A d \in 1..(Len(C[t]) - 1) :
           SubSeq(C[t], 1, Len(C[t]) - 1)[d] = C[t][d]
  <2> DEFINE s == C[t]
             n == Len(C[t]) - 1
  <2>1. s \in Seq(Env) /\ n \in Nat /\ n = Len(s) - 1
    BY <1>1
  <2> HIDE DEF s, n
  <2>2. \A i \in 1..n : s[i] \in Env
    BY <2>1
  <2>3. /\ SubSeq(s, 1, n) \in Seq(Env)
        /\ Len(SubSeq(s, 1, n)) = IF 1 <= n THEN n - 1 + 1 ELSE 0
        /\ \A i \in 1..(n - 1 + 1) : SubSeq(s, 1, n)[i] = s[1 + i - 1]
    BY <2>1, <2>2, SubSeqProperties
  <2>4. /\ Len(SubSeq(s, 1, n)) = n
        /\ \A i \in 1..n : SubSeq(s, 1, n)[i] = s[i]
    BY <2>1, <2>3
  <2>5. QED
    BY <2>3, <2>4 DEF s, n
<1>3. /\ D \in [Threads -> Seq(Env)]
      /\ \A u \in Threads : \A d \in 1..Len(D[u]) :
           d \in 1..Len(C[u]) /\ D[u][d] = C[u][d]
      /\ Len(D[t]) = Len(C[t]) - 1
      /\ \A u \in Threads \ {t} : D[u] = C[u]
  BY <1>1, <1>2
<1> HIDE DEF D
<1>4. AllFine(D, H, M)
  BY <1>3 DEF Good, AllFine
<1>5. Alone(D)
  <2> SUFFICES ASSUME NEW u \in Threads, NEW v \in Threads,
                      NEW c \in 1..Len(D[u]), NEW d \in 1..Len(D[v]),
                      D[u][c].pc \in Section, D[v][d].pc \in Section,
                      D[u][c].z = D[v][d].z
               PROVE  u = v /\ c = d
    BY DEF Alone
  <2>1. c \in 1..Len(C[u]) /\ D[u][c] = C[u][c]
    BY <1>3
  <2>2. d \in 1..Len(C[v]) /\ D[v][d] = C[v][d]
    BY <1>3
  <2>3. QED
    BY <2>1, <2>2 DEF Good, Alone
<1>6. Good(D, H, M)
  BY <1>3, <1>4, <1>5 DEF Good, Typed
<1>7. Len(C[t]) > 1 => SameRoots(C, D)
  <2> SUFFICES ASSUME Len(C[t]) > 1, NEW u \in Threads
               PROVE  /\ Len(D[u]) > 0 <=> Len(C[u]) > 0
                      /\ Len(C[u]) > 0 =>
                           /\ D[u][1].z = C[u][1].z
                           /\ D[u][1].method_id = C[u][1].method_id
    BY DEF SameRoots
  <2>1. 1 \in 1..Len(D[t]) /\ Len(D[t]) > 0 /\ Len(C[t]) > 0
    BY <1>1, <1>3
  <2>2. D[t][1] = C[t][1]
    BY <1>3, <2>1
  <2>3. QED
    BY <1>3, <2>1, <2>2
<1>8. QED
  BY <1>6, <1>7 DEF D

-----------------------------------------------------------------------------
(* The steps of a thread.                                                   *)

(* What the invariant says of a thread's innermost publish.                 *)
LEMMA TopLemma ==
  ASSUME IInv, NEW t \in Threads, Depth(t) > 0
  PROVE  /\ Depth(t) \in 1..Len(calls[t])
         /\ Top(t) = calls[t][Depth(t)]
         /\ Top(t) \in Env /\ Top(t).z \in Insts
         /\ Fine(t, Depth(t), Top(t), holder, message)
         /\ holder \in [Insts -> Threads \cup {NULL}]
         /\ message \in [Insts -> Addresses \cup {NULL}]
<1>1. calls \in [Threads -> Seq(Env)] /\ Depth(t) \in 1..Len(calls[t])
  BY DEF IInv, Good, Typed, Depth
<1>2. Top(t) \in Env
  BY <1>1 DEF Top
<1>3. Top(t).z \in Insts
  BY <1>2 DEF Env
<1>4. QED
  BY <1>1, <1>2, <1>3 DEF IInv, Good, AllFine, Typed, Top

(* A step of the innermost publish of a thread, that has the envelope f      *)
(* afterwards and touches no other channel than its own.                    *)
LEMMA MoveLemma ==
  ASSUME IInv, NEW t \in Threads, Depth(t) > 0,
         NEW f \in Env, f.z = Top(t).z, f.method_id = Top(t).method_id,
         calls' = Exchange(calls, t, Depth(t), f),
         NEW h \in Threads \cup {NULL},
         holder' = [holder EXCEPT ![f.z] = h],
         NEW m \in Addresses \cup {NULL},
         message' = [message EXCEPT ![f.z] = m],
         Fine(t, Depth(t), f, holder', message'),
         Top(t).pc \in Section \/ holder[f.z] = NULL
  PROVE  IInv' /\ SameRoots(calls, calls')
<1>1. /\ Depth(t) \in 1..Len(calls[t]) /\ Top(t) = calls[t][Depth(t)]
      /\ f.z \in Insts
      /\ holder \in [Insts -> Threads \cup {NULL}]
      /\ message \in [Insts -> Addresses \cup {NULL}]
  BY TopLemma
<1>2. /\ holder' \in [Insts -> Threads \cup {NULL}]
      /\ message' \in [Insts -> Addresses \cup {NULL}]
      /\ \A z \in Insts \ {f.z} :
           holder'[z] = holder[z] /\ message'[z] = message[z]
  BY <1>1
<1>3. Good(calls, holder, message)
  BY DEF IInv
<1>4. f.z = calls[t][Depth(t)].z
      /\ f.method_id = calls[t][Depth(t)].method_id
  BY <1>1
<1>5. calls[t][Depth(t)].pc \in Section \/ holder[f.z] = NULL
  BY <1>1
<1>6. Lawful(calls, holder, message, t, Depth(t), f, holder', message')
  BY <1>1, <1>2, <1>4, <1>5 DEF Lawful
<1>7. /\ Good(Exchange(calls, t, Depth(t), f), holder', message')
      /\ SameRoots(calls, Exchange(calls, t, Depth(t), f))
  BY <1>3, <1>6, ChangeLemma
<1>8. QED
  BY <1>7 DEF IInv

(* A step of the innermost publish outside the section of the semaphore.    *)
LEMMA MoveOutsideLemma ==
  ASSUME IInv, NEW t \in Threads, Depth(t) > 0,
         NEW f \in Env, f.z = Top(t).z, f.method_id = Top(t).method_id,
         f.pc \notin Section,
         calls' = Exchange(calls, t, Depth(t), f),
         UNCHANGED <<holder, message>>,
         Fine(t, Depth(t), f, holder, message)
  PROVE  IInv' /\ SameRoots(calls, calls')
<1>1. /\ Depth(t) \in 1..Len(calls[t])
      /\ f.z = calls[t][Depth(t)].z
      /\ f.method_id = calls[t][Depth(t)].method_id
      /\ holder \in [Insts -> Threads \cup {NULL}]
      /\ message \in [Insts -> Addresses \cup {NULL}]
  BY TopLemma
<1>2. Good(calls, holder, message)
  BY DEF IInv
<1>3. Lawful(calls, holder, message, t, Depth(t), f, holder, message)
  BY <1>1 DEF Lawful
<1>4. /\ Good(Exchange(calls, t, Depth(t), f), holder, message)
      /\ SameRoots(calls, Exchange(calls, t, Depth(t), f))
  BY <1>2, <1>3, ChangeLemma
<1>5. QED
  BY <1>4 DEF IInv

(* The semaphore is taken.                                                  *)
LEMMA TakeLemma ==
  ASSUME IInv, NEW t \in Threads, Take(t)
  PROVE  IInv' /\ SameRoots(calls, calls')
<1> DEFINE e == Top(t)
           f == [e EXCEPT !.pc = "store"]
<1>0. Depth(t) > 0 /\ e.pc = "take" /\ holder[e.z] = NULL
  BY DEF Take, At
<1>1. /\ e \in Env /\ e.z \in Insts
      /\ Fine(t, Depth(t), e, holder, message)
      /\ holder \in [Insts -> Threads \cup {NULL}]
      /\ message \in [Insts -> Addresses \cup {NULL}]
  BY <1>0, TopLemma
<1>2. /\ calls' = Exchange(calls, t, Depth(t), f)
      /\ holder' = [holder EXCEPT ![e.z] = t] /\ message' = message
  BY DEF Take, To, Top, Exchange
<1> HIDE DEF e
<1>3. /\ f \in Env /\ f.z = e.z /\ f.method_id = e.method_id
      /\ Fine(t, Depth(t), f, holder', message')
  BY <1>0, <1>1, <1>2 DEF Env, Fine, PCs, Section
<1>4. message' = [message EXCEPT ![f.z] = message[f.z]]
      /\ message[f.z] \in Addresses \cup {NULL}
  BY <1>1, <1>2, <1>3
<1>5. f.z = Top(t).z /\ holder[f.z] = NULL /\ f.method_id = Top(t).method_id
      /\ holder' = [holder EXCEPT ![f.z] = t]
  BY <1>0, <1>2, <1>3 DEF e
<1> HIDE DEF f
<1>6. QED
  BY <1>0, <1>2, <1>3, <1>4, <1>5, MoveLemma

(* The publish waits for the semaphore, or fails.                           *)
LEMMA NoTakeLemma ==
  ASSUME IInv, NEW t \in Threads,
         TakeBusy(t) \/ TakeWaits(t) \/ TakeTimeout(t)
  PROVE  IInv' /\ SameRoots(calls, calls')
<1> DEFINE e == Top(t)
<1>0. /\ Depth(t) > 0 /\ e.pc \in {"take", "wait"}
      /\ UNCHANGED <<holder, message>>
  BY DEF TakeBusy, TakeWaits, TakeTimeout, At
<1>1. /\ e \in Env /\ e.z \in Insts /\ Depth(t) \in 1..Len(calls[t])
      /\ Fine(t, Depth(t), e, holder, message) /\ e = calls[t][Depth(t)]
  BY <1>0, TopLemma
<1>2. ASSUME NEW f \in Env, f.z = e.z, f.method_id = e.method_id,
             f.pc \notin Section,
             Fine(t, Depth(t), f, holder, message),
             calls' = Exchange(calls, t, Depth(t), f)
      PROVE  IInv' /\ SameRoots(calls, calls')
  BY <1>0, <1>2, MoveOutsideLemma
<1> HIDE DEF e
<1>3. CASE TakeBusy(t) \/ TakeTimeout(t)
  <2>1. PICK err \in {"EBUSY", "EAGAIN"} :
          calls' = [calls EXCEPT ![t][Depth(t)].pc = "ret",
                                 ![t][Depth(t)].err = err]
    BY <1>3 DEF TakeBusy, TakeTimeout
  <2> DEFINE f == [e EXCEPT !.pc = "ret", !.err = err]
  <2>2. /\ f \in Env /\ f.z = e.z /\ f.pc \notin Section
        /\ f.method_id = e.method_id
        /\ Fine(t, Depth(t), f, holder, message)
    BY <1>0, <1>1 DEF Env, Fine, PCs, Section
  <2>3. calls' = Exchange(calls, t, Depth(t), f)
    BY <1>1, <2>1 DEF Exchange
  <2>4. QED
    BY <1>2, <2>2, <2>3
<1>4. CASE TakeWaits(t)
  <2> DEFINE f == [e EXCEPT !.pc = "wait"]
  <2>1. /\ f \in Env /\ f.z = e.z /\ f.pc \notin Section
        /\ f.method_id = e.method_id
        /\ Fine(t, Depth(t), f, holder, message)
    BY <1>0, <1>1 DEF Env, Fine, PCs, Section
  <2>2. calls' = Exchange(calls, t, Depth(t), f)
    BY <1>4 DEF TakeWaits, To, Top, e, Exchange
  <2>3. QED
    BY <1>2, <2>1, <2>2
<1>5. QED
  BY <1>3, <1>4

(* The address of the envelope is stored in the channel.                    *)
LEMMA StoreLemma ==
  ASSUME IInv, NEW t \in Threads, Store(t)
  PROVE  IInv' /\ SameRoots(calls, calls')
<1> DEFINE e == Top(t)
           f == [e EXCEPT !.pc = "notify"]
           m == <<t, Depth(t)>>
<1>0. Depth(t) > 0 /\ e.pc = "store"
  BY DEF Store, At
<1>1. /\ e \in Env /\ e.z \in Insts /\ Depth(t) \in 1..Len(calls[t])
      /\ Fine(t, Depth(t), e, holder, message) /\ e = calls[t][Depth(t)]
      /\ holder \in [Insts -> Threads \cup {NULL}]
      /\ message \in [Insts -> Addresses \cup {NULL}]
      /\ Len(calls[t]) \in Nat
  BY <1>0, TopLemma DEF IInv, Good, Typed
<1>2. /\ calls' = Exchange(calls, t, Depth(t), f)
      /\ message' = [message EXCEPT ![e.z] = m] /\ holder' = holder
  BY DEF Store, To, Top, Exchange
<1>3. m \in Addresses
  BY <1>1 DEF Addresses
<1> HIDE DEF e
<1>4. /\ f \in Env /\ f.z = e.z /\ f.method_id = e.method_id
      /\ Fine(t, Depth(t), f, holder', message')
  BY <1>0, <1>1, <1>2 DEF Env, Fine, PCs, Section
<1>5. /\ holder' = [holder EXCEPT ![f.z] = holder[f.z]]
      /\ holder[f.z] \in Threads \cup {NULL}
      /\ message' = [message EXCEPT ![f.z] = m]
  BY <1>1, <1>2, <1>4
<1>6. f.z = Top(t).z /\ f.method_id = Top(t).method_id /\ Top(t).pc \in Section
  BY <1>0, <1>4 DEF e, Section
<1> HIDE DEF f, m
<1>7. QED
  BY <1>0, <1>2, <1>3, <1>4, <1>5, <1>6, MoveLemma

(* The semaphore goes back, or to a waiter.                                 *)
LEMMA GiveLemma ==
  ASSUME IInv, NEW t \in Threads, Give(t)
  PROVE  IInv' /\ SameRoots(calls, calls')
<1> DEFINE e == Top(t)
           n == Depth(t)
           f == [e EXCEPT !.pc = "ret"]
           C == Exchange(calls, t, n, f)
           H == [holder EXCEPT ![e.z] = NULL]
           M == [message EXCEPT ![e.z] = NULL]
<1>0. n > 0 /\ e.pc = "give" /\ message' = M
  BY DEF Give, At
<1>1. /\ e \in Env /\ e.z \in Insts /\ n \in 1..Len(calls[t])
      /\ Fine(t, n, e, holder, message) /\ e = calls[t][n]
      /\ holder \in [Insts -> Threads \cup {NULL}]
      /\ message \in [Insts -> Addresses \cup {NULL}]
      /\ calls \in [Threads -> Seq(Env)]
  BY <1>0, TopLemma DEF IInv, Good, Typed
<1>2. Good(calls, holder, message)
  BY DEF IInv
<1>3. To(t, "ret") = C
  BY DEF To, Top, Exchange
<1> HIDE DEF e, n
<1>4. /\ f \in Env /\ f.z = e.z /\ f.method_id = e.method_id
      /\ f.pc = "ret" /\ Fine(t, n, f, H, M)
  BY <1>0, <1>1 DEF Env, Fine, PCs, Section, Served
<1>5. /\ H \in [Insts -> Threads \cup {NULL}] /\ H[f.z] = NULL
      /\ M \in [Insts -> Addresses \cup {NULL}]
      /\ \A z \in Insts \ {f.z} : H[z] = holder[z] /\ M[z] = message[z]
      /\ f.z = calls[t][n].z /\ calls[t][n].pc \in Section
      /\ f.method_id = calls[t][n].method_id
  BY <1>0, <1>1, <1>4 DEF Section
<1> HIDE DEF H, M
<1>6. Good(C, H, M) /\ SameRoots(calls, C)
  <2> HIDE DEF f
  <2>1. Lawful(calls, holder, message, t, n, f, H, M)
    BY <1>1, <1>4, <1>5 DEF Lawful
  <2>2. QED
    BY <1>2, <2>1, ChangeLemma
<1>7. CASE holder' = H /\ calls' = C
  BY <1>0, <1>6, <1>7 DEF IInv
<1>8. ASSUME NEW w \in Waiters(e.z), holder' = [holder EXCEPT ![e.z] = w],
             calls' = [C EXCEPT ![w][Depth(w)].pc = "store"]
      PROVE  IInv' /\ SameRoots(calls, calls')
  <2> DEFINE a == C[w][Depth(w)]
             g == [a EXCEPT !.pc = "store"]
             G == [H EXCEPT ![e.z] = w]
  <2>1. /\ w \in Threads /\ Depth(w) > 0
        /\ Top(w).pc = "wait" /\ Top(w).z = e.z
    BY <1>8 DEF Waiters, At
  <2>2. Depth(w) \in 1..Len(calls[w]) /\ Top(w) = calls[w][Depth(w)]
    BY <2>1, TopLemma
  <2>3. w # t
    BY <1>0, <2>1 DEF e
  <2>4. a = Top(w) /\ Depth(w) \in 1..Len(C[w])
    BY <1>1, <2>1, <2>2, <2>3 DEF Exchange
  <2>5. a \in Env /\ Fine(w, Depth(w), a, holder, message)
    BY <2>1, <2>4, TopLemma
  <2>6. G = [holder EXCEPT ![e.z] = w]
    BY <1>1 DEF H
  <2>7. calls' = Exchange(C, w, Depth(w), g)
    BY <1>8 DEF Exchange
  <2>8. a.pc = "wait" /\ a.z = e.z
    BY <2>1, <2>4
  <2> HIDE DEF a, C
  <2>9. /\ g \in Env /\ g.z = e.z /\ g.method_id = a.method_id
        /\ Fine(w, Depth(w), g, G, M)
    BY <1>1, <1>5, <2>1, <2>5, <2>6, <2>8 DEF Env, Fine, PCs, Section
  <2>10. /\ G \in [Insts -> Threads \cup {NULL}]
         /\ \A z \in Insts \ {g.z} : G[z] = H[z] /\ M[z] = M[z]
         /\ H[g.z] = NULL /\ g.z = C[w][Depth(w)].z
         /\ g.method_id = C[w][Depth(w)].method_id
    BY <1>4, <1>5, <2>1, <2>8, <2>9 DEF a
  <2> HIDE DEF g, G
  <2>11. Lawful(C, H, M, w, Depth(w), g, G, M)
    BY <1>5, <2>1, <2>4, <2>9, <2>10 DEF Lawful
  <2>12. /\ Good(Exchange(C, w, Depth(w), g), G, M)
         /\ SameRoots(C, Exchange(C, w, Depth(w), g))
    BY <1>6, <2>11, ChangeLemma
  <2>13. SameRoots(calls, Exchange(C, w, Depth(w), g))
    BY <1>6, <2>12 DEF SameRoots
  <2>14. QED
    BY <1>0, <1>8, <2>6, <2>7, <2>12, <2>13 DEF IInv
<1>9. QED
  BY <1>3, <1>7, <1>8 DEF Give, e, H

(* A step of the innermost publish that has the semaphore and leaves the    *)
(* channel alone.                                                           *)
LEMMA MoveInsideLemma ==
  ASSUME IInv, NEW t \in Threads, Depth(t) > 0, Top(t).pc \in Section,
         NEW f \in Env, f.z = Top(t).z, f.method_id = Top(t).method_id,
         calls' = Exchange(calls, t, Depth(t), f),
         UNCHANGED <<holder, message>>,
         Fine(t, Depth(t), f, holder, message)
  PROVE  IInv' /\ SameRoots(calls, calls')
<1>1. /\ f.z \in Insts
      /\ holder \in [Insts -> Threads \cup {NULL}]
      /\ message \in [Insts -> Addresses \cup {NULL}]
  BY TopLemma
<1>2. /\ holder' = [holder EXCEPT ![f.z] = holder[f.z]]
      /\ holder[f.z] \in Threads \cup {NULL}
  BY <1>1
<1>3. /\ message' = [message EXCEPT ![f.z] = message[f.z]]
      /\ message[f.z] \in Addresses \cup {NULL}
  BY <1>1
<1>4. Fine(t, Depth(t), f, holder', message')
  OBVIOUS
<1>5. QED
  BY <1>2, <1>3, <1>4, MoveLemma

(* The listener finds the row of its own envelope's method.                 *)
LEMMA NotifyLemma ==
  ASSUME IInv, NEW t \in Threads, Notify(t) \/ NotifyNoHandler(t)
  PROVE  IInv' /\ SameRoots(calls, calls')
<1> DEFINE e == Top(t)
           n == Depth(t)
<1>0. n > 0 /\ e.pc = "notify" /\ UNCHANGED <<holder, message>>
  BY DEF Notify, NotifyNoHandler, At
<1>1. /\ e \in Env /\ e.z \in Insts /\ n \in 1..Len(calls[t])
      /\ Fine(t, n, e, holder, message) /\ e = calls[t][n]
      /\ Len(calls[t]) \in Nat
  BY <1>0, TopLemma DEF IInv, Good, Typed
<1>2. message[e.z] = <<t, n>> /\ <<t, n>> \in Addresses
  BY <1>0, <1>1 DEF Fine, Addresses
<1>3. Stored(e.z) = e
  BY <1>1, <1>2 DEF Stored
<1>4. e.pc \in Section
  BY <1>0 DEF Section
<1> HIDE DEF e, n
<1>5. CASE Notify(t)
  <2> DEFINE f == [e EXCEPT !.pc = "handler", !.of = <<t, n>>]
  <2>1. /\ HasHandler(e.z, e.method_id)
        /\ calls' = [calls EXCEPT ![t][n].pc = "handler",
                                  ![t][n].of = <<t, n>>]
    BY <1>2, <1>3, <1>5 DEF Notify, e, n
  <2>2. calls' = Exchange(calls, t, n, f)
    BY <1>1, <2>1 DEF Exchange
  <2>3. /\ f \in Env /\ f.z = e.z /\ f.method_id = e.method_id
        /\ Fine(t, n, f, holder, message)
    BY <1>0, <1>1, <1>2, <2>1 DEF Env, Fine, PCs, Section
  <2> HIDE DEF f
  <2>4. QED
    BY <1>0, <1>4, <2>2, <2>3, MoveInsideLemma DEF e, n
<1>6. CASE NotifyNoHandler(t)
  <2> DEFINE f == [e EXCEPT !.pc = "give", !.return_code = "ENOSYS"]
  <2>1. /\ ~HasHandler(e.z, e.method_id)
        /\ calls' = [To(t, "give") EXCEPT
                       ![<<t, n>>[1]][<<t, n>>[2]].return_code = "ENOSYS"]
    BY <1>2, <1>3, <1>6 DEF NotifyNoHandler, e
  <2>2. calls' = Exchange(calls, t, n, f)
    BY <1>1, <2>1 DEF Exchange, To, n
  <2>3. /\ f \in Env /\ f.z = e.z /\ f.method_id = e.method_id
        /\ Fine(t, n, f, holder, message)
    BY <1>0, <1>1, <2>1 DEF Env, Fine, PCs, Section, Served, Codes
  <2> HIDE DEF f
  <2>4. QED
    BY <1>0, <1>4, <2>2, <2>3, MoveInsideLemma DEF e, n
<1>7. QED
  BY <1>5, <1>6

\* Of two exchanges of one envelope the second counts.
LEMMA TwiceLemma ==
  ASSUME NEW C \in [Threads -> Seq(Env)], NEW t \in Threads,
         NEW n \in 1..Len(C[t]), NEW f, NEW g
  PROVE  /\ Exchange(C, t, n, f)[t][n] = f
         /\ Exchange(Exchange(C, t, n, f), t, n, g) = Exchange(C, t, n, g)
<1> DEFINE s == C[t]
<1>1. s \in Seq(Env) /\ n \in DOMAIN s /\ t \in DOMAIN C
  OBVIOUS
<1>2. Exchange(C, t, n, f)[t] = [s EXCEPT ![n] = f]
  BY <1>1 DEF Exchange
<1>3. Exchange(C, t, n, f)[t][n] = f
  BY <1>1, <1>2
<1>4. [[s EXCEPT ![n] = f] EXCEPT ![n] = g] = [s EXCEPT ![n] = g]
  BY <1>1
<1> HIDE DEF s
<1>5. Exchange(Exchange(C, t, n, f), t, n, g)
        = [Exchange(C, t, n, f) EXCEPT ![t] = [s EXCEPT ![n] = g]]
  BY <1>2, <1>4 DEF Exchange
<1>6. QED
  BY <1>3, <1>5 DEF Exchange, s

\* The envelope f is e with the outcome of its handler.
WithOutcome(f, e, o) ==
  /\ f.z = e.z /\ f.method_id = e.method_id /\ f.timeout = e.timeout
  /\ f.req = e.req /\ f.pc = "give" /\ f.err = e.err
  /\ f.return_code = o.code /\ f.resp = o.resp /\ f.ran = e.ran + 1

(* The handler returns, into its own envelope.                              *)
LEMMA HandlerReturnsShape ==
  ASSUME IInv, NEW t \in Threads, HandlerReturns(t)
  PROVE  \E o \in Outcomes, f \in Env :
           /\ calls' = Exchange(calls, t, Depth(t), f)
           /\ WithOutcome(f, Top(t), o)
<1> DEFINE e == Top(t)
           n == Depth(t)
<1>0. n > 0 /\ e.pc = "handler" /\ UNCHANGED <<holder, message>>
  BY DEF HandlerReturns, At
<1>1. /\ e \in Env /\ e.z \in Insts /\ n \in 1..Len(calls[t])
      /\ Fine(t, n, e, holder, message) /\ e = calls[t][n]
      /\ calls \in [Threads -> Seq(Env)]
  BY <1>0, TopLemma DEF IInv, Good, Typed
<1>2. e.of = <<t, n>> /\ e.pc \in Section
  BY <1>0, <1>1 DEF Fine, Section
<1> DEFINE R(a, b, o) == [To(t, "give") EXCEPT ![a][b].return_code = o.code,
                                               ![a][b].resp = o.resp,
                                               ![a][b].ran = @ + 1]
<1>3. PICK o \in Outcomes : calls' = R(t, n, o)
  <2>1. \E o \in Outcomes : calls' = R(e.of[1], e.of[2], o)
    BY DEF HandlerReturns
  <2>2. e.of[1] = t /\ e.of[2] = n
    BY <1>2
  <2> HIDE DEF R, e, n
  <2>3. QED
    BY <2>1, <2>2
<1> HIDE DEF e, n
<1> DEFINE f1 == [e EXCEPT !.pc = "give"]
           f2 == [f1 EXCEPT !.return_code = o.code]
           f3 == [f2 EXCEPT !.resp = o.resp]
           f  == [f3 EXCEPT !.ran = @ + 1]
<1>4. calls' = Exchange(calls, t, n, f)
  <2> DEFINE C1 == To(t, "give")
             C2 == [C1 EXCEPT ![t][n].return_code = o.code]
             C3 == [C2 EXCEPT ![t][n].resp = o.resp]
             C4 == [C3 EXCEPT ![t][n].ran = @ + 1]
  <2>0. \A a, g : /\ Exchange(calls, t, n, a)[t][n] = a
                  /\ Exchange(Exchange(calls, t, n, a), t, n, g)
                       = Exchange(calls, t, n, g)
    BY <1>1, TwiceLemma
  <2>1. calls' = C4
    <3> HIDE DEF f1, f2, f3, f
    <3>1. R(t, n, o) = [C1 EXCEPT ![t][n].return_code = o.code,
                                  ![t][n].resp = o.resp, ![t][n].ran = @ + 1]
      OBVIOUS
    <3> HIDE DEF R, C1
    <3>2. [C1 EXCEPT ![t][n].return_code = o.code,
                     ![t][n].resp = o.resp, ![t][n].ran = @ + 1] = C4
      OBVIOUS
    <3> HIDE DEF C4
    <3>3. QED
      BY <1>3, <3>1, <3>2
  <2>2. C1 = Exchange(calls, t, n, f1)
    BY <1>1 DEF Exchange, To, n
  <2>3. C2 = Exchange(C1, t, n, [C1[t][n] EXCEPT !.return_code = o.code])
    BY DEF Exchange
  <2>4. C3 = Exchange(C2, t, n, [C2[t][n] EXCEPT !.resp = o.resp])
    BY DEF Exchange
  <2>5. C4 = Exchange(C3, t, n, [C3[t][n] EXCEPT !.ran = @ + 1])
    BY DEF Exchange
  <2> HIDE DEF C1, C2, C3, C4
  <2>6. C1[t][n] = f1
    BY <2>0, <2>2
  <2>7. C2 = Exchange(calls, t, n, f2) /\ C2[t][n] = f2
    <3>1. C2 = Exchange(C1, t, n, f2)
      BY <2>3, <2>6
    <3> HIDE DEF f1, f2
    <3>2. QED
      BY <2>0, <2>2, <3>1
  <2>8. C3 = Exchange(calls, t, n, f3) /\ C3[t][n] = f3
    <3> HIDE DEF f2
    <3>1. C3 = Exchange(C2, t, n, f3)
      BY <2>4, <2>7
    <3> HIDE DEF f3
    <3>2. QED
      BY <2>0, <2>7, <3>1
  <2>9. C4 = Exchange(calls, t, n, f)
    <3> HIDE DEF f3
    <3>1. C4 = Exchange(C3, t, n, f)
      BY <2>5, <2>8
    <3> HIDE DEF f
    <3>2. QED
      BY <2>0, <2>8, <3>1
  <2>10. QED
    BY <2>1, <2>9
<1>5. f1 \in Env /\ f1.pc = "give" /\ f1.err = e.err /\ f1.ran = e.ran
      /\ f1.z = e.z /\ f1.method_id = e.method_id /\ f1.req = e.req
      /\ f1.timeout = e.timeout
  BY <1>0, <1>1 DEF Env, PCs
<1> HIDE DEF f1
<1>6. f3 \in Env /\ f3.pc = "give" /\ f3.err = e.err /\ f3.ran = e.ran
      /\ f3.z = e.z /\ f3.method_id = e.method_id /\ f3.req = e.req
      /\ f3.timeout = e.timeout
      /\ f3.return_code = o.code /\ f3.resp = o.resp
  <2>1. o.code \in Codes /\ o.resp \in Responses
    BY DEF Codes, Responses
  <2>2. QED
    BY <1>5, <2>1 DEF Env
<1> HIDE DEF f3
<1>7. f \in Env /\ WithOutcome(f, e, o)
  <2>1. f3.ran \in Nat
    BY <1>6 DEF Env
  <2>2. f \in Env
    BY <1>6, <2>1 DEF Env
  <2>3. /\ f.z = f3.z /\ f.method_id = f3.method_id /\ f.req = f3.req
        /\ f.timeout = f3.timeout /\ f.pc = f3.pc /\ f.err = f3.err
        /\ f.return_code = f3.return_code /\ f.resp = f3.resp
        /\ f.ran = f3.ran + 1
    BY <1>6 DEF Env
  <2> HIDE DEF f
  <2>4. QED
    BY <1>6, <2>2, <2>3 DEF WithOutcome
<1> HIDE DEF f
<1>8. QED
  BY <1>4, <1>7 DEF e, n

(* Its publish goes on to give the semaphore back.                          *)
LEMMA HandlerReturnsLemma ==
  ASSUME IInv, NEW t \in Threads, HandlerReturns(t)
  PROVE  IInv' /\ SameRoots(calls, calls')
<1>1. PICK o \in Outcomes, f \in Env :
        /\ calls' = Exchange(calls, t, Depth(t), f)
        /\ WithOutcome(f, Top(t), o)
  BY HandlerReturnsShape
<1>2. /\ Depth(t) > 0 /\ Top(t).pc = "handler" /\ Top(t).pc \in Section
      /\ UNCHANGED <<holder, message>>
  BY DEF HandlerReturns, At, Section
<1>3. Top(t) \in Env /\ Fine(t, Depth(t), Top(t), holder, message)
  BY <1>2, TopLemma
<1>4. HasHandler(f.z, f.method_id) /\ f.ran = 1 /\ f.err = "0"
  BY <1>1, <1>2, <1>3 DEF Fine, WithOutcome, Section
<1>5. Fine(t, Depth(t), f, holder, message)
  BY <1>1, <1>2, <1>3, <1>4 DEF Fine, Served, WithOutcome
<1>6. QED
  BY <1>1, <1>2, <1>5, MoveInsideLemma DEF WithOutcome

(* A handler begins a command of its own, or goes on after it.              *)
LEMMA HandlerCallsLemma ==
  ASSUME IInv, NEW t \in Threads, HandlerCalls(t)
  PROVE  IInv' /\ SameRoots(calls, calls')
<1> DEFINE e == Top(t)
           n == Depth(t)
           f == [e EXCEPT !.nested = TRUE]
           C == Exchange(calls, t, n, f)
<1>0. n > 0 /\ e.pc = "handler" /\ UNCHANGED <<holder, message>>
  BY DEF HandlerCalls, At
<1>1. /\ e \in Env /\ e.z \in Insts /\ n \in 1..Len(calls[t])
      /\ Fine(t, n, e, holder, message) /\ e = calls[t][n]
      /\ holder \in [Insts -> Threads \cup {NULL}]
      /\ message \in [Insts -> Addresses \cup {NULL}]
      /\ calls \in [Threads -> Seq(Env)]
  BY <1>0, TopLemma DEF IInv, Good, Typed
<1>2. Good(calls, holder, message)
  BY DEF IInv
<1>3. PICK c \in Nested :
        calls' = [calls EXCEPT ![t] =
                    Append([@ EXCEPT ![n].nested = TRUE],
                           Envelope(c.z, c.method_id, "whole", c.timeout))]
  BY DEF HandlerCalls
<1> HIDE DEF e, n
<1>4. c.z \in Insts /\ c.method_id \in Nat /\ c.timeout \in Timeouts
  BY DispatchAssumption
<1>5. /\ f \in Env /\ f.z = e.z /\ f.method_id = e.method_id
      /\ Fine(t, n, f, holder, message)
  BY <1>0, <1>1 DEF Env, Fine, PCs, Section, Served
<1>6. /\ calls[t][n].pc \in Section /\ f.z = calls[t][n].z
      /\ f.method_id = calls[t][n].method_id
  BY <1>0, <1>1, <1>5 DEF Section
<1>7. calls' = [C EXCEPT ![t] =
                  Append(@, Envelope(c.z, c.method_id, "whole", c.timeout))]
  <2> DEFINE a == Envelope(c.z, c.method_id, "whole", c.timeout)
  <2> HIDE DEF a
  <2>1. calls' = [calls EXCEPT ![t] = Append([@ EXCEPT ![n].nested = TRUE], a)]
    BY <1>3 DEF a
  <2>2. calls' = [C EXCEPT ![t] = Append(@, a)]
    BY <1>1, <2>1 DEF Exchange
  <2>3. QED
    BY <2>2 DEF a
<1> HIDE DEF f
<1>8. Lawful(calls, holder, message, t, n, f, holder, message)
  BY <1>1, <1>5, <1>6 DEF Lawful
<1>9. Good(C, holder, message) /\ SameRoots(calls, C)
  BY <1>2, <1>8, ChangeLemma
<1>10. t \in Threads /\ Len(C[t]) > 0
  BY <1>1, <1>9 DEF SameRoots
<1> HIDE DEF C
<1>11. Good([C EXCEPT ![t] =
               Append(@, Envelope(c.z, c.method_id, "whole", c.timeout))],
            holder, message)
       /\ SameRoots(C, [C EXCEPT ![t] =
               Append(@, Envelope(c.z, c.method_id, "whole", c.timeout))])
  BY <1>4, <1>9, <1>10, PushLemma
<1>12. SameRoots(calls, calls')
  BY <1>7, <1>9, <1>11 DEF SameRoots
<1>13. QED
  BY <1>0, <1>7, <1>11, <1>12 DEF IInv

(* A caller goes on after its wrapper has returned.                         *)
LEMMA PopStepLemma ==
  ASSUME IInv, NEW t \in Threads, Depth(t) > 0,
         calls' = Pop(t), UNCHANGED <<holder, message>>
  PROVE  IInv' /\ (Depth(t) > 1 => SameRoots(calls, calls'))
<1>1. Good(calls, holder, message) /\ Len(calls[t]) > 0
  BY DEF IInv, Depth
<1>2. /\ Good([calls EXCEPT ![t] = SubSeq(@, 1, Len(calls[t]) - 1)],
              holder, message)
      /\ Len(calls[t]) > 1 =>
           SameRoots(calls,
                     [calls EXCEPT ![t] = SubSeq(@, 1, Len(calls[t]) - 1)])
  BY <1>1, PopLemma
<1>3. calls' = [calls EXCEPT ![t] = SubSeq(@, 1, Len(calls[t]) - 1)]
  BY DEF Pop, Depth
<1>4. IInv'
  BY <1>2, <1>3 DEF IInv
<1>5. Depth(t) > 1 => SameRoots(calls, calls')
  BY <1>2, <1>3 DEF Depth
<1>6. QED
  BY <1>4, <1>5

(* What the threads do inside a publish.                                    *)
LEMMA StepLemma ==
  ASSUME IInv, NEW t \in Threads, Step(t)
  PROVE  IInv' /\ SameRoots(calls, calls')
<1>1. CASE Take(t)
  BY <1>1, TakeLemma
<1>2. CASE TakeBusy(t) \/ TakeWaits(t) \/ TakeTimeout(t)
  BY <1>2, NoTakeLemma
<1>3. CASE Store(t)
  BY <1>3, StoreLemma
<1>4. CASE Give(t)
  BY <1>4, GiveLemma
<1>5. CASE Notify(t) \/ NotifyNoHandler(t)
  BY <1>5, NotifyLemma
<1>6. CASE HandlerCalls(t)
  BY <1>6, HandlerCallsLemma
<1>7. CASE HandlerResumes(t)
  BY <1>7, PopStepLemma DEF HandlerResumes, At
<1>8. CASE HandlerReturns(t)
  BY <1>8, HandlerReturnsLemma
<1>9. QED
  BY <1>1, <1>2, <1>3, <1>4, <1>5, <1>6, <1>7, <1>8 DEF Step

(* A frontend dispatches a request only when it is not half decoded.        *)
LEMMA CoapLemma ==
  ASSUME IInv, Coap
  PROVE  IInv'
<1>1. CASE UNCHANGED channels
  BY <1>1 DEF IInv, channels
<1>2. ASSUME NEW req \in Requests, CoapPost(req)
      PROVE  IInv'
  <2>1. /\ req.kind = "post" /\ Refusal(req) = "0"
        /\ UNCHANGED <<holder, message>>
        /\ calls' = [calls EXCEPT ![coapThread] =
             Append(@, Envelope(req.inst, Command(req).id, Decoded(req),
                                CoapTimeout))]
    BY <1>2 DEF CoapPost, Push
  <2>2. Decoded(req) \in {"none", "whole"}
    BY <2>1 DEF Refusal, Decoded
  <2>3. /\ req.inst \in Insts /\ Command(req).id \in Nat
        /\ CoapTimeout \in Timeouts /\ coapThread \in Threads
    BY <2>1, CallsAssumption, CoapAssumption
  <2>4. Good([calls EXCEPT ![coapThread] =
               Append(@, Envelope(req.inst, Command(req).id, Decoded(req),
                                  CoapTimeout))], holder, message)
    BY <2>2, <2>3, PushLemma DEF IInv
  <2>5. QED
    BY <2>1, <2>4 DEF IInv
<1>3. CASE CoapReply
  BY <1>3, CoapAssumption, PopStepLemma DEF CoapReply
<1>4. QED
  BY <1>1, <1>2, <1>3 DEF Coap, CoapRefuse, CoapDiscover, CoapNext

(* The shell dispatches a line only when it is parsed to its end.           *)
LEMMA ShellLemma ==
  ASSUME IInv, Shell
  PROVE  IInv'
<1>1. CASE UNCHANGED channels
  BY <1>1 DEF IInv, channels
<1>2. ASSUME NEW line \in Lines, Call(line)
      PROVE  IInv'
  <2>1. /\ ~Shape(line).req \/ Parsed(line)
        /\ UNCHANGED <<holder, message>>
        /\ calls' = [calls EXCEPT ![shellThread] =
             Append(@, Envelope(line.z, Shape(line).id, Request(line),
                                ShellTimeout))]
    BY <1>2 DEF Call, Push
  <2>2. Request(line) \in {"none", "whole"}
    BY <2>1 DEF Request, Parsed
  <2>3. /\ line.z \in Insts /\ Shape(line).id \in Nat
        /\ ShellTimeout \in Timeouts /\ shellThread \in Threads
    BY CallsAssumption, ShellAssumption
  <2>4. Good([calls EXCEPT ![shellThread] =
               Append(@, Envelope(line.z, Shape(line).id, Request(line),
                                  ShellTimeout))], holder, message)
    BY <2>2, <2>3, PushLemma DEF IInv
  <2>5. QED
    BY <2>1, <2>4 DEF IInv
<1>3. CASE Return
  BY <1>3, ShellAssumption, PopStepLemma DEF Return
<1>4. QED
  BY <1>1, <1>2, <1>3
     DEF Shell, Usage, PrintBlock, PrettyOnly, NotPrettyOnly, PrintLine, Fmt,
         Prompt

-----------------------------------------------------------------------------
(* The invariant holds initially and is kept.                               *)

(* No publish is in progress, no semaphore taken.                           *)
LEMMA InitLemma == Init => IInv
<1> SUFFICES ASSUME Init PROVE IInv
  OBVIOUS
<1>1. /\ calls = [t \in Threads |-> <<>>]
      /\ holder = [z \in Insts |-> NULL] /\ message = [z \in Insts |-> NULL]
  BY DEF Init, DispatchInit
<1>2. Typed(calls, holder, message)
  BY <1>1 DEF Typed
<1>3. \A t \in Threads : 1..Len(calls[t]) = {}
  BY <1>1
<1>4. AllFine(calls, holder, message) /\ Alone(calls)
  BY <1>3 DEF AllFine, Alone
<1>5. QED
  BY <1>2, <1>4 DEF IInv, Good

(* Every step of the system keeps the invariant.                            *)
LEMMA NextLemma == IInv /\ [Next]_vars => IInv'
<1> SUFFICES ASSUME IInv, [Next]_vars PROVE IInv'
  OBVIOUS
<1>1. CASE UNCHANGED channels
  BY <1>1 DEF IInv, channels
<1>2. ASSUME NEW t \in Threads, Step(t)
      PROVE  IInv'
  BY <1>2, StepLemma
<1>3. QED
  BY <1>1, <1>2, CoapLemma, ShellLemma DEF Next, vars

(* The invariant holds in every reachable state.                            *)
LEMMA AlwaysIInv == Spec => []IInv
BY InitLemma, NextLemma, PTL DEF Spec

-----------------------------------------------------------------------------
(* The properties.                                                          *)

(* A place is a thread and a depth of its stack.                            *)
LEMMA PlacesLemma ==
  ASSUME NEW p \in Places
  PROVE  /\ p[1] \in Threads /\ p[2] \in 1..Len(calls[p[1]])
         /\ p = <<p[1], p[2]>>
         /\ At2(p) = calls[p[1]][p[2]]
<1>1. PICK t \in Threads : p \in {t} \X (1..Depth(t))
  BY DEF Places
<1>2. QED
  BY <1>1 DEF Depth, At2

(* What the invariant says of the publish at a place.                       *)
LEMMA PlaceLemma ==
  ASSUME IInv, NEW p \in Places
  PROVE  /\ At2(p) \in Env
         /\ Fine(p[1], p[2], At2(p), holder, message)
<1>1. p[1] \in Threads /\ p[2] \in 1..Len(calls[p[1]])
      /\ At2(p) = calls[p[1]][p[2]]
  BY PlacesLemma
<1>2. calls \in [Threads -> Seq(Env)]
  BY DEF IInv, Good, Typed
<1>3. calls[p[1]][p[2]] \in Env
  BY <1>1, <1>2
<1>4. QED
  BY <1>1, <1>3 DEF IInv, Good, AllFine

\* However many threads issue commands, and whatever commands the handlers
\* issue in their turn, no two handlers of one instance run at a time: the
\* listener runs with the semaphore of the channel held.
THEOREM ExclusionTheorem == Spec => []HandlersExclusive
<1>1. IInv => HandlersExclusive
  <2> SUFFICES ASSUME IInv, NEW p \in Places, NEW q \in Places,
                      At2(p).pc = "handler", At2(q).pc = "handler",
                      At2(p).z = At2(q).z
               PROVE  p = q
    BY DEF HandlersExclusive
  <2>1. p[1] = q[1] /\ p[2] = q[2]
    BY PlacesLemma DEF IInv, Good, Alone, Section
  <2>2. QED
    BY <2>1, PlacesLemma
<1>2. QED
  BY <1>1, AlwaysIInv, PTL

\* The address that the listener reads from the channel is that of its own
\* publish, and what stands there was decoded or parsed to its end.
THEOREM OwnRequestTheorem == Spec => []OwnWholeRequest
<1>1. IInv => OwnWholeRequest
  <2> SUFFICES ASSUME IInv, NEW p \in Places, At2(p).pc = "handler"
               PROVE  At2(p).of = p /\ At2(p).req # "partial"
    BY DEF OwnWholeRequest
  <2>1. Fine(p[1], p[2], At2(p), holder, message)
    BY PlaceLemma
  <2>2. QED
    BY <2>1, PlacesLemma DEF Fine
<1>2. QED
  BY <1>1, AlwaysIInv, PTL

\* A wrapper returns an error of the publish only if no handler has run for
\* its envelope, and otherwise after the handler of its method ran once, or
\* with ENOSYS where the table has none.
THEOREM AnswerTheorem == Spec => []AnswerIsOwn
<1>1. IInv => AnswerIsOwn
  <2> SUFFICES ASSUME IInv, NEW p \in Places, At2(p).pc = "ret"
               PROVE  LET env == At2(p) IN
                      IF env.err # "0" THEN env.ran = 0
                      ELSE IF env.method_id \in DOMAIN methods[api[env.z]] \ {0}
                      THEN env.ran = 1
                      ELSE env.ran = 0 /\ env.return_code = "ENOSYS"
    BY DEF AnswerIsOwn
  <2> DEFINE e == At2(p)
  <2>1. e \in Env /\ Fine(p[1], p[2], e, holder, message)
    BY PlaceLemma
  <2> HIDE DEF e
  <2>2. e.z \in Insts /\ e.pc = "ret"
    BY <2>1 DEF Env, e
  <2>3. HasHandler(e.z, e.method_id)
          <=> e.method_id \in DOMAIN methods[api[e.z]] \ {0}
    BY <2>2, TableAssumption DEF HasHandler, InTable, Row
  <2>4. IF e.err # "0" THEN e.ran = 0 ELSE Served(e)
    BY <2>1, <2>2 DEF Fine
  <2>5. QED
    BY <2>3, <2>4 DEF Served, e
<1>2. QED
  BY <1>1, AlwaysIInv, PTL

=============================================================================
