------------------------------ MODULE Dispatch ------------------------------
(***************************************************************************)
(* The command channel of the instances: zephlet_dispatch (zephlet.c) and  *)
(* the listener, trampoline and wrappers generated for a type              *)
(* (zephlet_interface.c.jinja).                                            *)
(*                                                                         *)
(* A caller puts an envelope on its stack and publishes its address.  zbus *)
(* takes the semaphore of the channel, stores the address in the channel,  *)
(* runs the listener on the caller's own thread and gives the semaphore    *)
(* back: a handler runs with its channel held, and a handler that issues a *)
(* command publishes from inside a publish.  The envelopes of a thread     *)
(* form its stack; an envelope is known by its thread and its depth.       *)
(*                                                                         *)
(* A request is told apart by its being complete only, a response by what  *)
(* a frontend does with it, a timeout by its class.                        *)
(***************************************************************************)
EXTENDS Naturals, Sequences, FiniteSets

CONSTANTS
  Threads,   \* threads that issue commands
  Insts,     \* zephlet instances
  api,       \* the type of each instance, or NULL
  methods,   \* per type, its method table from 0, each row a handler or NULL
  Nested,    \* commands that handlers issue, by the instance of the handler
  Outcomes,  \* what a handler may return: its code and its response
  NULL

Timeouts == {"none", "finite", "forever"}

ASSUME DispatchAssumption ==
  /\ NULL \notin Threads
  /\ \A z \in Insts : api[z] = NULL \/ api[z] \in DOMAIN methods
  /\ \A c \in Nested :
       c.z \in Insts /\ c.method_id \in Nat /\ c.timeout \in Timeouts

VARIABLES
  calls,    \* per thread, the envelopes it has published and not yet left
  holder,   \* per channel, the thread that has its semaphore
  message   \* per channel, the address that zbus stored last

channels == <<calls, holder, message>>

Envelope(z, id, req, timeout) ==
  [z |-> z, method_id |-> id, req |-> req, timeout |-> timeout,
   pc |-> "take", of |-> NULL, err |-> "0", return_code |-> "0",
   resp |-> "none", ran |-> 0, nested |-> FALSE]

PCs == {"take", "wait", "store", "notify", "handler", "give", "ret"}

\* An envelope's address: its thread and its depth there.
Addresses == Threads \X Nat

Codes     == {"0", "ENOSYS"} \cup {o.code : o \in Outcomes}
Responses == {"none"} \cup {o.resp : o \in Outcomes}

Env ==
  [z : Insts, method_id : Nat, req : {"none", "whole", "partial"},
   timeout : Timeouts, pc : PCs, of : Addresses \cup {NULL},
   err : {"0", "EBUSY", "EAGAIN"},
   return_code : Codes, resp : Responses, ran : Nat, nested : BOOLEAN]

\* A pointer to an envelope is not NULL.
ASSUME EnvelopeAssumption == NULL \notin Env

Depth(t)  == Len(calls[t])
Top(t)    == calls[t][Depth(t)]
At(t, pc) == Depth(t) > 0 /\ Top(t).pc = pc

\* The thread's innermost publish goes on to pc.
To(t, pc) == [calls EXCEPT ![t][Depth(t)].pc = pc]

Push(t, env) == [calls EXCEPT ![t] = Append(@, env)]

\* The thread's innermost wrapper returns: its envelope is gone.
Pop(t) == [calls EXCEPT ![t] = SubSeq(@, 1, Depth(t) - 1)]

ResultOfHandler(env) == env.return_code

\* What the innermost wrapper returns to its caller.
Result(env) == IF env.err # "0" THEN env.err ELSE env.return_code

-----------------------------------------------------------------------------
(* zbus_chan_pub, as far as a command depends on it.                       *)

Take(t) ==
  /\ At(t, "take")
  /\ holder[Top(t).z] = NULL
  /\ holder' = [holder EXCEPT ![Top(t).z] = t]
  /\ calls' = To(t, "store")
  /\ UNCHANGED message

\* A publish that does not wait is refused without a look at the semaphore.
TakeBusyUnheld(t) ==
  /\ At(t, "take")
  /\ Top(t).timeout = "none"
  /\ calls' = [calls EXCEPT ![t][Depth(t)].pc = "ret",
                            ![t][Depth(t)].err = "EBUSY"]
  /\ UNCHANGED <<holder, message>>

\* K_NO_WAIT on a held channel.
TakeBusy(t) ==
  /\ At(t, "take")
  /\ holder[Top(t).z] # NULL /\ Top(t).timeout = "none"
  /\ calls' = [calls EXCEPT ![t][Depth(t)].pc = "ret",
                            ![t][Depth(t)].err = "EBUSY"]
  /\ UNCHANGED <<holder, message>>

TakeWaits(t) ==
  /\ At(t, "take")
  /\ holder[Top(t).z] # NULL /\ Top(t).timeout # "none"
  /\ calls' = To(t, "wait")
  /\ UNCHANGED <<holder, message>>

TakeTimeout(t) ==
  /\ At(t, "wait")
  /\ Top(t).timeout = "finite"
  /\ calls' = [calls EXCEPT ![t][Depth(t)].pc = "ret",
                            ![t][Depth(t)].err = "EAGAIN"]
  /\ UNCHANGED <<holder, message>>

Store(t) ==
  /\ At(t, "store")
  /\ message' = [message EXCEPT ![Top(t).z] = <<t, Depth(t)>>]
  /\ calls' = To(t, "notify")
  /\ UNCHANGED holder

Waiters(z) == {t \in Threads : At(t, "wait") /\ Top(t).z = z}

\* The semaphore goes to a waiter, if there is one. The address that zbus
\* leaves in the channel is not read before the next one is stored, and is
\* forgotten here.
Give(t) ==
  LET z == Top(t).z IN
  /\ At(t, "give")
  /\ \/ /\ Waiters(z) = {}
        /\ holder' = [holder EXCEPT ![z] = NULL]
        /\ calls' = To(t, "ret")
     \/ \E w \in Waiters(z) :
          /\ holder' = [holder EXCEPT ![z] = w]
          /\ calls' = [To(t, "ret") EXCEPT ![w][Depth(w)].pc = "store"]
  /\ message' = [message EXCEPT ![z] = NULL]

-----------------------------------------------------------------------------
(* The listener and zephlet_dispatch, with the channel held.               *)

\* The row of the method table; past its end is another object's memory.
Row(ty, id) ==
  IF id \in DOMAIN methods[ty] THEN methods[ty][id] ELSE "foreign"

InTableOffByOne(ty, id) == id \in 0..Cardinality(DOMAIN methods[ty])

InTable(ty, id) == id \in DOMAIN methods[ty]

HasHandler(z, id) ==
  api[z] # NULL /\ InTable(api[z], id) /\ Row(api[z], id) # NULL

\* The envelope whose address the listener finds in the channel.
Stored(z) == calls[message[z][1]][message[z][2]]

NotifyReleased(t) ==
  LET z == Top(t).z IN
  /\ At(t, "notify")
  /\ HasHandler(z, Stored(z).method_id)
  /\ calls' = [calls EXCEPT ![t][Depth(t)].pc = "handler",
                            ![t][Depth(t)].of = message[z]]
  /\ holder' = [holder EXCEPT ![z] = NULL]
  /\ UNCHANGED message

Notify(t) ==
  LET z == Top(t).z IN
  /\ At(t, "notify")
  /\ HasHandler(z, Stored(z).method_id)
  /\ calls' = [calls EXCEPT ![t][Depth(t)].pc = "handler",
                            ![t][Depth(t)].of = message[z]]
  /\ UNCHANGED <<holder, message>>

NotifyNoHandler(t) ==
  LET z == Top(t).z IN
  /\ At(t, "notify")
  /\ ~HasHandler(z, Stored(z).method_id)
  /\ calls' = [To(t, "give") EXCEPT
                 ![message[z][1]][message[z][2]].return_code = "ENOSYS"]
  /\ UNCHANGED <<holder, message>>

HandlerCallsForEver(t) ==
  /\ At(t, "handler")
  /\ ~Top(t).nested
  /\ \E c \in Nested :
       /\ c.from = Top(t).z
       /\ calls' = [calls EXCEPT ![t] =
                      Append([@ EXCEPT ![Depth(t)].nested = TRUE],
                             Envelope(c.z, c.method_id, "whole", "forever"))]
  /\ UNCHANGED <<holder, message>>

\* The handler issues a command of its own, through a wrapper.
HandlerCalls(t) ==
  /\ At(t, "handler")
  /\ ~Top(t).nested
  /\ \E c \in Nested :
       /\ c.from = Top(t).z
       /\ calls' = [calls EXCEPT ![t] =
                      Append([@ EXCEPT ![Depth(t)].nested = TRUE],
                             Envelope(c.z, c.method_id, "whole", c.timeout))]
  /\ UNCHANGED <<holder, message>>

HandlerResumes(t) ==
  /\ Depth(t) > 1
  /\ At(t, "ret")
  /\ calls' = Pop(t)
  /\ UNCHANGED <<holder, message>>

HandlerReturns(t) ==
  LET e == Top(t).of IN
  /\ At(t, "handler")
  /\ \E o \in Outcomes :
       calls' = [To(t, "give") EXCEPT ![e[1]][e[2]].return_code = o.code,
                                      ![e[1]][e[2]].resp = o.resp,
                                      ![e[1]][e[2]].ran = @ + 1]
  /\ UNCHANGED <<holder, message>>

-----------------------------------------------------------------------------
DispatchInit ==
  /\ calls = [t \in Threads |-> <<>>]
  /\ holder = [z \in Insts |-> NULL]
  /\ message = [z \in Insts |-> NULL]

\* What a thread in a publish does next.
Step(t) ==
  \/ Take(t) \/ TakeBusy(t) \/ TakeWaits(t) \/ TakeTimeout(t)
  \/ Store(t) \/ Give(t)
  \/ Notify(t) \/ NotifyNoHandler(t)
  \/ HandlerCalls(t) \/ HandlerResumes(t) \/ HandlerReturns(t)

=============================================================================
