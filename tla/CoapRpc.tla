------------------------------- MODULE CoapRpc -------------------------------
(***************************************************************************)
(* Commands and discovery over CoAP: the resources generated for a type    *)
(* (zephlet_coap_interface.c.jinja), the translation of errno values and   *)
(* messages (zephlet_coap_translate.c), the answers (zephlet_coap_send.c)  *)
(* and the discovery resources (zephlet_coap_discovery.c).  The server     *)
(* thread runs one request at a time; a GET of events is in CoapObserve.   *)
(*                                                                         *)
(* A request is a record: its kind, the type its resource belongs to, the  *)
(* path below it, the length of its body and whether the body decodes, and *)
(* the room for a payload that the packet of its answer has left.          *)
(***************************************************************************)
EXTENDS Dispatch, SequencesExt

CONSTANTS
  coapThread,   \* the CoAP server thread
  registry,     \* the instances in section order
  commands,     \* per type, its commands by name: id, req, resp, size
  resources,    \* the resources of the service: path, hidden, link length
  nameLen,      \* length of each instance's name
  Requests,     \* requests that peers send
  CoapTimeout,  \* class of CONFIG_ZEPHLETS_COAP_CMD_TIMEOUT_MS
  MaxSegments,  \* CONFIG_ZEPHLETS_COAP_MAX_URI_SEGMENTS
  MaxVisible,   \* ZLET_WELLKNOWN_MAX_VISIBLE
  BufSize       \* CONFIG_ZEPHLETS_COAP_DISCOVERY_BUF_SIZE

ASSUME CoapAssumption ==
  /\ coapThread \in Threads
  /\ {MaxSegments, MaxVisible, BufSize} \subseteq Nat
  /\ \A req \in Requests : req.room \in Nat

\* Each instance has one place in its section, each resource one in its own;
\* a name is a C identifier.
ASSUME SectionAssumption ==
  /\ registry \in Seq(Insts) /\ IsInjective(registry)
  /\ resources \in Seq(ToSet(resources)) /\ IsInjective(resources)
  /\ nameLen \in [Insts -> Nat \ {0}]
  /\ NULL \notin Insts

VARIABLE coap   \* the request in progress, and its answer

CoapIdle == [st |-> "idle", req |-> NULL, env |-> NULL, answer |-> NULL]

-----------------------------------------------------------------------------
(* Translation.                                                            *)

map_return_code(rc, has_payload) ==
  CASE rc = "0"                   -> IF has_payload THEN "2.05" ELSE "2.04"
    [] rc = "EINVAL"              -> "4.00"
    [] rc = "ENODEV"              -> "4.04"
    [] rc = "ENOSYS"              -> "4.05"
    [] rc = "EALREADY"            -> "4.09"
    [] rc \in {"EMSGSIZE","E2BIG"} -> "4.13"
    [] rc \in {"EBUSY","EAGAIN"}  -> "5.03"
    [] rc = "ETIMEDOUT"           -> "5.04"
    [] OTHER                      -> "5.00"

\* An answer carries the verbatim errno; a list only for discovery.
Answer(rc, has_payload, list) ==
  [code |-> map_return_code(rc, has_payload), errno |-> rc, list |-> list]

\* A response that is sent is not the one that is not.
ASSUME AnswerAssumption ==
  \A rc \in Codes \cup {"EBUSY", "ENOMEM", "E2BIG"}, has_payload \in BOOLEAN :
    Answer(rc, has_payload, <<>>) # NULL

send_error(rc) == Answer(rc, FALSE, <<>>)

\* An answer that does not fit the packet is not sent at all.
send_payload(payload, list) ==
  CASE payload = "empty" -> send_error("0")
    [] payload = "large" -> NULL
    [] OTHER             -> Answer("0", TRUE, list)

\* zephlet_coap_decode_request and zephlet_coap_encode_response, which no
\* generated handler calls: "0" or an error, and the answer or an error.
decode_request(m, req) ==
  IF req.len > m.size THEN "EMSGSIZE"
  ELSE IF m.req /\ ~req.decodes THEN "EINVAL" ELSE "0"

encode_response(m, env) ==
  LET sent == env.return_code = "0" /\ m.resp IN
  IF sent /\ env.resp \in {"bad", "large"} THEN send_error("ENOMEM")
  ELSE Answer(env.return_code, sent /\ env.resp # "empty", <<>>)

-----------------------------------------------------------------------------
(* Requests.                                                               *)

\* zephlet_coap_parse_uri_path: the options beyond the array are not seen.
Segments(req) == IF req.segments < MaxSegments THEN req.segments
                                               ELSE MaxSegments

get_by_name(name) == IF name \in ToSet(registry) THEN name ELSE NULL

resolve(req) ==
  IF \/ Segments(req) # 4
     \/ req.long   \* zephlet_coap_option_to_cstr refuses a segment
     \/ get_by_name(req.inst) = NULL
     \/ api[req.inst] # req.type
  THEN "ENODEV" ELSE "0"

\* The command of a POST, if the type has one of the name.
HasCommand(req) == req.cmd \in DOMAIN commands[req.type]
Command(req)    == commands[req.type][req.cmd]

RefusalAtLimit(req) ==
  IF resolve(req) # "0" THEN resolve(req)
  ELSE IF req.kind = "get" \/ ~HasCommand(req) THEN "ENOSYS"
  ELSE IF req.len >= Command(req).size THEN "EMSGSIZE"
  ELSE IF Command(req).req /\ ~req.decodes THEN "EINVAL" ELSE "0"

RefusalUndecoded(req) ==
  IF resolve(req) # "0" THEN resolve(req)
  ELSE IF req.kind = "get" \/ ~HasCommand(req) THEN "ENOSYS"
  ELSE IF req.len > Command(req).size THEN "EMSGSIZE"
  ELSE "0"

\* Why a request of an RPC resource ends before any command: "0" if not.
Refusal(req) ==
  IF resolve(req) # "0" THEN resolve(req)
  ELSE IF req.kind = "get" \/ ~HasCommand(req) THEN "ENOSYS"
  ELSE IF req.len > Command(req).size THEN "EMSGSIZE"
  ELSE IF Command(req).req /\ ~req.decodes THEN "EINVAL" ELSE "0"

\* What pb_decode has left in the request's struct.
Decoded(req) == IF ~Command(req).req THEN "none"
                ELSE IF req.decodes THEN "whole" ELSE "partial"

Answered(req, env, answer) ==
  coap' = [st |-> "answered", req |-> req, env |-> env, answer |-> answer]

CoapRefuse(req) ==
  /\ coap.st = "idle"
  /\ req.kind \in {"post", "get"}
  /\ Refusal(req) # "0"
  /\ Answered(req, NULL, send_error(Refusal(req)))
  /\ UNCHANGED channels

CoapPost(req) ==
  /\ coap.st = "idle"
  /\ req.kind = "post"
  /\ Refusal(req) = "0"
  /\ calls' = Push(coapThread, Envelope(req.inst, Command(req).id,
                                        Decoded(req), CoapTimeout))
  /\ coap' = [coap EXCEPT !.st = "called", !.req = req]
  /\ UNCHANGED <<holder, message>>

ReplyUnchecked(req, env) ==
  IF env.return_code # "0" THEN send_error(env.return_code)
  ELSE IF ~Command(req).resp THEN send_payload("empty", <<>>)
  ELSE IF env.resp = "bad" THEN send_error("ENOMEM")
  ELSE send_payload(env.resp, <<>>)

\* The answer to a command, from the publish, the handler and the encoder.
Reply(req, env) ==
  IF env.err # "0" THEN send_error("EBUSY")
  ELSE IF env.return_code # "0" THEN send_error(env.return_code)
  ELSE IF ~Command(req).resp THEN send_payload("empty", <<>>)
  ELSE IF env.resp = "bad" THEN send_error("ENOMEM")
  ELSE send_payload(env.resp, <<>>)

CoapReply ==
  /\ coap.st = "called"
  /\ Depth(coapThread) = 1 /\ At(coapThread, "ret")
  /\ Answered(coap.req, Top(coapThread), Reply(coap.req, Top(coapThread)))
  /\ calls' = Pop(coapThread)
  /\ UNCHANGED <<holder, message>>

-----------------------------------------------------------------------------
(* Discovery.                                                              *)

\* snprintf keeps a byte for the terminator, and cuts what has no room.
Printed(z, n, room) == IF n < room THEN z ELSE NULL

OverflowAtLimit(n, room) == n > room

Overflow(n, room) == n >= room

\* One more name of the list, behind a newline unless it is the first.
AddName(text, z) ==
  LET n    == nameLen[z] + (IF text.list = <<>> THEN 0 ELSE 1)
      room == BufSize - text.off
  IN IF text.over \/ api[z] # text.type THEN text
     ELSE IF Overflow(n, room) THEN [text EXCEPT !.over = TRUE]
     ELSE [text EXCEPT !.off = @ + n, !.list = Append(@, Printed(z, n, room))]

\* The walk over the section: the text after each instance of it.
ListWalk(ty) ==
  LET text[n \in 0..Len(registry)] ==
        IF n = 0 THEN [type |-> ty, off |-> 0, list |-> <<>>, over |-> FALSE]
        ELSE AddName(text[n - 1], registry[n])
  IN text

InstanceList(ty) == ListWalk(ty)[Len(registry)]

\* A payload of n octets in an answer to req.
Payload(n, req) ==
  IF n = 0 THEN "empty" ELSE IF n > req.room THEN "large" ELSE "some"

InstancesGet(req) ==
  LET text == InstanceList(req.type) IN
  IF text.over THEN send_error("E2BIG")
  ELSE send_payload(Payload(text.off, req), text.list)

\* The visible resources, up to the cap.
AddResource(visible, r) ==
  IF r.hidden \/ Len(visible) >= MaxVisible THEN visible
                                            ELSE Append(visible, r)

\* The walk over the resources of the service.
CoreWalk ==
  LET visible[n \in 0..Len(resources)] ==
        IF n = 0 THEN <<>> ELSE AddResource(visible[n - 1], resources[n])
  IN visible

CoreList == CoreWalk[Len(resources)]

\* The octets of the links, which the CoAP library formats.
Links(list) == FoldSeq(LAMBDA r, n : r.link + n, 0, list)

\* The library's answer has no errno.
CoreAnswer == [code |-> "2.05", errno |-> NULL, list |-> CoreList]

\* What the library cannot format into the packet is logged, not answered.
WellKnownCoreGet(req) ==
  IF Links(CoreList) > req.room THEN NULL ELSE CoreAnswer

\* An answer with a list is not the one that is not sent.
ASSUME ListAssumption ==
  /\ CoreAnswer # NULL
  /\ \A req \in Requests : req.kind = "instances" =>
       Answer("0", TRUE, InstanceList(req.type).list) # NULL

CoapDiscover(req) ==
  /\ coap.st = "idle"
  /\ \/ req.kind = "instances"
        /\ Answered(req, NULL, InstancesGet(req))
     \/ req.kind = "core" /\ Answered(req, NULL, WellKnownCoreGet(req))
  /\ UNCHANGED channels

CoapNext ==
  /\ coap.st = "answered"
  /\ coap' = CoapIdle
  /\ UNCHANGED channels

Coap ==
  \/ \E req \in Requests :
       CoapRefuse(req) \/ CoapPost(req) \/ CoapDiscover(req)
  \/ CoapReply \/ CoapNext
=============================================================================
