----------------------------- MODULE MCCommands -----------------------------
(* Commands for TLC.                                                        *)
EXTENDS Commands

CONSTANTS a, b, c,      \* instances
          ty1, ty2,     \* their types
          coapT, shellT

\* Two instances of one type, one of another; c is past the table's end.
api_      == (a :> ty1) @@ (b :> ty1) @@ (c :> ty2)
registry_ == <<a, b, c>>
nameLen_  == (a :> 2) @@ (b :> 1) @@ (c :> 5)

\* Row 0 is reserved and empty.
methods_ ==
     (ty1 :> ((0 :> NULL) @@ (1 :> "get") @@ (2 :> "set")))
  @@ (ty2 :> ((0 :> NULL) @@ (1 :> "stop")))

commands_ ==
     (ty1 :> [get |-> [id |-> 1, req |-> FALSE, resp |-> TRUE,  size |-> 0],
              set |-> [id |-> 2, req |-> TRUE,  resp |-> FALSE, size |-> 2]])
  @@ (ty2 :> [stop |-> [id |-> 1, req |-> FALSE, resp |-> FALSE, size |-> 0]])

\* A handler of a may wait for ever for b; the way back has a timeout.
Nested_ ==
  { [from |-> a, z |-> b, method_id |-> 1, timeout |-> "forever"],
    [from |-> a, z |-> a, method_id |-> 1, timeout |-> "none"],
    [from |-> b, z |-> a, method_id |-> 0, timeout |-> "finite"],
    [from |-> b, z |-> c, method_id |-> 2, timeout |-> "none"] }

Outcomes_ ==
  { [code |-> "0", resp |-> "some"],  [code |-> "0", resp |-> "empty"],
    [code |-> "0", resp |-> "large"], [code |-> "0", resp |-> "bad"],
    [code |-> "EAGAIN", resp |-> "none"] }

Post(z, ty, cmd, len, decodes) ==
  [kind |-> "post", segments |-> 4, long |-> FALSE, inst |-> z, type |-> ty,
   cmd |-> cmd, len |-> len, decodes |-> decodes, room |-> 8]

\* A GET of a list, with the room that its answer has: the names of ty1 take
\* four octets of text, and the two links of the table six.
List(kind, ty, room) ==
  [Post(a, ty, "get", 0, TRUE) EXCEPT !.kind = kind, !.room = room]

Requests_ ==
  { Post(a, ty1, "get", 0, TRUE), Post(a, ty1, "get", 1, TRUE),
    Post(b, ty1, "set", 2, TRUE), Post(b, ty1, "set", 2, FALSE),
    Post(b, ty1, "set", 3, TRUE), Post(c, ty1, "get", 0, TRUE),
    Post(a, ty1, "stop", 0, TRUE),
    [Post(a, ty1, "get", 0, TRUE) EXCEPT !.segments = 5],
    [Post(a, ty1, "get", 0, TRUE) EXCEPT !.segments = 3],
    [Post(a, ty1, "get", 0, TRUE) EXCEPT !.long = TRUE],
    [Post(NULL, ty1, "get", 0, TRUE) EXCEPT !.kind = "get"],
    [Post(a, ty1, "get", 0, TRUE) EXCEPT !.kind = "get"],
    List("instances", ty1, 4), List("instances", ty1, 3),
    List("instances", ty2, 8),
    List("core", ty1, 6), List("core", ty1, 5) }

\* A third type, without instances, is not discoverable.
resources_ == << [path |-> "ty1", hidden |-> FALSE, link |-> 3],
                 [path |-> "ty3", hidden |-> TRUE, link |-> 3],
                 [path |-> "ty2", hidden |-> FALSE, link |-> 3],
                 [path |-> "core", hidden |-> FALSE, link |-> 3] >>

Line(z, cmd, argc, parses) ==
  [z |-> z, cmd |-> cmd, argc |-> argc, parses |-> parses]

Lines_ == { Line(b, "get", 1, FALSE), Line(a, "set", 2, TRUE),
            Line(a, "set", 2, FALSE), Line(a, "set", 1, FALSE) }

\* The boot that serves, and boots of four instances with all priorities.
Instance(z, prio, f) == [name |-> z, init_priority |-> prio, init_fn |-> f]
Main  == << Instance(a, 1, "works"), Instance(b, 0, "fails"),
            Instance(c, 0, "none") >>
Boots == { << Instance("w", p, "works"), Instance("x", q, "fails"),
              Instance("y", r, "works"), Instance("z", 0, "works") >> :
             p, q, r \in -1..1 } \cup {<<>>}
Sections_ == Boots \cup {Main}
Serving_  == {Main}
=============================================================================
