----------------------------- MODULE InitWalker -----------------------------
(***************************************************************************)
(* zephlet_init_walker (zephlet.c): at boot it collects the instances of   *)
(* the section, sorts them by init_priority and calls each one's init_fn.  *)
(* The section is chosen at the start, so that one run covers several.     *)
(***************************************************************************)
EXTENDS Integers, Sequences

CONSTANTS
  Sections,      \* possible sections: sequences of instances, each with its
                 \* name, its init_priority and what its init_fn does:
                 \* "works", "fails" or "none"
  MaxInstances   \* CONFIG_ZEPHLET_MAX_INSTANCES

ASSUME WalkerAssumption == MaxInstances \in Nat

\* An init_priority is an int; two instances never have the name of one C
\* object in common.
ASSUME SectionsAssumption ==
  \A s \in Sections :
    /\ s \in Seq({s[i] : i \in 1..Len(s)})
    /\ \A i, j \in 1..Len(s) :
         /\ s[i].init_priority \in Int
         /\ s[i].name = s[j].name => i = j

VARIABLES
  section,   \* the instances in section order
  ordered,   \* the walker's table
  k,         \* the instance of the table it works on
  walk,      \* "collect", "sort", "init" or "done"
  inited     \* history: the instances whose init_fn was called, in order

walker == <<section, ordered, k, walk, inited>>

Lowest(S) == CHOOSE n \in S : \A o \in S : n <= o

Collect ==
  /\ walk = "collect"
  /\ ordered' = SubSeq(section, 1, Lowest({MaxInstances, Len(section)}))
  /\ walk' = "sort" /\ k' = 2
  /\ UNCHANGED <<section, inited>>

PlaceUnstable(table, cur, from) ==
  Lowest({j \in 1..from : \A i \in j..(from - 1) :
                            table[i].init_priority >= cur.init_priority})

\* Where the inner loop stops: below everything that goes behind cur.
Place(table, cur, from) ==
  Lowest({j \in 1..from : \A i \in j..(from - 1) :
                            table[i].init_priority > cur.init_priority})

\* One round of the insertion sort.
SortNext ==
  /\ walk = "sort" /\ k <= Len(ordered)
  /\ LET cur == ordered[k]
         j   == Place(ordered, cur, k)
     IN ordered' = [i \in DOMAIN ordered |->
                      IF i = j THEN cur
                      ELSE IF i \in (j + 1)..k THEN ordered[i - 1]
                      ELSE ordered[i]]
  /\ k' = k + 1
  /\ UNCHANGED <<section, walk, inited>>

Sorted ==
  /\ walk = "sort" /\ k > Len(ordered)
  /\ walk' = "init" /\ k' = 1
  /\ UNCHANGED <<section, ordered, inited>>

InitStopsOnFailure ==
  /\ walk = "init" /\ k <= Len(ordered)
  /\ inited' = IF ordered[k].init_fn # "none"
                THEN Append(inited, ordered[k].name) ELSE inited
  /\ k' = IF ordered[k].init_fn = "fails" THEN Len(ordered) + 1 ELSE k + 1
  /\ UNCHANGED <<section, ordered, walk>>

\* A failure of an init_fn is logged, nothing else.
InitNext ==
  /\ walk = "init" /\ k <= Len(ordered)
  /\ inited' = IF ordered[k].init_fn # "none"
                THEN Append(inited, ordered[k].name) ELSE inited
  /\ k' = k + 1
  /\ UNCHANGED <<section, ordered, walk>>

WalkEnds ==
  /\ walk = "init" /\ k > Len(ordered)
  /\ walk' = "done"
  /\ UNCHANGED <<section, ordered, k, inited>>

WalkerInit ==
  /\ section \in Sections
  /\ ordered = <<>> /\ k = 1 /\ walk = "collect"
  /\ inited = <<>>

Walker == Collect \/ SortNext \/ Sorted \/ InitNext \/ WalkEnds

-----------------------------------------------------------------------------
(* The order the frontend promises: by init_priority, and in section order *)
(* where it is equal.                                                      *)

Before(i, j) ==
  \/ section[i].init_priority < section[j].init_priority
  \/ section[i].init_priority = section[j].init_priority /\ i < j

\* The places of the section that the table has room for, and among them
\* those of instances with an init_fn.
Kept    == 1..Lowest({MaxInstances, Len(section)})
Starters == {i \in Kept : section[i].init_fn # "none"}

\* The init_fns run in ascending priority, equal ones in the order of the
\* section, each once; a failure of one keeps none of the others from it.
InitOrder ==
  \A i, j \in Starters :
    \A a \in DOMAIN inited :
      inited[a] = section[j].name /\ Before(i, j) =>
        \E b \in 1..(a - 1) : inited[b] = section[i].name

\* Once the walker is done, exactly the instances its table had room for
\* have been initialised, each once.
InitComplete ==
  walk = "done" =>
    /\ {inited[a] : a \in DOMAIN inited} = {section[i].name : i \in Starters}
    /\ \A a, b \in DOMAIN inited : inited[a] = inited[b] => a = b
=============================================================================
