---- MODULE MCControl ----
(***************************************************************************)
(* A replica set of three agents, and one of two beside one of one.  The   *)
(* leader is the primary of the first; the others are preferred to it by   *)
(* topology or configuration, or are of its rank.  For the lists: two      *)
(* agents, two storages, a profile, and two clients at a time.             *)
(***************************************************************************)
EXTENDS Control

CONSTANTS p, s, t

One == (p :> "A") @@ (s :> "A") @@ (t :> "A")
Two == (p :> "A") @@ (s :> "A") @@ (t :> "B")

Node == [member |-> "secondary", hidden |-> FALSE, delay |-> 0, lag |-> 0, reached |-> TRUE, storage |-> "ok",
         silent |-> 0]
PrimaryNode == [Node EXCEPT !.member = "primary"]
Hidden == [Node EXCEPT !.hidden = TRUE]

States(a, b) == (p :> PrimaryNode) @@ (s :> a) @@ (t :> b)

Prefer(all) == [rs |-> One, node |-> States(Node, Hidden), suits |-> all, rule |-> <<>>, config |-> <<>>]
Source == [rs |-> One, node |-> States(Node, Node), suits |-> {s, t}, rule |-> s :> 30, config |-> <<>>]
Configured == [rs |-> One, node |-> States(Hidden, Node), suits |-> {p, s, t}, rule |-> <<>>, config |-> p :> 20]
Sharded == [rs |-> Two, node |-> States(Node, PrimaryNode), suits |-> {p, s, t}, rule |-> <<>>, config |-> <<>>]

\* One or both of the others are left out.
Unfit(a, b) == [rs |-> One, node |-> States(a, b), suits |-> {p, s, t}, rule |-> <<>>, config |-> <<>>]
LeftOut == {Unfit([Hidden EXCEPT !.delay = 60], [Hidden EXCEPT !.lag = 21]),
            Unfit([Hidden EXCEPT !.storage = "failed"], [Node EXCEPT !.storage = "lost"]),
            Unfit([Hidden EXCEPT !.reached = FALSE], [Node EXCEPT !.member = "arbiter"]),
            Unfit([Node EXCEPT !.lag = 20], [Hidden EXCEPT !.silent = 36])}

\* One backup and a fault, or two commands and a clock that differs.
Plan(cmds, last, delay, ahead, wrong, agents) ==
  [cmds |-> cmds, last |-> last, delay |-> delay, skew |-> [n \in Agent |-> IF n = s THEN ahead ELSE 0],
   faults |-> wrong, agents |-> agents]

\* One backup and a fault, or two commands, with a clock that differs or a slow insert.
const_Plans ==
  {Plan(<<"backup">>, 0, 0, 0, 1, a) : a \in {Prefer({s}), Prefer({s, t}), Source, Configured, Sharded}}
  \cup {Plan(<<"backup">>, 0, 0, 0, 0, a) : a \in LeftOut}
  \cup {Plan(<<"backup", "cancel">>, 2, 1, -1, 0, Prefer({s}))}
  \cup {Plan(<<"backup", "cancel">>, 1, 0, ahead, 0, Prefer({s, t})) : ahead \in {0, 1}}
  \cup {Plan(<<"backup", "backup">>, 1, 0, 0, 0, Prefer({s})), Plan(<<"resync", "backup">>, 1, 0, 0, 0, Sharded)}

-----------------------------------------------------------------------------
CONSTANTS n1, n2, s1, s2, prof, x, y, z

Setting(how, to) == [do |-> how, to |-> to]
Naming(what, name) == [do |-> what, name |-> name]
Adding(to, sync) == [do |-> "add", name |-> prof, to |-> to, sync |-> sync]
Backing(of) == [do |-> "backup", name |-> z, of |-> of]

\* x is in both storages, y only in the second and without its data.
Holds == (s1 :> [data |-> {x}, meta |-> {x}]) @@ (s2 :> [data |-> {x}, meta |-> {x, y}])
MainX == x :> Record(Main, s1, "done", 0)
ProfY == y :> Record(prof, s2, "error", 0)

Plain(first, second, most) ==
  [asks |-> <<first, second>>, conf |-> s1, profiles |-> <<>>, held |-> Holds, list |-> MainX, faults |-> most]
Profiled(first, second) ==
  [Plain(first, second, 1) EXCEPT !.profiles = prof :> s2, !.list = MainX @@ ProfY]

const_Scripts ==
  {Plain(Setting("file", s2), Backing(Main), 1),
   Plain(Setting("file", s2), Setting("file", s1), 0),
   Plain(Adding(s2, TRUE), Naming("delete", x), 1),
   Profiled(Setting("set", s2), Naming("resync", Main)),
   Profiled(Naming("remove", prof), Naming("resync", "all")),
   [Profiled(Adding(s1, FALSE), Backing(prof)) EXCEPT !.faults = 0],
   Profiled(Naming("clear", prof), Naming("resync", Main))}
====
