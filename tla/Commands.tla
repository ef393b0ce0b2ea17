------------------------------- MODULE Commands -------------------------------
(***************************************************************************)
(* The stream of commands (pbm/ctrl).  A client inserts a command with the *)
(* second of its own clock; every agent looks once a second for commands   *)
(* not older than the second it last handed one over, leaves out those it  *)
(* remembers, and hands the others to its main loop one by one, waiting    *)
(* while the loop is busy.  A command's place in the stream is its OPID.   *)
(* A look that finds nothing new changes nothing and is no step here; one  *)
(* that finds something comes within a tick of the insert.                 *)
(***************************************************************************)
EXTENDS Naturals, Integers, Sequences, FiniteSets

CONSTANTS
  Agent,
  Plans,        \* what may be sent and what may go wrong: see plan
  MaxNow

ASSUME CommandsAssumptions ==
  /\ \A x \in Plans : x.skew \in [Agent -> Int] /\ {x.faults, x.last, x.delay} \subseteq Nat
  /\ MaxNow \in Nat

VARIABLES
  now,      \* the clients' clock, in seconds
  stream,   \* the collection, in the order of inserts
  plan,     \* the kinds of the commands in the order of their inserts (cmds) and until
            \* when they are sent (last), how long an insert may take (delay), how far
            \* each agent's clock is ahead of the clients' clock (skew), and the number
            \* of crashes, failed reads and steps slower than a tick (faults)
  listen,   \* ListenCmd of each agent
  handed,   \* what each agent's main loop has received
  faults,
  slow      \* a step has taken longer than a tick

commandVars == <<now, stream, plan, listen, handed, faults, slow>>

Clock(n) == now + plan.skew[n]

\* The agents have been listening for a while: long enough for a clock that is behind.
Listener(n) == [at |-> "sleep", ts |-> plan.skew[n], seen |-> {}, last |-> 0, batch |-> <<>>]

CommandsInit ==
  /\ now = 0
  /\ stream = <<>>
  /\ plan \in Plans
  /\ listen = [n \in Agent |-> Listener(n)]
  /\ handed = [n \in Agent |-> <<>>]
  /\ faults = 0 /\ slow = FALSE

-----------------------------------------------------------------------------
SendCommand ==
  /\ Len(stream) < Len(plan.cmds) /\ now <= plan.last
  /\ \E d \in 0 .. plan.delay :
       d <= now /\ stream' = Append(stream, [cmd |-> plan.cmds[Len(stream) + 1], ts |-> now - d, at |-> now])
  /\ UNCHANGED <<now, plan, listen, handed, faults, slow>>

\* Faulty variant: a kind is remembered without its second.
CheckDuplicateKind(seen, c) == \E d \in seen : d.cmd = c.cmd

\* Two commands of a kind in one second are taken for one, whatever they say.
CheckDuplicateCmd(seen, c) == c \in seen

CleanupOldCmdBuckets(seen, last) == {c \in seen : c.ts >= last}

Command(i) == [cmd |-> stream[i].cmd, ts |-> stream[i].ts]

\* The commands of the batch that are not left out, from the next one on.
Fresh(l) == SelectSeq(l.batch, LAMBDA i : ~CheckDuplicateCmd(l.seen, Command(i)))

\* With nothing left to hand over, the loop tidies up and sleeps.
Rest(l) ==
  IF Fresh(l) # <<>> THEN [l EXCEPT !.at = "send", !.batch = Fresh(l)]
  ELSE [l EXCEPT !.at = "sleep", !.batch = <<>>, !.seen = CleanupOldCmdBuckets(@, l.last)]

Since(ts) == SelectSeq([i \in DOMAIN stream |-> i], LAMBDA i : stream[i].ts >= ts)

Found(n) == Fresh([listen[n] EXCEPT !.batch = Since(listen[n].ts)])

Find(n) ==
  /\ listen[n].at = "sleep" /\ Found(n) # <<>>
  /\ listen' = [listen EXCEPT ![n].at = "send", ![n].batch = Found(n)]
  /\ UNCHANGED <<now, stream, plan, handed, faults, slow>>

\* The main loop receives, and the next look is for commands since this second.
Receive(n) ==
  LET l == listen[n]  i == Head(l.batch) IN
    /\ l.at = "send"
    /\ listen' = [listen EXCEPT ![n] =
         Rest([l EXCEPT !.batch = Tail(@), !.seen = @ \cup {Command(i)}, !.last = stream[i].ts, !.ts = Clock(n)])]
    /\ handed' = [handed EXCEPT ![n] = Append(@, i)]

Fault == faults < plan.faults /\ faults' = faults + 1

\* The agent's process ends, with a failed cursor or otherwise.
Gone(n) ==
  /\ listen[n].at # "gone" /\ Fault
  /\ listen' = [listen EXCEPT ![n].at = "gone"]
  /\ UNCHANGED <<now, stream, plan, handed, slow>>

\* Time goes on when the agents have done what can be done at once; or else some are slow.
Tick(pending) ==
  /\ now < MaxNow
  /\ now' = now + 1
  /\ IF pending THEN Fault /\ slow' = TRUE
                ELSE UNCHANGED <<faults, slow>>
  /\ UNCHANGED <<stream, plan, listen, handed>>

ListenerReady(n, busy) ==
  \/ listen[n].at = "sleep" /\ \E k \in DOMAIN Found(n) : stream[Found(n)[k]].at < now
  \/ listen[n].at = "send" /\ ~busy

Handed(n, i) == \E k \in DOMAIN handed[n] : handed[n][k] = i

===============================================================================
