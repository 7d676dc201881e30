------------------------------ MODULE Mutilate ------------------------------
(***************************************************************************)
(* mutilate, the load generator for memcached: a master and its agents go  *)
(* through the agent protocol over ZeroMQ request/reply sockets, each      *)
(* process runs do_mutilate in its threads, and each thread drives a       *)
(* connection (Connection.cc, with the ASCII protocol's answers) from its  *)
(* event loop: connect, load the database, warm up, measure.               *)
(*                                                                         *)
(* Time is abstract: late says now >= next_time, expired that the phase    *)
(* has taken its time.  An answer is a sequence of lines: "VALUE" "DATA"   *)
(* "END" for a hit, "END" for a miss, "STORED"; in the binary protocol it  *)
(* is one packet, "END" to a get, "STORED" to a set and "AUTH" to SASL.    *)
(***************************************************************************)
EXTENDS Integers, Sequences, SequencesExt

CONSTANTS
  Agents,
  Master,
  Configs,      \* [agents: those the master is given, threads: of each process, warmup, loadonly, noload, 
                \*  blocking, binary, sasl, moderate,
                \*  update: the operations issued, lambda: whether they are paced]
  MaxThreads,   \* bound: of a process
  Depth,        \* options.depth
  Records,      \* options.records
  LoaderChunk,  \* LOADER_CHUNK, 1024 in the code
  MaxRounds,    \* bound: calls of go, by --scan or --search
  NULL

Procs == {Master} \cup Agents

\* Records is positive: args_to_options makes a quotient of 0 a 1.
ASSUME MutilateAssumption ==
  /\ Agents # {} /\ Master \notin Agents
  /\ \A c \in Configs : c.agents # <<>> /\ Range(c.agents) \subseteq Agents /\ c.threads \in [Procs -> 0 .. MaxThreads] /\ (c.sasl => c.binary)
  /\ Depth \in Nat \ {0} /\ Records \in Nat \ {0} /\ LoaderChunk \in Nat \ {0} /\ MaxRounds \in Nat

VARIABLES
  cfg,     \* the options of this behaviour
  chan,    \* the message between the master and each agent
  comm,    \* what a process has still to say and hear, in order
  main,    \* where each process's main thread is
  rounds,
  wrong,   \* somebody got another message than the protocol says
  th,      \* the threads
  conn     \* their connections

vars == <<cfg, chan, comm, main, rounds, wrong, th, conn>>

Threads == UNION {{p} \X (1 .. cfg.threads[p]) : p \in {Master} \cup Range(cfg.agents)}
Of(p) == {t \in Threads : t[1] = p}
IsLead(t) == t[2] = 1

-----------------------------------------------------------------------------
(* The protocol *)

Say(a, m) == [do |-> "say", agent |-> a, msg |-> m]
Hear(a, m) == [do |-> "hear", agent |-> a, msg |-> m]
Serve(m, r) == [get |-> m, reply |-> r]

\* One script for all agents, one after the other.
ForEach(F(_)) == FlattenSeq([i \in DOMAIN cfg.agents |-> F(cfg.agents[i])])

prep_agent ==
  ForEach(LAMBDA a : <<Say(a, "options"), Hear(a, "num"), Say(a, "server"), Hear(a, "ACK")>>)
    \o ForEach(LAMBDA a : <<Say(a, "denom"), Hear(a, "THANKS")>>)
finish_agent == ForEach(LAMBDA a : <<Say(a, "stats"), Hear(a, "AgentStats")>>)

\* Mutation of sync_agent: an agent is let go before the others have come.
sync_agent_each(p) ==
  IF p = Master
  THEN ForEach(LAMBDA a : <<Say(a, "sync_req"), Hear(a, "sync"), Say(a, "proceed"), Hear(a, "ack")>>)
  ELSE <<Serve("sync_req", "sync"), Serve("proceed", "ack")>>

sync_agent(p) ==
  IF p = Master
  THEN ForEach(LAMBDA a : <<Say(a, "sync_req")>>) \o ForEach(LAMBDA a : <<Hear(a, "sync")>>)
         \o ForEach(LAMBDA a : <<Say(a, "proceed")>>) \o ForEach(LAMBDA a : <<Hear(a, "ack")>>)
  ELSE <<Serve("sync_req", "sync"), Serve("proceed", "ack")>>

Prep(p) ==
  IF p = Master THEN prep_agent
  ELSE <<Serve("options", "num"), Serve("server", "ACK"), Serve("denom", "THANKS")>>
Finish(p) == IF p = Master THEN finish_agent ELSE <<Serve("stats", "AgentStats")>>

MasterSend ==
  /\ comm[Master] # <<>> /\ Head(comm[Master]).do = "say"
  /\ LET x == Head(comm[Master])
     IN /\ chan[x.agent] = NULL
        /\ chan' = [chan EXCEPT ![x.agent] = [to |-> "agent", msg |-> x.msg]]
  /\ comm' = [comm EXCEPT ![Master] = Tail(@)]
  /\ UNCHANGED <<cfg, main, rounds, wrong, th, conn>>

MasterRecv ==
  /\ comm[Master] # <<>> /\ Head(comm[Master]).do = "hear"
  /\ LET x == Head(comm[Master])
     IN /\ chan[x.agent] # NULL /\ chan[x.agent].to = "master"
        /\ chan' = [chan EXCEPT ![x.agent] = NULL]
        /\ wrong' = (wrong \/ chan[x.agent].msg # x.msg)
  /\ comm' = [comm EXCEPT ![Master] = Tail(@)]
  /\ UNCHANGED <<cfg, main, rounds, th, conn>>

\* An agent receives and answers; it ends when a sync is out of order.
AgentServe(a) ==
  /\ comm[a] # <<>> /\ chan[a] # NULL /\ chan[a].to = "agent"
  /\ chan' = [chan EXCEPT ![a] = [to |-> "master", msg |-> Head(comm[a]).reply]]
  /\ wrong' = (wrong \/ chan[a].msg # Head(comm[a]).get)
  /\ comm' = [comm EXCEPT ![a] = Tail(@)]
  /\ UNCHANGED <<cfg, main, rounds, th, conn>>

-----------------------------------------------------------------------------
(* go, in the main threads *)

\* do_mutilate's phases.  The barrier before the last two is for threads only.
Program ==
  <<"connect">> \o (IF cfg.noload THEN <<>> ELSE <<"load">>)
    \o (IF cfg.loadonly THEN <<>>
        ELSE (IF cfg.warmup THEN <<"barrier", "sync", "barrier", "warmup", "drain">> ELSE <<>>)
               \o <<"barrier", "barrier", "sync", "barrier", "run">>)
    \o <<"done">>

Stage(t) == IF th[t].at = 0 THEN "none" ELSE Program[th[t].at]

NewConn == [read |-> "INIT_READ", write |-> "INIT_WRITE",
            prot |-> IF cfg.binary THEN "BINARY" ELSE "IDLE", op_queue |-> <<>>,
            srv |-> <<>>, input |-> <<>>, timer |-> FALSE, late |-> FALSE,
            issued |-> 0, completed |-> 0]
NewThread == [at |-> 1, round |-> 0, sub |-> "loop", expired |-> FALSE]

\* With no thread, go synchronizes once, and only in the master, which is the
\* process that was given agents; an agent without threads does nothing.
WithoutThreads(p) == IF p = Master THEN sync_agent(p) ELSE <<>>

\* The threads are created once the options have gone round.
StartThreads(p) ==
  /\ main[p] = "prep" /\ comm[p] = <<>>
  /\ th' = [t \in Threads |-> IF t \in Of(p) THEN [NewThread EXCEPT !.round = rounds] ELSE th[t]]
  /\ conn' = [t \in Threads |-> IF t \in Of(p) THEN NewConn ELSE conn[t]]
  /\ main' = [main EXCEPT ![p] = "threads"]
  /\ comm' = [comm EXCEPT ![p] = IF Of(p) = {} THEN WithoutThreads(p) ELSE <<>>]
  /\ UNCHANGED <<cfg, chan, rounds, wrong>>

JoinThreads(p) ==
  /\ main[p] = "threads" /\ comm[p] = <<>> /\ \A t \in Of(p) : Stage(t) = "done"
  /\ main' = [main EXCEPT ![p] = "finish"]
  /\ comm' = [comm EXCEPT ![p] = Finish(p)]
  /\ UNCHANGED <<cfg, chan, rounds, wrong, th, conn>>

\* An agent waits for the next round; the master may begin one, or ends.
EndRound(p) ==
  /\ main[p] = "finish" /\ comm[p] = <<>>
  /\ \/ /\ p = Master => rounds < MaxRounds
        /\ main' = [main EXCEPT ![p] = "prep"]
        /\ comm' = [comm EXCEPT ![p] = Prep(p)]
        /\ rounds' = IF p = Master THEN rounds + 1 ELSE rounds
     \/ /\ p = Master
        /\ main' = [main EXCEPT ![p] = "end"]
        /\ UNCHANGED <<comm, rounds>>
  /\ UNCHANGED <<cfg, chan, wrong, th, conn>>

Init ==
  /\ cfg \in Configs
  /\ chan = [a \in Agents |-> NULL]
  /\ comm = [p \in Procs |-> Prep(p)] /\ main = [p \in Procs |-> "prep"]
  /\ rounds = 1 /\ wrong = FALSE
  /\ th = [t \in Threads |-> [NewThread EXCEPT !.at = 0]]
  /\ conn = [t \in Threads |-> NewConn]

-----------------------------------------------------------------------------
(* do_mutilate *)

Outside == UNCHANGED <<cfg, chan, main, rounds, wrong>>
Moves(t, x) == th' = [th EXCEPT ![t] = x] /\ UNCHANGED comm /\ Outside
Goes(t) == UNCHANGED <<th, comm>> /\ Outside
Conn(t, x) == conn' = [conn EXCEPT ![t] = x]

Waiting(t) == Stage(t) \in {"connect", "load", "drain"}
Timed(t) == Stage(t) \in {"warmup", "run"}
Ready(t) == conn[t].read = "IDLE"

\* Entering a phase: most begin with the event loop, sync is the lead's only;
\* the warm-up is over for check_exit_condition until the run starts.
Entered(t, at) ==
  LET s == Program[at]
  IN [th[t] EXCEPT !.at = at, !.expired = @ /\ s = "drain",
        !.sub = IF s \in {"load", "warmup", "run"} THEN "enter" ELSE IF s = "drain" THEN "check" ELSE "loop"]

\* Who goes on once t is at the barrier: all threads of p, when they are there.
pthread_barrier_wait(p, t) == IF \A u \in Of(p) : Stage(u) = "barrier" THEN Of(p) ELSE {}

Barrier(t) ==
  LET gone == pthread_barrier_wait(t[1], t)
  IN /\ Stage(t) = "barrier" /\ gone # {}
     /\ th' = [u \in Threads |-> IF u \in gone THEN Entered(u, th[u].at + 1) ELSE th[u]]
     /\ UNCHANGED <<comm, conn>> /\ Outside

\* Mutation of SyncBegin: every thread synchronizes for its process.
SyncBegin_all(t) ==
  /\ Stage(t) = "sync" /\ th[t].sub = "loop"
  /\ comm' = [comm EXCEPT ![t[1]] = sync_agent(t[1])]
  /\ th' = [th EXCEPT ![t].sub = "sync"]
  /\ UNCHANGED conn /\ Outside

SyncBegin(t) ==
  /\ Stage(t) = "sync" /\ th[t].sub = "loop"
  /\ comm' = [comm EXCEPT ![t[1]] = IF IsLead(t) THEN sync_agent(t[1]) ELSE @]
  /\ th' = [th EXCEPT ![t] = IF IsLead(t) THEN [@ EXCEPT !.sub = "sync"] ELSE Entered(t, @.at + 1)]
  /\ UNCHANGED conn /\ Outside

SyncEnd(t) ==
  /\ Stage(t) = "sync" /\ th[t].sub = "sync" /\ comm[t[1]] = <<>>
  /\ Moves(t, Entered(t, th[t].at + 1)) /\ UNCHANGED conn

\* issue_get and issue_set
Issue(x, op) ==
  LET kind == IF op = "GET" THEN "WAITING_FOR_GET" ELSE "WAITING_FOR_SET"
      line == IF op = "GET" THEN "WAITING_FOR_GET" ELSE "WAITING_FOR_END"
  IN [x EXCEPT !.op_queue = Append(@, op), !.srv = Append(@, op),
               !.read = IF @ = "IDLE" THEN kind ELSE @, !.prot = IF @ = "IDLE" THEN line ELSE @]

\* The loader keeps LoaderChunk sets ahead of the answers.
Ahead(x) ==
  LET more == {x.completed + LoaderChunk, Records}
      n == (CHOOSE m \in more : \A k \in more : m <= k) - x.issued
  IN [FoldLeft(Issue, x, [i \in 1 .. n |-> "SET"]) EXCEPT !.issued = @ + n]

\* Mutation of Armed: the timer is not set again.
Armed_not(x) == x
Armed(x) == [x EXCEPT !.timer = TRUE]

\* Without a lambda the delay between operations is 0.
Lateness == IF cfg.lambda THEN BOOLEAN ELSE {TRUE}

\* INIT_WRITE sets the timer for the first operation.
Begun(x) ==
  IF x.write # "INIT_WRITE" THEN {x}
  ELSE {[x EXCEPT !.write = "WAITING_FOR_TIME", !.timer = TRUE, !.late = late] : late \in Lateness}

\* The other states, up to the return: what the connection may be then.
Issuing(x) ==
  LET room == Depth - Len(x.op_queue)
      Bursts(k) == [1 .. k -> cfg.update]
      After(ops) == FoldLeft(Issue, x, ops)
      Opq == {[After(ops) EXCEPT !.write = "WAITING_FOR_OPQ", !.late = late] :
                ops \in Bursts(room), late \in IF room = 0 THEN {TRUE} ELSE Lateness}
      Time == {Armed([After(ops) EXCEPT !.write = "WAITING_FOR_TIME", !.late = FALSE]) :
                ops \in UNION {Bursts(k) : k \in 1 .. IF cfg.lambda THEN room - 1 ELSE 0}}
      Moderate == IF cfg.moderate /\ room > 0 THEN {Armed([x EXCEPT !.write = "WAITING_FOR_TIME"])} ELSE {}
  IN IF x.write = "WAITING_FOR_OPQ" /\ room = 0 THEN {x}
     ELSE IF x.late THEN Opq \cup Time \cup Moderate
     ELSE {Armed([x EXCEPT !.write = "WAITING_FOR_TIME"])}

\* One call; check_exit_condition is tested on entry.
drive_write_machine(t, x) == IF th[t].expired THEN {x} ELSE UNION {Issuing(y) : y \in Begun(x)}

start_loading(t) ==
  /\ Stage(t) = "load" /\ th[t].sub = "enter"
  /\ Conn(t, Ahead([conn[t] EXCEPT !.read = "LOADING", !.issued = 0, !.completed = 0]))
  /\ Moves(t, [th[t] EXCEPT !.sub = "loop"])

\* start_time is set and drive_write_machine called.
StartTimed(t) ==
  /\ Timed(t) /\ th[t].sub = "enter"
  /\ \E x \in drive_write_machine(t, conn[t]) : Conn(t, x)
  /\ Moves(t, [th[t] EXCEPT !.sub = "loop"])

Reset(x) == [x EXCEPT !.read = "IDLE", !.write = "INIT_WRITE", !.timer = FALSE]

\* The test after each event_base_loop.
Check(t) ==
  LET x == conn[t]
      leave == IF Timed(t) THEN th[t].expired ELSE Ready(t)
  IN /\ (Timed(t) \/ Waiting(t)) /\ th[t].sub = "check"
     /\ Moves(t, IF leave THEN Entered(t, th[t].at + 1) ELSE [th[t] EXCEPT !.sub = "loop"])
     /\ Conn(t, IF leave /\ Stage(t) = "drain" THEN Reset(x) ELSE x)

Looping(t) == (Timed(t) \/ Waiting(t)) /\ th[t].sub = "loop"

\* EVLOOP_NONBLOCK returns without an event; only the timed phases use it.
NoEvent(t) ==
  /\ Looping(t) /\ Timed(t) /\ ~cfg.blocking
  /\ Moves(t, [th[t] EXCEPT !.sub = "check"]) /\ UNCHANGED conn

-----------------------------------------------------------------------------
(* Connection *)

Connected(t) ==
  /\ Looping(t) /\ conn[t].read = "INIT_READ"
  /\ Conn(t, IF cfg.sasl THEN [conn[t] EXCEPT !.read = "CONN_SETUP", !.srv = <<"SASL">>]
             ELSE [conn[t] EXCEPT !.read = "IDLE"])
  /\ Moves(t, [th[t] EXCEPT !.sub = "check"])

ReadEvent(t) ==
  /\ Looping(t) /\ conn[t].input # <<>>
  /\ Moves(t, [th[t] EXCEPT !.sub = "read"]) /\ UNCHANGED conn

TimerEvent(t) ==
  /\ Looping(t) /\ conn[t].timer /\ conn[t].late
  /\ \E x \in drive_write_machine(t, [conn[t] EXCEPT !.timer = FALSE]) : Conn(t, x)
  /\ Moves(t, [th[t] EXCEPT !.sub = "check"])

pop_op(x) ==
  LET q == Tail(x.op_queue)
  IN [x EXCEPT !.op_queue = q,
        !.read = IF @ = "LOADING" THEN @ ELSE IF q = <<>> THEN "IDLE"
                 ELSE IF Head(q) = "GET" THEN "WAITING_FOR_GET" ELSE "WAITING_FOR_SET"]

\* ProtocolAscii::handle_response: one line, or the data, is taken.
Taken(x) ==
  LET y == [x EXCEPT !.input = Tail(@)]
  IN CASE x.prot = "BINARY" -> y
       [] x.prot = "WAITING_FOR_GET_DATA" -> [y EXCEPT !.prot = "WAITING_FOR_END"]
       [] Head(x.input) = "VALUE" -> [y EXCEPT !.prot = "WAITING_FOR_GET_DATA"]
       [] Head(x.input) = "END" -> [y EXCEPT !.prot = "WAITING_FOR_GET"]
       [] OTHER -> y

\* Mutation of Done: any line of the answer to a get completes it.
Done_any(x) == TRUE
Done(x) == x.prot # "WAITING_FOR_GET_DATA" /\ Head(x.input) = "END"

\* One turn of read_callback's loop.
ReadReturns(t) ==
  /\ th[t].sub = "read" /\ (conn[t].input = <<>> \/ conn[t].read = "IDLE")
  /\ Moves(t, [th[t] EXCEPT !.sub = "check"]) /\ UNCHANGED conn

Reads(t, state) == th[t].sub = "read" /\ conn[t].read = state /\ conn[t].input # <<>>

\* finish_op, and drive_write_machine after it.
ReadGet(t) ==
  LET x == conn[t]
  IN /\ Reads(t, "WAITING_FOR_GET")
     /\ \E y \in IF Done(x) THEN drive_write_machine(t, pop_op(Taken(x))) ELSE {Taken(x)} : Conn(t, y)
     /\ Goes(t)

ReadSet(t) ==
  /\ Reads(t, "WAITING_FOR_SET")
  /\ \E y \in drive_write_machine(t, pop_op(Taken(conn[t]))) : Conn(t, y)
  /\ Goes(t)

ReadLoading(t) ==
  LET x == [pop_op(Taken(conn[t])) EXCEPT !.completed = @ + 1]
  IN /\ Reads(t, "LOADING")
     /\ Conn(t, IF x.completed = Records THEN [x EXCEPT !.read = "IDLE"] ELSE Ahead(x))
     /\ Goes(t)

ReadSetup(t) ==
  /\ Reads(t, "CONN_SETUP")
  /\ Conn(t, [conn[t] EXCEPT !.input = Tail(@), !.read = "IDLE"])
  /\ Goes(t)

\* The server answers in order.  Every answer is one of these: an error line is
\* not (handle_response takes one for a line of the value when it waits for a
\* get, and then waits on; a set is completed by any line).
Answers(op) ==
  CASE op = "GET" -> {<<"END">>} \cup (IF cfg.binary THEN {} ELSE {<<"VALUE", "DATA", "END">>})
    [] op = "SET" -> {<<"STORED">>}
    [] op = "SASL" -> {<<"AUTH">>}

\* An answer comes whole, all its lines at once: that handle_response finds part
\* of one, returns false and goes on at the next event is left out.
Answer(t) ==
  /\ conn[t].srv # <<>> /\ Stage(t) # "done"
  /\ \E a \in Answers(Head(conn[t].srv)) :
       Conn(t, [conn[t] EXCEPT !.srv = Tail(@), !.input = @ \o a])
  /\ Goes(t)

Late(t) ==
  /\ Timed(t) /\ ~conn[t].late
  /\ Conn(t, [conn[t] EXCEPT !.late = TRUE]) /\ Goes(t)

Expire(t) ==
  /\ Timed(t) /\ ~th[t].expired /\ th[t].sub # "enter"
  /\ Moves(t, [th[t] EXCEPT !.expired = TRUE]) /\ UNCHANGED conn

Thread(t) ==
  \/ Barrier(t) \/ SyncBegin(t) \/ SyncEnd(t) \/ start_loading(t) \/ StartTimed(t) \/ Check(t)
  \/ Connected(t) \/ ReadEvent(t) \/ TimerEvent(t)
  \/ ReadReturns(t) \/ ReadGet(t) \/ ReadSet(t) \/ ReadLoading(t) \/ ReadSetup(t)

MainThread(p) == StartThreads(p) \/ JoinThreads(p) \/ EndRound(p)
Protocol == MasterSend \/ MasterRecv \/ \E a \in Agents : AgentServe(a)

Next ==
  \/ Protocol
  \/ \E p \in Procs : MainThread(p)
  \/ \E t \in Threads : Thread(t) \/ NoEvent(t) \/ Answer(t) \/ Late(t) \/ Expire(t)

\* Threads run, messages and answers arrive, and time passes.
Fairness ==
  /\ WF_vars(Protocol) /\ \A p \in Procs : WF_vars(MainThread(p))
  /\ \A t \in Procs \X (1 .. MaxThreads) :
       /\ WF_vars(t \in Threads /\ Thread(t))
       /\ WF_vars(t \in Threads /\ Answer(t))
       /\ WF_vars(t \in Threads /\ Late(t))
       /\ WF_vars(t \in Threads /\ Expire(t))

Spec == Init /\ [][Next]_vars /\ Fairness

-----------------------------------------------------------------------------
(* Properties *)

(* Nobody hears another message than the protocol says: sync_agent never   *)
(* ends the program "out of sync", and stats are not taken for a sync,     *)
(* although some agents finish while others still run, round after round.  *)
(* It is claimed where every agent has threads, and the master too when    *)
(* there is a warm-up: go's branch for a process without threads           *)
(* synchronizes once, and only in the master (Threadless in MCMutilate).   *)
InStep == ~wrong

LastSync == CHOOSE n \in DOMAIN Program : Program[n] = "sync" /\ \A k \in n + 1 .. Len(Program) : Program[k] # "sync"

(* "Following that, they synchronize and finally do the heavy lifting":    *)
(* when a thread of any process measures, every thread of every process is *)
(* connected, has loaded and has drained its warm-up, and synchronizes or  *)
(* has, in this round.                                                     *)
StartTogether ==
  \A t, u \in Threads : Stage(t) = "run" => th[u].round = th[t].round /\ th[u].at >= LastSync

Ends(lines) ==
  LET last == SelectSeq(lines, LAMBDA l : l \in {"END", "STORED"})
  IN [n \in DOMAIN last |-> IF last[n] = "END" THEN "GET" ELSE "SET"]

(* Every answer is counted for the operation it answers: what the server   *)
(* has still to answer and what has come of answers is the queue of        *)
(* operations, in order, also from the load to the warm-up to the run.     *)
(* The server's part is assumed: answers in order, each of them whole, and *)
(* no error line in answer to a get.                                       *)
Aligned ==
  \A t \in Threads : conn[t].read \notin {"INIT_READ", "CONN_SETUP"} =>
    Ends(conn[t].input) \o conn[t].srv = conn[t].op_queue

(* Every run ends: no thread is left in an event loop without an event to  *)
(* come, no process at a barrier or in a synchronization.                  *)
Finishes == <>(main[Master] = "end")
=============================================================================
