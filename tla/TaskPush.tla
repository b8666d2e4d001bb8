------------------------------ MODULE TaskPush ------------------------------
(***************************************************************************)
(* Assigning collect tasks to Agents.  A request assign_task stores the    *)
(* assignment with the task and with the Agent, commits, and pushes a      *)
(* frame over the Agent's WebSocket.  The ConnectionManager keeps one      *)
(* entry per Agent; a handler serves each connection and removes the       *)
(* Agent's entry when it ends.  The Agent reconnects by itself; it fetches *)
(* its tasks when its process starts.                                      *)
(***************************************************************************)
EXTENDS Naturals, FiniteSets

CONSTANTS Agent, Task,
          Awake,          \* the Agents that run; the others have registered once
          Call,           \* assign_task requests
          MaxConnections  \* bound: WebSocket connections ever opened

ASSUME PushAssumption == Awake \subseteq Agent /\ MaxConnections \in Nat

VARIABLES row,      \* the Agents in a task's committed assignments
          node,     \* an Agent's committed assigned_task_ids
          known,    \* Agents with a row of their own
          call,
          entry,    \* ConnectionManager._connections
          server,   \* the Platform's handler of a connection
          line,     \* the connection itself
          owner,    \* the Agent that opened it
          down,     \* pushes on their way to the Agent
          agent,    \* the Agent process
          conn,     \* its connection
          dirs      \* the task directories on its disk

database == <<row, node, known>>
links == <<entry, server, line, owner, down>>
agents == <<agent, conn, dirs>>
pushVars == <<database, call, links, agents>>

------------------------------------------------------------------------------
Connection == 1 .. MaxConnections
None == 0

\* "stored": committed, to be pushed.
CallStage == {"none", "read", "written", "stored", "answered", "refused"}

Calls == [stage : CallStage, task : Task, agent : Agent, seen : SUBSET Agent, had : SUBSET Task]

\* "accepted": before the register frame was handled.
ServerState == {"none", "accepted", "serving", "ended"}

AgentState == {"off", "idle", "joining", "session"}

PushInit ==
    /\ row = [t \in Task |-> {}]
    /\ node = [a \in Agent |-> {}]
    /\ known = Agent \ Awake
    /\ call \in [Call -> {k \in Calls : k.stage = "none" /\ k.seen = {} /\ k.had = {}}]
    /\ entry = [a \in Agent |-> None]
    /\ server = [c \in Connection |-> "none"]
    /\ line = [c \in Connection |-> "none"]
    /\ owner \in [Connection -> Awake]
    /\ down = [c \in Connection |-> {}]
    /\ agent = [a \in Agent |-> "off"]
    /\ conn = [a \in Agent |-> None]
    /\ dirs = [a \in Agent |-> {}]

------------------------------------------------------------------------------
\* POST /tasks/{task_id}/assign

At(r) == call[r].stage
MoveTo(r, stage) == call' = [call EXCEPT ![r].stage = stage]

\* TaskService.assign reads the task ...
ReadTask(r) ==
    /\ At(r) = "none"
    /\ call' = [call EXCEPT ![r].stage = "read", ![r].seen = row[call[r].task]]
    /\ UNCHANGED <<database, links, agents>>

\* ... writes the list it has read with one more at its end (add_assignment), and reads the
\* Agent: a KeyError, if that has never registered.  The lock this write takes holds up other
\* writers until the commit and no readers, so it does not show in the outcome.
ReadAgent(r) ==
    /\ At(r) = "read"
    /\ IF call[r].agent \in known
       THEN call' = [call EXCEPT ![r].stage = "written", ![r].had = node[call[r].agent]]
       ELSE MoveTo(r, "refused")
    /\ UNCHANGED <<database, links, agents>>

Attaches(r) == call[r].task \notin call[r].had

\* Mutant: the assignments are replaced by the new one.
CommitOnlyNew(r) ==
    /\ At(r) = "written"
    /\ row' = [row EXCEPT ![call[r].task] = {call[r].agent}]
    /\ node' = IF Attaches(r)
               THEN [node EXCEPT ![call[r].agent] = call[r].had \cup {call[r].task}] ELSE node
    /\ MoveTo(r, "stored")
    /\ UNCHANGED <<known, links, agents>>

\* AgentNodeRepository.assign_task, and the commit.
CommitAssignment(r) ==
    /\ At(r) = "written"
    /\ row' = [row EXCEPT ![call[r].task] = call[r].seen \cup {call[r].agent}]
    /\ node' = IF Attaches(r)
               THEN [node EXCEPT ![call[r].agent] = call[r].had \cup {call[r].task}] ELSE node
    /\ MoveTo(r, "stored")
    /\ UNCHANGED <<known, links, agents>>

CallFails(r) ==
    /\ At(r) \in {"read", "written"}
    /\ MoveTo(r, "refused")
    /\ UNCHANGED <<database, links, agents>>

\* push_task.  Without an entry, or over a broken line, nobody gets the frame, and
\* nobody sends it again.
PushTask(r) ==
    /\ At(r) = "stored"
    /\ LET c == entry[call[r].agent] IN
         down' = IF c # None /\ line[c] = "up" THEN [down EXCEPT ![c] = @ \cup {r}] ELSE down
    /\ MoveTo(r, "answered")
    /\ UNCHANGED <<database, entry, server, line, owner, agents>>

------------------------------------------------------------------------------
\* handle_agent_socket

Enter(a, c) == entry' = [entry EXCEPT ![a] = c]

\* The register frame: the row, its commit, the entry, and the answer.
Register(c) ==
    /\ server[c] = "accepted"
    /\ server' = [server EXCEPT ![c] = "serving"]
    /\ known' = known \cup {owner[c]}
    /\ Enter(owner[c], c)
    /\ UNCHANGED <<row, node, call, line, owner, down, agents>>

\* The commit raises; the finally clause knows the Agent already.
RegisterFails(c) ==
    /\ server[c] = "accepted"
    /\ server' = [server EXCEPT ![c] = "ended"]
    /\ Enter(owner[c], None)
    /\ UNCHANGED <<database, call, line, owner, down, agents>>

\* The connection is lost before the register frame.
NeverRegisters(c) ==
    /\ server[c] = "accepted"
    /\ line[c] = "broken"
    /\ server' = [server EXCEPT ![c] = "ended"]
    /\ UNCHANGED <<database, call, entry, line, owner, down, agents>>

\* Mutant: the handler ends without its finally clause.
HandlerForgets(c) ==
    /\ server[c] = "serving"
    /\ server' = [server EXCEPT ![c] = "ended"]
    /\ UNCHANGED <<database, call, entry, line, owner, down, agents>>

\* It reads from a lost connection, or raises, and removes the Agent's entry, whichever
\* connection that is by now.
HandlerEnds(c) ==
    /\ server[c] = "serving"
    /\ server' = [server EXCEPT ![c] = "ended"]
    /\ Enter(owner[c], None)
    /\ UNCHANGED <<database, call, line, owner, down, agents>>

Interrupted(stage) ==
    IF stage = "none" THEN "none" ELSE IF stage \in {"stored", "answered"} THEN "answered" ELSE "refused"

PlatformRestarts ==
    /\ entry' = [a \in Agent |-> None]
    /\ server' = [c \in Connection |-> IF server[c] = "none" THEN "none" ELSE "ended"]
    /\ line' = [c \in Connection |-> IF line[c] = "up" THEN "broken" ELSE line[c]]
    /\ call' = [r \in Call |-> [call[r] EXCEPT !.stage = Interrupted(@)]]
    /\ UNCHANGED <<database, owner, down, agents>>

Breaks(c) ==
    /\ line[c] = "up"
    /\ line' = [line EXCEPT ![c] = "broken"]
    /\ UNCHANGED <<database, call, entry, server, owner, down, agents>>

------------------------------------------------------------------------------
\* The Agent

AgentTo(a, state, c) ==
    /\ agent' = [agent EXCEPT ![a] = state]
    /\ conn' = [conn EXCEPT ![a] = c]

\* Mutant: only the Agent's own list is fetched, not the tasks'.
StartWithoutFetch(a) ==
    /\ a \in Awake /\ agent[a] = "off"
    /\ AgentTo(a, "idle", None)
    /\ UNCHANGED <<database, call, links, dirs>>

\* run, _run_daemon: the tasks assigned to it get their directories, and the loop starts.
Start(a) ==
    /\ a \in Awake /\ agent[a] = "off"
    /\ AgentTo(a, "idle", None)
    /\ dirs' = [dirs EXCEPT ![a] = @ \cup {t \in Task : a \in row[t]}]
    /\ UNCHANGED <<database, call, links>>

\* fetch_assigned_tasks fails, and gives an empty list; nothing asks again.
StartUnfetched(a) ==
    /\ a \in Awake /\ agent[a] = "off"
    /\ AgentTo(a, "idle", None)
    /\ UNCHANGED <<database, call, links, dirs>>

\* AgentSocket.connect sends the register frame ...
Connect(a, c) ==
    /\ agent[a] = "idle"
    /\ line[c] = "none" /\ owner[c] = a
    /\ \A d \in Connection : d < c => line[d] # "none"
    /\ line' = [line EXCEPT ![c] = "up"]
    /\ server' = [server EXCEPT ![c] = "accepted"]
    /\ AgentTo(a, "joining", c)
    /\ UNCHANGED <<database, call, entry, owner, down, dirs>>

\* ... and waits for down.registered.
Joined(a) ==
    /\ agent[a] = "joining"
    /\ server[conn[a]] # "accepted"
    /\ line[conn[a]] = "up"
    /\ AgentTo(a, "session", conn[a])
    /\ UNCHANGED <<database, call, links, dirs>>

\* Mutant: the frame is acknowledged, and the connection lost with the frame in hand.
ReceiveAndLose(a, r) ==
    /\ agent[a] = "session"
    /\ r \in down[conn[a]]
    /\ down' = [down EXCEPT ![conn[a]] = @ \ {r}]
    /\ UNCHANGED <<database, call, entry, server, line, owner, agents>>

\* The ack, then on_frame, which makes the directory.
Receive(a, r) ==
    /\ agent[a] = "session"
    /\ r \in down[conn[a]]
    /\ down' = [down EXCEPT ![conn[a]] = @ \ {r}]
    /\ dirs' = [dirs EXCEPT ![a] = @ \cup {call[r].task}]
    /\ UNCHANGED <<database, call, entry, server, line, owner, agent, conn>>

\* The ack, or the directory, fails: the frame is gone, and the session too.
ReceiveFails(a, r) ==
    /\ agent[a] = "session"
    /\ r \in down[conn[a]]
    /\ line' = [line EXCEPT ![conn[a]] = "broken"]
    /\ down' = [down EXCEPT ![conn[a]] = {}]
    /\ AgentTo(a, "idle", None)
    /\ UNCHANGED <<database, call, entry, server, owner, dirs>>

\* A send or the first receive meets the lost connection.
Leave(a) ==
    /\ agent[a] \in {"joining", "session"}
    /\ line[conn[a]] = "broken" \/ server[conn[a]] = "ended"
    /\ line' = [line EXCEPT ![conn[a]] = "broken"]
    /\ down' = [down EXCEPT ![conn[a]] = {}]
    /\ AgentTo(a, "idle", None)
    /\ UNCHANGED <<database, call, entry, server, owner, dirs>>

Stop(a) ==
    /\ agent[a] # "off"
    /\ IF conn[a] = None THEN UNCHANGED <<line, down>>
       ELSE /\ line' = [line EXCEPT ![conn[a]] = "broken"]
            /\ down' = [down EXCEPT ![conn[a]] = {}]
    /\ AgentTo(a, "off", None)
    /\ UNCHANGED <<database, call, entry, server, owner, dirs>>

------------------------------------------------------------------------------
CallStep(r) == ReadTask(r) \/ ReadAgent(r) \/ CommitAssignment(r) \/ PushTask(r)

PushNext ==
    \/ \E r \in Call : CallStep(r) \/ CallFails(r)
    \/ \E c \in Connection :
         Register(c) \/ RegisterFails(c) \/ NeverRegisters(c) \/ HandlerEnds(c) \/ Breaks(c)
    \/ PlatformRestarts
    \/ \E a \in Agent : Start(a) \/ StartUnfetched(a) \/ Joined(a) \/ Leave(a) \/ Stop(a)
    \/ \E a \in Agent, c \in Connection : Connect(a, c)
    \/ \E a \in Agent, r \in Call : Receive(a, r) \/ ReceiveFails(a, r)

\* A call that has read goes on; a session receives what was sent to it, and its heartbeats
\* notice a lost connection.
PushFairness ==
    /\ \A r \in Call : WF_pushVars(At(r) # "none" /\ CallStep(r))
    /\ \A a \in Awake, r \in Call : WF_pushVars(Receive(a, r))
    /\ \A a \in Awake : WF_pushVars(Leave(a))

PushSpec == PushInit /\ [][PushNext]_pushVars /\ PushFairness

------------------------------------------------------------------------------
\* The types of all parts.
PushTypeOK ==
    /\ row \in [Task -> SUBSET Agent]
    /\ node \in [Agent -> SUBSET Task]
    /\ known \subseteq Agent
    /\ call \in [Call -> Calls]
    /\ entry \in [Agent -> Connection \cup {None}]
    /\ server \in [Connection -> ServerState]
    /\ line \in [Connection -> {"none", "up", "broken"}]
    /\ owner \in [Connection -> Agent]
    /\ down \in [Connection -> SUBSET Call]
    /\ agent \in [Agent -> AgentState]
    /\ conn \in [Agent -> Connection \cup {None}]
    /\ dirs \in [Agent -> SUBSET Task]

\* What the ConnectionManager takes for an Agent's connection is one of that Agent that a
\* handler still serves.  The reverse does not hold: an Agent in a session the manager does
\* not know of has had another connection, whose handler ended or registered after it, or
\* its own handler has ended.
Deaf(a) == agent[a] = "session" /\ entry[a] # conn[a]

RegistryIsHonest ==
    /\ \A a \in Agent : entry[a] # None => owner[entry[a]] = a /\ server[entry[a]] = "serving"
    /\ \A a \in Agent : Deaf(a) =>
         \/ server[conn[a]] = "ended"
         \/ \E c \in Connection \ {conn[a]} : owner[c] = a /\ server[c] \in {"serving", "ended"}

\* An answered assignment stays on both sides, with the task and with the Agent, unless
\* another call wrote the list it had read before.
Answered(r) == At(r) \in {"stored", "answered"}

AssignmentsStay ==
    \A r \in Call : Answered(r) =>
        /\ \/ call[r].agent \in row[call[r].task]
           \/ \E q \in Call \ {r} : /\ Answered(q) /\ call[q].task = call[r].task
                                    /\ call[r].agent \notin call[q].seen
        /\ \/ call[r].task \in node[call[r].agent]
           \/ \E q \in Call \ {r} : /\ Answered(q) /\ call[q].agent = call[r].agent
                                    /\ call[r].task \notin call[q].had

\* An assignment becomes a directory on the Agent's disk: by the push, if the Agent is in good
\* connection until then; and whatever becomes of the push, by the starts of the Agent, if
\* it is started again and again with a Platform that answers.
Settled(a) == agent[a] = "session" /\ entry[a] = conn[a]

PushArrives ==
    \A r \in Call : (At(r) = "stored" /\ Settled(call[r].agent))
                       ~> (call[r].task \in dirs[call[r].agent] \/ ~Settled(call[r].agent))

StartsMakeUp ==
    \A a \in Awake : []<><<Start(a)>>_pushVars =>
        \A t \in Task : (a \in row[t]) ~> (t \in dirs[a] \/ a \notin row[t])

AssignmentArrives == PushArrives /\ StartsMakeUp
=============================================================================
