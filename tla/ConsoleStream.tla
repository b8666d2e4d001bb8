---------------------------- MODULE ConsoleStream ----------------------------
(***************************************************************************)
(* Which Agents a page of the web console shows as online.  The Platform   *)
(* announces to every console socket that an Agent registered or that a    *)
(* handler of one ended, and lists the registered ones to a new socket.    *)
(* The page lays what it was told over the list it polls, which goes by    *)
(* heartbeats.  Its socket is opened again when it closes.  Tokens stay    *)
(* valid; heartbeats come in time.                                         *)
(***************************************************************************)
EXTENDS Naturals, Sequences

CONSTANTS Agent,
          MaxHandlers,  \* bound: connections of Agents
          MaxSockets    \* bound: connections of the page

ASSUME StreamAssumption == MaxHandlers \in Nat /\ MaxSockets \in Nat

VARIABLES served,       \* handle_agent_socket, for each connection of an Agent
          owner,        \* that connection's Agent
          entry,        \* ConnectionManager._connections
          beating,      \* Agents with a heartbeat not longer ago than the timeout
          broken,       \* the page's sockets that no frame gets through any more
          consoles,     \* ConnectionManager._consoles
          snapshot,     \* Agents console_socket has still to list to a socket
          socket,       \* the page's socket, the last one opened, or none
          opened,       \* sockets opened so far
          inbox,        \* frames on their way to the page
          overlay,      \* agentOnline
          polled,       \* Agents the list fetched last has as online
          missed,       \* Agents whose end the page was not told last (history)
          replaced      \* Agents one of whose handlers ended last beside another (history)

registry == <<served, owner, entry>>
links == <<broken, consoles, snapshot>>
page == <<socket, opened, inbox, overlay, polled>>
streamVars == <<registry, beating, links, page, missed, replaced>>

------------------------------------------------------------------------------
Handler == 1 .. MaxHandlers
Socket == 1 .. MaxSockets
None == 0

\* "entered": in the registry, not announced.  "left": out of it, not announced.
ServedState == {"none", "entered", "serving", "left", "gone"}

StreamInit ==
    /\ served = [h \in Handler |-> "none"]
    /\ owner \in [Handler -> Agent]
    /\ entry = [a \in Agent |-> None]
    /\ beating = {}
    /\ broken = {}
    /\ consoles = {}
    /\ snapshot = [c \in Socket |-> {}]
    /\ socket = None
    /\ opened = 0
    /\ inbox = <<>>
    /\ overlay = [a \in Agent |-> "none"]
    /\ polled = {}
    /\ missed = {}
    /\ replaced = {}

Present(a) == \E h \in Handler : owner[h] = a /\ served[h] \in {"entered", "serving"}

ServedTo(h, state) == served' = [served EXCEPT ![h] = state]

\* A frame for the page gets there unless it is sent to an old socket or a broken one.
Reachable == socket \in consoles \ broken

Tell(a, status) == inbox' = IF Reachable THEN Append(inbox, <<a, status>>) ELSE inbox

\* Sockets that are broken are taken off the list if their send fails; TCP may
\* take the frame all the same.
Prune == \E failed \in SUBSET (consoles \cap broken) : consoles' = consoles \ failed

------------------------------------------------------------------------------
\* ConnectionManager and handle_agent_socket

Enter(h) ==
    /\ served[h] = "none"
    /\ \A g \in Handler : g < h => served[g] # "none"
    /\ ServedTo(h, "entered")
    /\ entry' = [entry EXCEPT ![owner[h]] = h]
    /\ UNCHANGED <<owner, beating, links, page, missed, replaced>>

\* Mutant: the broadcast ends with the first socket that fails.
AnnounceUntilFailure(h) ==
    /\ served[h] = "entered"
    /\ ServedTo(h, "serving")
    /\ IF consoles \cap broken = {} THEN Tell(owner[h], "online") ELSE UNCHANGED inbox
    /\ Prune
    /\ replaced' = IF entry[owner[h]] = h THEN replaced \ {owner[h]} ELSE replaced
    /\ UNCHANGED <<owner, entry, beating, broken, snapshot, socket, opened, overlay, polled,
                   missed>>

\* The end of register.
Announce(h) ==
    /\ served[h] = "entered"
    /\ ServedTo(h, "serving")
    /\ Tell(owner[h], "online")
    /\ Prune
    /\ replaced' = IF entry[owner[h]] = h THEN replaced \ {owner[h]} ELSE replaced
    /\ UNCHANGED <<owner, entry, beating, broken, snapshot, socket, opened, overlay, polled,
                   missed>>

\* The connection is lost, or the handler raises: disconnect takes the Agent's entry out,
\* whichever handler's it is,
Leave(h) ==
    /\ served[h] \in {"entered", "serving"}
    /\ ServedTo(h, "left")
    /\ entry' = [entry EXCEPT ![owner[h]] = None]
    /\ UNCHANGED <<owner, beating, links, page, missed, replaced>>

\* and says so.
AnnounceLeave(h) ==
    /\ served[h] = "left"
    /\ ServedTo(h, "gone")
    /\ Tell(owner[h], "offline")
    /\ Prune
    /\ LET a == owner[h]
           heard == Reachable /\ a \notin snapshot[socket]
       IN  /\ missed' = IF heard THEN missed \ {a} ELSE missed \cup {a}
           /\ replaced' = IF Present(a) THEN replaced \cup {a} ELSE replaced
    /\ UNCHANGED <<owner, entry, beating, broken, snapshot, socket, opened, overlay, polled>>

Heartbeat(a) ==
    /\ \E h \in Handler : owner[h] = a /\ served[h] = "serving"
    /\ beating' = beating \cup {a}
    /\ UNCHANGED <<registry, links, page, missed, replaced>>

Expire(a) ==
    /\ ~Present(a)
    /\ beating' = beating \ {a}
    /\ UNCHANGED <<registry, links, page, missed, replaced>>

------------------------------------------------------------------------------
\* console_socket

\* Mutant: the new socket is told of changes only.
SubscribeBare(c) ==
    /\ c = socket /\ c \notin consoles \cup broken
    /\ consoles' = consoles \cup {c}
    /\ UNCHANGED <<registry, beating, broken, snapshot, page, missed, replaced>>

\* add_console, and online_agents is read at once; the frames follow one by one.
Subscribe(c) ==
    /\ c = socket /\ c \notin consoles \cup broken
    /\ consoles' = consoles \cup {c}
    /\ snapshot' = [snapshot EXCEPT ![c] = {a \in Agent : entry[a] # None}]
    /\ UNCHANGED <<registry, beating, broken, page, missed, replaced>>

SendSnapshot(c, a) ==
    /\ c \in consoles /\ a \in snapshot[c]
    /\ snapshot' = [snapshot EXCEPT ![c] = @ \ {a}]
    /\ inbox' = IF c = socket /\ c \notin broken THEN Append(inbox, <<a, "online">>) ELSE inbox
    /\ UNCHANGED <<registry, beating, broken, consoles, socket, opened, overlay, polled,
                   missed, replaced>>

ConsoleEnds(c) ==
    /\ c \in consoles \cap broken
    /\ consoles' = consoles \ {c}
    /\ snapshot' = [snapshot EXCEPT ![c] = {}]
    /\ UNCHANGED <<registry, beating, broken, page, missed, replaced>>

Break ==
    /\ socket # None
    /\ broken' = broken \cup {socket}
    /\ UNCHANGED <<registry, beating, consoles, snapshot, page, missed, replaced>>

------------------------------------------------------------------------------
\* The page: connectConsole, useConsoleStream and the interval of its list

Connect ==
    /\ socket = None /\ opened < MaxSockets
    /\ socket' = opened + 1
    /\ opened' = opened + 1
    /\ UNCHANGED <<registry, beating, links, inbox, overlay, polled, missed, replaced>>

\* onmessage.
Receive ==
    /\ inbox # <<>>
    /\ overlay' = [overlay EXCEPT ![Head(inbox)[1]] = Head(inbox)[2]]
    /\ inbox' = Tail(inbox)
    /\ UNCHANGED <<registry, beating, links, socket, opened, polled, missed, replaced>>

LostEnds == {a \in Agent : \E i \in DOMAIN inbox : inbox[i] = <<a, "offline">>}

\* onclose.  The overlay stays; a timer opens the next socket.
Close ==
    /\ socket \in broken
    /\ socket' = None
    /\ inbox' = <<>>
    /\ missed' = missed \cup LostEnds
    /\ UNCHANGED <<registry, beating, links, opened, overlay, polled, replaced>>

\* The page is left and entered again: everything anew.
Reload ==
    /\ socket # None
    /\ broken' = broken \cup {socket}
    /\ socket' = None
    /\ inbox' = <<>>
    /\ overlay' = [a \in Agent |-> "none"]
    /\ polled' = beating
    /\ missed' = {}
    /\ UNCHANGED <<registry, beating, consoles, snapshot, opened, replaced>>

Poll ==
    /\ polled' = beating
    /\ UNCHANGED <<registry, beating, links, socket, opened, inbox, overlay, missed, replaced>>

------------------------------------------------------------------------------
StreamNext ==
    \/ \E h \in Handler : Enter(h) \/ Announce(h) \/ Leave(h) \/ AnnounceLeave(h)
    \/ \E a \in Agent : Heartbeat(a) \/ Expire(a)
    \/ \E c \in Socket : Subscribe(c) \/ ConsoleEnds(c)
    \/ \E c \in Socket, a \in Agent : SendSnapshot(c, a)
    \/ Break \/ Connect \/ Receive \/ Close \/ Reload \/ Poll

StreamSpec == StreamInit /\ [][StreamNext]_streamVars

------------------------------------------------------------------------------
\* The types of all parts.
StreamTypeOK ==
    /\ served \in [Handler -> ServedState]
    /\ owner \in [Handler -> Agent]
    /\ entry \in [Agent -> Handler \cup {None}]
    /\ beating \subseteq Agent
    /\ broken \subseteq Socket
    /\ consoles \subseteq Socket
    /\ snapshot \in [Socket -> SUBSET Agent]
    /\ socket \in Socket \cup {None}
    /\ opened \in 0 .. MaxSockets
    /\ inbox \in Seq(Agent \X {"online", "offline"})
    /\ overlay \in [Agent -> {"none", "online", "offline"}]
    /\ polled \subseteq Agent
    /\ missed \subseteq Agent
    /\ replaced \subseteq Agent

\* isOnline of TasksPage and SysOpsPage.
Shown(a) == overlay[a] = "online" \/ (overlay[a] = "none" /\ a \in polled)

\* Nothing is under way, and the list has been polled since heartbeats came or ran out.
Still ==
    /\ Reachable /\ snapshot[socket] = {} /\ inbox = <<>>
    /\ \A h \in Handler : served[h] \notin {"entered", "left"}
    /\ \A a \in Agent : a \in polled <=> Present(a)

\* A page in good connection shows every Agent that is connected, unless the end of
\* another handler of that Agent was announced last; and only those, unless the page was
\* not told of an end, or was told and then listed the Agent from the snapshot before it:
\* polling does not make up for that.
ShownIsTrue ==
    Still => \A a \in Agent :
        /\ Present(a) => Shown(a) \/ a \in replaced
        /\ Shown(a) => Present(a) \/ a \in missed
==============================================================================
