-------------------------------- MODULE Agents --------------------------------
(***************************************************************************)
(* The agent registry (agents/service.py).  An agent is a row that is      *)
(* enabled, disabled or soft-deleted, and every change announces itself in *)
(* the outbox within its transaction.  A request loads the row, changes    *)
(* the loaded copy, and its UPDATE carries only the columns that differ    *)
(* from what it loaded; the row lock orders the UPDATEs of overlapping     *)
(* requests, and each event is appended after the UPDATE, so the events    *)
(* commit in the order of the writes.                                      *)
(***************************************************************************)
EXTENDS Naturals, FiniteSets

CONSTANTS Slugs,        \* agent slugs of the organization
          Callers,      \* overlapping requests
          MaxAgentCalls \* bound: requests in a behaviour

VARIABLES agents,       \* slug -> its row, or NoAgent
          call,         \* caller -> what it loaded and is about to commit
          news,         \* slug -> the events of the agent, latest kind
          late,         \* slugs an overlapping request wrote after the delete
          called        \* requests so far

agentVars == <<agents, call, news, late, called>>

NoAgent == [status |-> "none"]
Agent == [status : {"active", "disabled"}, deleted : BOOLEAN, name : 0..1]
NoCall == [op |-> "rest"]

AgentsInit ==
    /\ agents = [s \in Slugs |-> NoAgent]
    /\ call = [c \in Callers |-> NoCall]
    /\ news = [s \in Slugs |-> "nothing"]
    /\ late = {} /\ called = 0

\* The row a request may load: it exists and is not deleted.
Visible(s) == agents[s] # NoAgent /\ ~agents[s].deleted

\* create: the slug must be free, deleted rows included.
LoadCreate(c, s) ==
    /\ agents[s] = NoAgent
    /\ call' = [call EXCEPT ![c] = [op |-> "create", slug |-> s]]

\* update, set_status and delete load the row first; a status that is already set
\* ends the request.
LoadChange(c, s, op) ==
    /\ Visible(s)
    /\ (op = "enable") => agents[s].status = "disabled"
    /\ (op = "disable") => agents[s].status = "active"
    /\ call' = [call EXCEPT ![c] = [op |-> op, slug |-> s, loaded |-> agents[s]]]

BeginCall(c) ==
    /\ call[c] = NoCall /\ called < MaxAgentCalls
    /\ called' = called + 1
    /\ \E s \in Slugs : LoadCreate(c, s) \/ \E op \in {"rename", "enable", "disable", "delete"} : LoadChange(c, s, op)
    /\ UNCHANGED <<agents, news, late>>

\* The insert runs into the unique constraint when the slug was taken meanwhile.
CommitCreate(c) ==
    LET s == call[c].slug IN
    /\ call[c].op = "create"
    /\ IF agents[s] = NoAgent
       THEN /\ agents' = [agents EXCEPT ![s] = [status |-> "active", deleted |-> FALSE, name |-> 0]]
            /\ news' = [news EXCEPT ![s] = "up"]
       ELSE UNCHANGED <<agents, news>>
    /\ call' = [call EXCEPT ![c] = NoCall]
    /\ UNCHANGED <<late, called>>

\* What the request makes of its copy.
Edited(op, a) ==
    CASE op = "rename" -> [a EXCEPT !.name = 1 - @]
      [] op = "enable" -> [a EXCEPT !.status = "active"]
      [] op = "disable" -> [a EXCEPT !.status = "disabled"]
      [] op = "delete" -> [a EXCEPT !.deleted = TRUE, !.status = "disabled"]

\* The UPDATE carries the columns that differ from what was loaded.
Flush(row, loaded, edited) ==
    [f \in DOMAIN row |-> IF edited[f] # loaded[f] THEN edited[f] ELSE row[f]]

\* The event of a change: "disabled" for disable and delete, "updated" with the
\* status for enable, and nothing about the status for a change of name.
Announced(op, before) ==
    CASE op = "enable" -> "up" [] op \in {"disable", "delete"} -> "down" [] OTHER -> before

CommitChange(c) ==
    LET s == call[c].slug  op == call[c].op IN
    /\ op \notin {"rest", "create"}
    /\ agents' = [agents EXCEPT ![s] = Flush(@, call[c].loaded, Edited(op, call[c].loaded))]
    /\ news' = [news EXCEPT ![s] = Announced(op, @)]
    /\ late' = IF agents[s].deleted THEN late \cup {s} ELSE late
    /\ call' = [call EXCEPT ![c] = NoCall]
    /\ UNCHANGED called

AgentsNext == \E c \in Callers : BeginCall(c) \/ CommitCreate(c) \/ CommitChange(c)

----------------------------------------------------------------------------
IsActive(s) == Visible(s) /\ agents[s].status = "active"

\* What the events last said of an agent is what it is, whatever requests overlap:
\* an agent announced as disabled is not active, and one announced as active is,
\* unless an overlapping request wrote to it after its deletion.
NewsTrue ==
    /\ agents \in [Slugs -> Agent \cup {NoAgent}]
    /\ \A s \in Slugs : /\ (news[s] = "down") => ~IsActive(s)
                        /\ (news[s] = "up" /\ s \notin late) => IsActive(s)

\* A soft-deleted agent is billing history: no request brings it back or removes
\* its row, one that loaded it before the deletion included.
DeletedStays ==
    [][\A s \in Slugs : (agents[s] # NoAgent /\ agents[s].deleted) =>
           (agents'[s] # NoAgent /\ agents'[s].deleted)]_agentVars
====
