------------------------- MODULE MCDashboardPages ----------------------------
(* The pages for TLC.  Two tabs of a browser and three projects, one of which
   is created on the way; two lists of sessions; two invites that two windows
   have open, and two passwords; a ledger of three calls, one of
   no agent and no session and two of one tool with a priced and an unpriced
   model; a trace of four spans, one of which is stored twice; the spans of
   two projects, two sessions, an agent's own server and a model; three servers,
   of every health but "down", one of which is configured for all projects; the
   settings page with two users. *)
EXTENDS Dashboard

MCTabs  == {"left", "right"}
MCEarly == {1, 2}
MCLate  == {3}

Row(agent, failing, recent) == [agent |-> agent, failed |-> failing, recent |-> recent]
MCViews == {"one", "two"}
MCRows  == {Row("bot", FALSE, TRUE), Row("crew", TRUE, TRUE), Row("bot", TRUE, FALSE)}
MCWords == {"bot"}

MCScreens   == {"left", "right"}
MCInvites   == {"first", "second"}
MCPasswords == {"alpha", "beta"}

Cost(server, tool, agent, session, model, tokens, age) ==
    [server |-> server, tool |-> tool, agent |-> agent, session |-> session,
     model |-> model, counted |-> tokens > 0, tokens |-> tokens, project |-> "one", age |-> age]
MCLedger == { Cost("llm", "chat", "bot", "s", "gpt", 2, 1),
              Cost("llm", "chat", "bot", "s", "other", 1, 24),
              Cost("files", "read", Unset, Unset, "gpt", 0, 1) }
MCPriced  == {"gpt"}
MCPeriods == {1, 24}
MCPayers  == {"one"}

Span(id, parent, kind, status, tokens) ==
    [id |-> id, parent |-> parent, kind |-> kind,
     tool |-> IF id = "prompt" THEN "session" ELSE id, status |-> status, tokens |-> tokens,
     model |-> id = "ask", payload |-> kind = "tool_call"]
MCSpans == { Span("run", NoParent, "agent", "success", 0),
             Span("ask", "run", "agent", "error", 1),
             Span("read", "ask", "tool_call", "timeout", 0),
             Span("prompt", NoParent, "agent", "success", 0) }
MCResent == {s \in MCSpans : s.id = "read"}

Reported(project, age, server, session, failing) ==
    [project |-> project, age |-> age, server |-> server, session |-> session, failed |-> failing,
     kind |-> "tool_call", model |-> "no model", tokens |-> 0]
Asked(project, age, session, model, tokens) ==
    [project |-> project, age |-> age, server |-> "bot", session |-> session, failed |-> FALSE,
     kind |-> "agent", model |-> model, tokens |-> tokens]
MCHomeCalls == { Reported("one", 1, "files", "s", FALSE), Reported("one", 24, "files", "s", TRUE),
                 Reported("one", 24, "bot", "t", FALSE), Reported("two", 1, "files", NoSession, FALSE),
                 Asked("one", 24, "s", "gpt", 2), Asked("two", 1, NoSession, "gpt", 1) }
Server(project, name, status, reachable, severities) ==
    [project |-> project, name |-> name, status |-> status, reachable |-> reachable,
     configured |-> name = "files", findings |-> {[severity |-> x] : x \in severities}]
MCHomeServers == { Server("one", "files", "up", TRUE, {"critical", "low"}),
                   Server("one", "mail", "degraded", FALSE, {}),
                   Server("two", "clock", "unknown", TRUE, {}) }
MCHomeProjects == {"one", AllProjects}
MCHours  == {1, 24}
MCAgentsKnown == {"bot"}
=============================================================================
