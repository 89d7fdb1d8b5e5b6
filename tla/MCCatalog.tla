----------------------------- MODULE MCCatalog --------------------------------
(* The pages of agents and servers for TLC: for the About tab two servers, one
   in the catalog and the other reached by health checks; for the prevention
   configuration an agent of two projects, of which the API may be bound to the
   second, and which has the only default when the settings' section opens; for
   the list of servers, one that is registered and one that is only configured,
   seen from a project and from none; for the panels, two projects with different
   changes and callers; for the list of agents, every history of one or two
   sessions among four kinds, of which the page lists two, so that new ones push
   the old out. *)
EXTENDS CatalogPage

MCNames   == {"files", "search"}
MCKnown   == {"files"}
MCChecked == {"search"}
MCTexts   == {"", "me"}

MCProjects   == {"one", "two"}
MCBindings   == {AllProjects, "two"}
MCThresholds == {"strict", "loose"}
MCUnfit == {"blank"}
MCOverridden == [MCProjects -> {"strict", Unset}]
MCDefaulted  == {[p \in MCProjects |-> IF p = "two" THEN "loose" ELSE Unset]}

MCServers    == {"files", "search"}
MCPlaces     == {"one", NoProject}
MCConfigured == {"search"}
MCRegistered == {"files"}

MCScopes  == {"one", "two"}
MCDrifted == [p \in MCScopes |-> IF p = "one" THEN {"read", "write"} ELSE {"read"}]
MCWindows == {1, 24}
MCCallers == [k \in MCScopes \X MCWindows |->
                 IF k[1] = "two" THEN {} ELSE IF k[2] = 1 THEN {"bot"} ELSE {"bot", "crew"}]

Session(starter, agents, calls, failing, at) ==
    [starter |-> starter, agents |-> agents, calls |-> calls, failed |-> failing,
     healthy |-> failing = 0, servers |-> IF calls > 1 THEN {"files"} ELSE {}, at |-> at]
MCSessions ==
    {Session("bot", {"bot", "crew"}, 3, 1, at) : at \in {1, 2}}
        \cup {Session("bot", {"bot"}, 1, 0, 2), Session("crew", {}, 2, 2, 1)}
MCHappened  == {h \in UNION {[1 .. n -> MCSessions] : n \in 1 .. 2} :
                    \A i, j \in DOMAIN h : i < j => h[i].at <= h[j].at}
MCComing    == {Session("crew", {"crew"}, 1, 0, 3)}
MCLookbacks == {1, 24}
MCWithin(seq, w) == IF w = 24 THEN seq ELSE SelectSeq(seq, LAMBDA s : s.at >= 2)
=============================================================================
