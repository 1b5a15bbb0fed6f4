------------------------------- MODULE MCResearch -------------------------------
(* Small instances of Research and of Reliability.  Neither calls the other: one  *)
(* run checks both, and which one moves is chosen at the start.                   *)
EXTENDS Research, Reliability

VARIABLE focus

Req(domain, https, robots, declared) ==
  [domain |-> domain, https |-> https, robots |-> robots, declared |-> declared]
PageOf(type, size, redirects, via, final, hash, claims) ==
  [type |-> type, size |-> size, redirects |-> redirects, via |-> via, final |-> final,
   hash |-> hash, claims |-> claims]
To(domain, https) == [domain |-> domain, https |-> https]
Says(subject, text) == [subject |-> subject, text |-> text]

MCDomains == {"primary", "secondary", "elsewhere"}
MCAllowlist == {"primary", "secondary"}
MCPrimary == {"primary"}
MCQueries == {"one", "many"}
MCSearchMap ==
  [q \in MCQueries |->
     IF q = "one" THEN <<Req("primary", TRUE, FALSE, 0), Req("elsewhere", TRUE, FALSE, 0)>>
     ELSE <<Req("primary", TRUE, FALSE, 0), Req("secondary", TRUE, FALSE, 0),
            Req("secondary", FALSE, FALSE, 0), Req("primary", TRUE, FALSE, 0)>>]
MCProbes == {Req("primary", TRUE, FALSE, 9), Req("elsewhere", TRUE, FALSE, 0), Req("primary", TRUE, TRUE, 0)}
\* The domain asked answers, or another one does after redirects: one in plain text, one
\* by way of a domain off the list; or the transport raises there.
MCPages ==
  {PageOf("text", 1, 0, <<>>, "primary", "h1", <<Says("s", "t1")>>),
   PageOf("text", 1, 1, <<To("elsewhere", FALSE), To("secondary", TRUE)>>, "secondary", "h2",
          <<Says("s", "t2"), Says("r", "t1")>>),
   PageOf("text", 1, 1, <<To("elsewhere", TRUE)>>, "elsewhere", "h3", <<Says("s", "t1")>>),
   PageOf("text", 9, 0, <<>>, "primary", "h4", <<>>),
   PageOf("image", 1, 0, <<>>, "primary", "h5", <<>>),
   PageOf("text", 1, 9, <<To("primary", FALSE)>>, "primary", "h6", <<>>),
   PageOf("", 1, 0, <<>>, None, "h7", <<Says("s", "t1")>>)}
MCFailures == {[via |-> <<>>], [via |-> <<To("elsewhere", FALSE)>>]}

vars == <<researchVars, reliabilityVars, focus>>

Init == focus \in {"research", "reliability"} /\ ResearchInit /\ ReliabilityInit

Next ==
  /\ UNCHANGED focus
  /\ \/ focus = "research" /\ ResearchNext /\ UNCHANGED reliabilityVars
     \/ focus = "reliability" /\ ReliabilityNext /\ UNCHANGED researchVars

Spec == Init /\ [][Next]_vars
=============================================================================
