-------------------------- MODULE MCAutomationRuns --------------------------
(* A workflow with a delay, a split, a condition and a tag, and a shorter one *)
(* that the tag starts; an update may put either in the other's place.        *)
EXTENDS AutomationRuns

Edge(n, m, h) == [source |-> n, target |-> m, handle |-> h]

MCWorkflow ==
    [long |-> [nodes |-> {"t", "w", "s", "g", "a"},
               kind  |-> [t |-> "trigger", w |-> "delay", s |-> "split", g |-> "tag", a |-> "act"],
               edges |-> <<Edge("t", "w", ""), Edge("w", "s", ""),
                           Edge("s", "g", "A"), Edge("s", "a", "B")>>,
               event |-> "contact_added", reentry |-> FALSE],
     short |-> [nodes |-> {"t", "s", "a", "c", "u"},
                kind  |-> [t |-> "trigger", s |-> "split", a |-> "unknown",
                           c |-> "condition", u |-> "untag"],
                edges |-> <<Edge("t", "a", ""), Edge("t", "s", ""), Edge("s", "c", "A"),
                            Edge("c", "u", "yes"), Edge("c", "a", "no")>>,
                event |-> "tag_added", reentry |-> TRUE]]

MCInitialDef == [a \in Automations |-> "long"]
MCSplitBranch == [r \in Runs |-> IF r = "r1" THEN "A" ELSE "B"]
=============================================================================
