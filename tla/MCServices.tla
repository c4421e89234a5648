----------------------------- MODULE MCServices -----------------------------
(***************************************************************************)
(* Services for TLC: a scope chosen at the start keeps the part that moves *)
(* small, each scope in a direction of its own.  The fairness of the parts *)
(* is that of their LiveSpec and FairSpec.                                 *)
(***************************************************************************)
EXTENDS Services

VARIABLE scope

ScopesOf(p) ==
    CASE p = "local" -> {"patient", "hasty", "failing"}
      [] p = "relay" -> {"two peers", "package"}
      [] p = "pulls" -> {"changes", "restarted", "reviews", "pages"}
      [] OTHER -> {p}

Sent(kinds) == {e \in sent : e.kind \in kinds}

\* A peer that waits for every answer; one that gives up claim requests the
\* server still works on; one that does so while installs fail.  Two peers and
\* a chat, or a chat and a package of one.  Two changes on GitHub and a comment;
\* one change, a comment, and a restart of the server; changes and reviews; two
\* comments of which one is behind the first page.
InScope ==
    /\ "p2" \notin gone /\ awaited["p2"] = "none"
    /\ posted["d"] # NoTask => scope = "pages" /\ posted["c"] # NoTask
    /\ CASE scope = "patient" -> timeouts = 0
         [] scope = "hasty" -> timeouts <= 1 /\ jobFailures = 0
         [] scope = "failing" -> /\ timeouts <= 1 /\ jobFailures <= 1
                                /\ Cardinality(DOMAIN action) <= 2
         [] scope = "two peers" -> owner["package"] = "none"
         [] scope = "package" -> agent["p2"] = "new"
         [] scope = "changes" -> restarts = 0 /\ Sent({"review"}) = {}
         [] scope = "restarted" -> Cardinality(Sent({"pull"})) <= 1 /\ Sent({"review"}) = {}
         [] scope = "reviews" -> restarts = 0 /\ Sent({"comment"}) = {}
         [] scope = "pages" -> /\ restarts = 0
                               /\ Sent({"pull", "review"}) = {} /\ Cardinality(sent) <= 3
         [] OTHER -> TRUE

MCInit == Init /\ scope \in ScopesOf(part)
MCNext == Next /\ UNCHANGED scope /\ InScope'

LocalFairness ==
    LET Does(A) == scope = "hasty" /\ LocalStep(A) /\ UNCHANGED scope /\ InScope'
    IN  /\ \A r \in Request : WF_vars(Does(Local!ServerStep(r)))
        /\ WF_vars(Does(Local!PeerStep("p1")))
        /\ \A a \in Local!Action :
             WF_vars(Does(/\ a \in Local!Actions /\ Local!LeaseLapses(a)
                          /\ lapses' = lapses))
PullFairness ==
    WF_vars(part = "pulls" /\ PullStep(Pulls!ReconcileStep) /\ UNCHANGED scope /\ InScope')

MCSpec == MCInit /\ [][MCNext]_<<vars, scope>> /\ LocalFairness /\ PullFairness

\* Every local action comes to an end, or the peer it is pinned to is gone, also
\* one that was leased to a request its peer had given up: again and again none
\* is left.
ActionEnds ==
    scope = "hasty" ~>
        \A a \in DOMAIN action :
            action[a].status \in Local!Terminal \/ action[a].peer \in gone

\* A merged pull request whose record says open is found, also when the webhook
\* was lost, failed, or was overtaken by an older one; and a review comment is
\* followed up as long as its record is open, unless it is behind the first page.
MergedIsSeen == Pulls!MergedIsSeen /\ Pulls!CommentIsFollowed
=============================================================================
