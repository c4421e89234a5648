----------------------------- MODULE MCWorkers -----------------------------
(***************************************************************************)
(* Workers for TLC: a scope chosen at the start keeps the part that moves  *)
(* small, each scope in a direction of its own.  The fairness of the parts *)
(* is that of their LiveSpec and FairSpec.                                 *)
(***************************************************************************)
EXTENDS Workers

VARIABLE scope

Section(k, path, to) == [kind |-> k, path |-> path, to |-> to]
Edit(f) == Section("update", f, f)

MCPatches ==
    {<<Edit("f")>>, <<Edit("f"), Edit("f")>>, <<Edit("f"), Section("add", "g", "g")>>,
     <<Section("move", "f", "g")>>, <<Section("delete", "g", "g"), Edit("f")>>}
PeerPatches == {<<Section("move", "f", "g")>>, <<Edit("f"), Section("add", "g", "g")>>}
MCFirstFiles == {{"f"}, {"f", "g"}}

ScopesOf(p) ==
    CASE p = "steers" -> {"two steers", "three claims"}
      [] p = "chats" -> {"long chat", "peer chat", "server chats", "both chats"}
      [] p = "turn" -> {"interactive", "parallel"}
      [] p = "files" -> {"patches", "peer patches"}
      [] OTHER -> {p}

\* Chats without a round in between, and without a second attempt.
ShortChats ==
    \A w \in Chats!Worker :
        /\ chatWorker[w].emitted <= IF chatWorker[w].at = "chatting" THEN 1 ELSE 2
        /\ ~chatWorker[w].again

\* Two steers and two claims, or one steer and three claims, every response
\* received.  A long chat on the
\* server or on a peer, two short ones on the server, or one of each that nobody
\* cancels.  Calls that are approved one after another, or, in two chats, two
\* that run together.  All patches of the server's workspaces, or two of them
\* with more failures in those of a peer.  Of two steers, drafts or calls the
\* first is the first to move.
InScope ==
    /\ steer["s2"].status # "absent" => steer["s1"].status # "absent"
    /\ drafts["d2"] # "none" => drafts["d1"] # "none"
    /\ phase["b"] # "idle" => phase["a"] # "idle"
    /\ CASE scope = "two steers" -> holder <= 2
         [] scope = "three claims" -> steer["s2"].status = "absent" /\ lost = 0
         [] scope = "long chat" -> status["r2"] = "absent" /\ status["r3"] = "absent"
         [] scope = "peer chat" -> status["r1"] = "absent" /\ status["r2"] = "absent"
         [] scope = "server chats" -> status["r3"] = "absent" /\ ShortChats
         [] scope = "both chats" -> status["r2"] = "absent" /\ cancels = 0 /\ ShortChats
         [] scope = "interactive" -> interactive
         [] scope = "parallel" -> ~interactive /\ calls <= 2 /\ chats <= 2
         [] scope = "patches" -> ~goesOn /\ faults <= 1
         [] scope = "peer patches" ->
              goesOn /\ \A c \in Call : patch[c] \in PeerPatches \cup {<< >>}
         [] OTHER -> TRUE

MCInit == Init /\ scope \in ScopesOf(part) /\ InScope
MCNext == Next /\ UNCHANGED scope /\ InScope'

SteersFairness ==
    LET Does(A) == scope = "three claims" /\ SteersStep(A) /\ UNCHANGED scope /\ InScope'
    IN  /\ WF_vars(Does(Steers!ClaimActivation))
        /\ WF_vars(Does(Steers!Recover /\ ~Steers!Beats(holder)))
        /\ \A c \in Steers!Claim : /\ WF_vars(Does(Steers!Heartbeat(c)))
                                   /\ WF_vars(Does(Steers!PassOn(c, "s1")))
StreamFairness ==
    LET Does(A) == part = "stream" /\ StreamStep(A) /\ UNCHANGED scope
    IN  /\ WF_vars(Does(Stream!Client))
        /\ \A a \in Stream!Attempt :
             WF_vars(Does(Stream!Bridge(a))) /\ WF_vars(Does(Stream!Writer(a)))

MCSpec == MCInit /\ [][MCNext]_<<vars, scope>> /\ SteersFairness /\ StreamFairness

\* Nothing that the two ends of a connection do leaves one of them waiting: a
\* steer is passed on to an executor or its activation ends, however often
\* workers die, unless the response of a heartbeat is lost; and a worker that
\* reads a model stream gets a response or an error, unless the queue of the
\* bridge overflowed and the writer is left with nothing to say.  (Where a steer
\* must be passed on there is one.)
NothingHangs ==
    /\ scope = "three claims" => Steers!IsPassedOn("s1")
    /\ part = "stream" => Stream!RequestEnds
=============================================================================
