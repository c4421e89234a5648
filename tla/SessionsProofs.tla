---------------------------- MODULE SessionsProofs ----------------------------
(***************************************************************************)
(* Machine-checked proofs about a SessionRun as its windows meet it, for   *)
(* every number of requests, threads, clients, questions and branches.     *)
(* Each part has an invariant of its own; a step of one part leaves the    *)
(* variables of the others unchanged.                                      *)
(***************************************************************************)
EXTENDS Sessions, FiniteSetTheorems, SequenceTheorems, WellFoundedInduction, TLAPS

-----------------------------------------------------------------------------
(* Numbers.                                                                *)

\* A set of natural numbers has a least one.
LEMMA LeastNumber ==
    ASSUME NEW S, S \subseteq Nat, S # {}
    PROVE  \E x \in S : \A y \in S : x <= y
<1> DEFINE Before == {p \in Nat \X Nat : p[1] < p[2]}
<1>1. IsWellFoundedOn(Before, Nat)
    BY NatLessThanWellFounded DEF OpToRel
<1>2. PICK x \in S : \A y \in S : <<y, x>> \notin Before
    <2> HIDE DEF Before
    <2>1. QED
        BY <1>1, WFMin
<1>3. \A y \in S : x \in Nat /\ y \in Nat /\ ~(y < x)
    BY <1>2
<1>4. QED
    BY <1>2, <1>3

\* A bounded one has a greatest.
LEMMA GreatestNumber ==
    ASSUME NEW n \in Nat, NEW S, S \subseteq 0..n, S # {}
    PROVE  \E x \in S : \A y \in S : x >= y
<1>1. PICK D : D = {n - x : x \in S}
    OBVIOUS
<1>2. D \subseteq Nat /\ D # {}
    <2>1. \A x \in S : x \in Nat /\ x <= n
        OBVIOUS
    <2>2. \A x \in S : n - x \in Nat /\ n - x \in D
        BY <1>1, <2>1
    <2>3. QED
        BY <1>1, <2>2
<1>3. PICK d \in D : \A e \in D : d <= e
    BY <1>2, LeastNumber
<1>4. PICK x \in S : d = n - x
    BY <1>1
<1>5. \A y \in S : n - y \in D /\ y \in 0..n
    BY <1>1
<1>6. \A y \in S : x >= y
    BY <1>3, <1>4, <1>5
<1>7. QED
    BY <1>6

-----------------------------------------------------------------------------
(* Starting a SessionRun.                                                  *)

Run == Start!SessionRun
HandlerRow ==
    {Start!Free}
        \cup [at : {"missing"}, request : RequestId, session : {0}]
        \cup [at : {"created", "submitted", "bound"}, request : RequestId, session : Run]

StartTypes ==
    /\ created \in 0..MaxRuns
    /\ projection \in [Run -> RequestId \cup {"none", "gone"}]
    /\ runOf \in [Run -> {"absent", "open", "failed"}]
    /\ bindingOf \in [Run -> {"none", "active", "closed"}]
    /\ handler \in [Handler -> HandlerRow]
    /\ told \in [RequestId -> SUBSET Run]
    /\ origin \in [Run -> RequestId \cup {"none"}]
    /\ disturbed \subseteq RequestId

\* What a handler works on was created for its request, and a projection that has
\* a request id stands for a SessionRun of that request.
RunFacts ==
    /\ \A s \in Run : s > created => /\ origin[s] = "none" /\ projection[s] = "gone"
                                     /\ runOf[s] = "absent" /\ bindingOf[s] = "none"
    /\ \A s \in Run : bindingOf[s] # "none" => runOf[s] # "absent"
    /\ \A s \in Run : projection[s] \in RequestId => origin[s] = projection[s]
HandlerFacts ==
    \A h \in Handler :
        /\ handler[h].session <= created
        /\ handler[h].at \in {"created", "submitted", "bound"} =>
              origin[handler[h].session] = handler[h].request
        /\ handler[h].at \in {"submitted", "bound"} => runOf[handler[h].session] # "absent"
        /\ handler[h].at = "bound" => bindingOf[handler[h].session] # "none"

\* As long as nothing disturbs a request, one handler works on it, and its one
\* SessionRun keeps the projection that answers the repetitions.
Undisturbed(q) ==
    /\ \A g, h \in Handler : handler[g].request = q /\ handler[h].request = q => g = h
    /\ \A h \in Handler : handler[h].at = "missing" /\ handler[h].request = q =>
          \A s \in Run : origin[s] # q
    /\ \A s \in Run : origin[s] = q => projection[s] = q
    /\ \A s, t \in Run : origin[s] = q /\ origin[t] = q => s = t

StartInv ==
    /\ StartTypes /\ RunFacts /\ HandlerFacts
    /\ Start!ToldIsOwn
    /\ \A q \in RequestId \ disturbed : Undisturbed(q)

\* What the proofs use of the constants of a start.
LEMMA StartConstants ==
    /\ MaxRuns \in Nat /\ Run = 1..MaxRuns
    /\ "none" \notin RequestId /\ "gone" \notin RequestId
BY SessionsAssumption DEF Start!SessionRunStartAssumption, Run, Start!SessionRun

\* The forms of a handler.
LEMMA HandlerRows ==
    ASSUME NEW row \in HandlerRow
    PROVE  /\ row.at \in {"idle", "missing", "created", "submitted", "bound"}
           /\ row.at = "idle" <=> row = Start!Free
           /\ row.at = "idle" <=> row.request = "none"
           /\ row.at # "idle" => row.request \in RequestId
           /\ row.at = "missing" =>
                 row = [at |-> "missing", request |-> row.request, session |-> 0]
           /\ row.at \in {"idle", "missing"} => row.session = 0
           /\ row.at \in {"created", "submitted", "bound"} =>
                 /\ row.session \in Run
                 /\ row = [at |-> row.at, request |-> row.request, session |-> row.session]
           /\ row.session \in Nat
BY StartConstants DEF HandlerRow, Start!Free

LEMMA StartInit ==
    ASSUME Start!Init
    PROVE  StartInv
<1>1. StartTypes
    BY StartConstants DEF Start!Init, StartTypes, HandlerRow, Run
<1>2. RunFacts /\ HandlerFacts /\ Start!ToldIsOwn
    BY StartConstants
    DEF Start!Init, RunFacts, HandlerFacts, Start!ToldIsOwn, Start!Free, Run
<1>3. ASSUME NEW q \in RequestId PROVE Undisturbed(q)
    BY <1>3, StartConstants DEF Start!Init, Undisturbed, Start!Free, Run
<1>4. QED
    BY <1>1, <1>2, <1>3 DEF StartInv

LEMMA StartStays ==
    ASSUME StartInv, UNCHANGED startVars
    PROVE  StartInv'
BY DEF StartInv, startVars, StartTypes, RunFacts, HandlerFacts, Undisturbed,
       Start!ToldIsOwn, Start!Started

\* What a request that arrives leaves as it was.
LEMMA ReceiveKeeps ==
    ASSUME StartInv, NEW h \in Handler, NEW q \in RequestId, Start!Receive(h, q)
    PROVE  StartInv'
<1>1. PICK row : row = [at |-> "missing", request |-> q, session |-> 0]
    OBVIOUS
<1>2. row \in HandlerRow
    BY <1>1 DEF HandlerRow
<1>3. /\ handler[h] = Start!Free
      /\ handler' = [handler EXCEPT ![h] = row] \/ handler' = handler
      /\ disturbed \subseteq disturbed' /\ disturbed' \subseteq disturbed \cup {q}
      /\ (\E g \in Handler : handler[g].request = q) => q \in disturbed'
    BY <1>1, HandlerRows DEF Start!Receive, StartInv, StartTypes
<1>4. \A g \in Handler : handler'[g] = handler[g] \/ (g = h /\ handler'[g] = row)
    BY <1>3 DEF StartInv, StartTypes
<1>5. told' = told \/ \E s \in Run : /\ told' = [told EXCEPT ![q] = @ \cup {s}]
                                     /\ projection[s] = q /\ bindingOf[s] = "active"
    BY DEF Start!Receive, Start!Found, Start!Observable, Run
<1>6. UNCHANGED <<created, projection, runOf, bindingOf, origin>>
    BY DEF Start!Receive
<1>7. StartTypes'
    BY <1>2, <1>3, <1>5, <1>6 DEF StartInv, StartTypes
<1>8. RunFacts'
    BY <1>6 DEF StartInv, RunFacts
<1>9. HandlerFacts'
    <2>1. row.at = "missing" /\ row.session = 0
        BY <1>1
    <2>2. 0 <= created
        BY StartConstants DEF StartInv, StartTypes
    <2>3. SUFFICES ASSUME NEW g \in Handler
                   PROVE  /\ handler'[g].session <= created
                          /\ handler'[g].at \in {"created", "submitted", "bound"} =>
                                origin[handler'[g].session] = handler'[g].request
                          /\ handler'[g].at \in {"submitted", "bound"} =>
                                runOf[handler'[g].session] # "absent"
                          /\ handler'[g].at = "bound" =>
                                bindingOf[handler'[g].session] # "none"
        BY <1>6 DEF HandlerFacts
    <2>4. CASE handler'[g] = handler[g]
        BY <2>3, <2>4 DEF StartInv, HandlerFacts
    <2>5. CASE handler'[g] = row
        BY <2>1, <2>2, <2>5
    <2>6. QED
        BY <1>4, <2>4, <2>5
<1>10. Start!ToldIsOwn'
    BY <1>5, <1>6 DEF StartInv, StartTypes, RunFacts, Start!ToldIsOwn, Start!Started, Run
<1>11. ASSUME NEW u \in RequestId \ disturbed' PROVE Undisturbed(u)'
    <2>1. Undisturbed(u)
        BY <1>3, <1>11 DEF StartInv
    <2>2. CASE handler' = handler
        BY <1>6, <2>1, <2>2 DEF Undisturbed
    <2>3. CASE handler' # handler
        <3>1. \A s \in Run : projection[s] # q
            BY <2>3 DEF Start!Receive, Start!Found, Run
        <3>2. u = q => \A g \in Handler : handler[g].request # u
            BY <1>3, <1>11
        <3>3. \A g \in Handler : handler'[g].request = u =>
                  (handler[g].request = u /\ handler'[g] = handler[g]) \/ (u = q /\ g = h)
            BY <1>1, <1>4
        <3>4. \A f, g \in Handler : handler'[f].request = u /\ handler'[g].request = u => f = g
            BY <2>1, <3>2, <3>3 DEF Undisturbed
        <3>5. \A g \in Handler : handler'[g].at = "missing" /\ handler'[g].request = u =>
                  \A s \in Run : origin[s] # u
            BY <2>1, <3>1, <3>3 DEF Undisturbed
        <3>6. QED
            BY <1>6, <2>1, <3>4, <3>5 DEF Undisturbed
    <2>4. QED
        BY <2>2, <2>3
<1>12. QED
    BY <1>7, <1>8, <1>9, <1>10, <1>11 DEF StartInv

\* The new SessionRun is the first of an undisturbed request.
LEMMA CreateKeeps ==
    ASSUME StartInv, NEW h \in Handler, Start!Create(h)
    PROVE  StartInv'
<1>1. PICK n : n = created + 1
    OBVIOUS
<1>2. PICK q : q = handler[h].request
    OBVIOUS
<1>3. PICK row : row = [at |-> "created", request |-> q, session |-> n]
    OBVIOUS
<1>4. /\ n \in Run /\ n > created /\ created \in Nat /\ q \in RequestId
      /\ handler[h] = [at |-> "missing", request |-> q, session |-> 0]
      /\ row \in HandlerRow
    BY <1>1, <1>2, <1>3, StartConstants, HandlerRows
    DEF Start!Create, StartInv, StartTypes, HandlerRow
<1>5. /\ created' = n /\ projection' = [projection EXCEPT ![n] = q]
      /\ origin' = [origin EXCEPT ![n] = q]
      /\ UNCHANGED <<runOf, bindingOf, told, disturbed>>
    BY <1>1, <1>2 DEF Start!Create
<1>6. handler' = [handler EXCEPT ![h] = row]
    BY <1>1, <1>3, <1>4 DEF Start!Create, StartInv, StartTypes
<1>7. \A g \in Handler : handler'[g] = IF g = h THEN row ELSE handler[g]
    BY <1>6 DEF StartInv, StartTypes
<1>8. \A s \in Run : /\ projection'[s] = IF s = n THEN q ELSE projection[s]
                     /\ origin'[s] = IF s = n THEN q ELSE origin[s]
    BY <1>5 DEF StartInv, StartTypes
<1>9. StartTypes'
    BY <1>1, <1>4, <1>5, <1>6, StartConstants DEF StartInv, StartTypes
<1>10. RunFacts'
    BY <1>1, <1>4, <1>5, <1>8, StartConstants DEF StartInv, RunFacts
<1>11. \A g \in Handler : handler[g].session \in Nat /\ handler[g].session <= created
                        /\ handler[g].session # n
    BY <1>4, HandlerRows DEF StartInv, StartTypes, HandlerFacts
<1>12. HandlerFacts'
    <2>1. SUFFICES ASSUME NEW g \in Handler
                   PROVE  /\ handler'[g].session <= n
                          /\ handler'[g].at \in {"created", "submitted", "bound"} =>
                                origin'[handler'[g].session] = handler'[g].request
                          /\ handler'[g].at \in {"submitted", "bound"} =>
                                runOf[handler'[g].session] # "absent"
                          /\ handler'[g].at = "bound" =>
                                bindingOf[handler'[g].session] # "none"
        BY <1>5 DEF HandlerFacts
    <2>2. CASE g = h
        BY <1>3, <1>4, <1>7, <1>8, <2>2, StartConstants
    <2>3. CASE g # h
        <3>1. handler'[g] = handler[g] /\ handler[g] \in HandlerRow
            BY <1>7, <2>3 DEF StartInv, StartTypes
        <3>2. handler[g].at \in {"created", "submitted", "bound"} =>
                  origin'[handler[g].session] = origin[handler[g].session]
            BY <1>8, <1>11, <3>1, HandlerRows
        <3>3. QED
            BY <1>1, <1>4, <1>11, <3>1, <3>2 DEF StartInv, HandlerFacts
    <2>4. QED
        BY <2>2, <2>3
<1>13. Start!ToldIsOwn'
    BY <1>4, <1>5, <1>8 DEF StartInv, RunFacts, Start!ToldIsOwn, Start!Started, Run
<1>14. ASSUME NEW u \in RequestId \ disturbed' PROVE Undisturbed(u)'
    <2>1. Undisturbed(u)
        BY <1>5, <1>14 DEF StartInv
    <2>2. u = q => \A s \in Run : origin[s] # u
        BY <1>4, <2>1 DEF Undisturbed
    <2>3. \A f, g \in Handler : handler'[f].request = u /\ handler'[g].request = u => f = g
        BY <1>2, <1>3, <1>7, <2>1 DEF Undisturbed
    <2>4. \A g \in Handler : handler'[g].at = "missing" /\ handler'[g].request = u => u # q
        BY <1>2, <1>3, <1>7, <2>1 DEF Undisturbed
    <2>5. \A g \in Handler : handler'[g].at = "missing" /\ handler'[g].request = u =>
              \A s \in Run : origin'[s] # u
        BY <1>3, <1>7, <1>8, <2>1, <2>4 DEF Undisturbed
    <2>6. /\ \A s \in Run : origin'[s] = u => projection'[s] = u
          /\ \A s, t \in Run : origin'[s] = u /\ origin'[t] = u => s = t
        BY <1>8, <2>1, <2>2 DEF Undisturbed
    <2>7. QED
        BY <2>3, <2>5, <2>6 DEF Undisturbed
<1>15. QED
    BY <1>9, <1>10, <1>12, <1>13, <1>14 DEF StartInv

\* A handler goes on, and nothing about the projections changes.
LEMMA HandlerKeeps ==
    ASSUME StartInv, NEW h \in Handler,
           handler[h].at \in {"created", "submitted", "bound"},
           Start!Submit(h) \/ Start!Refuse(h) \/ Start!Bind(h) \/ Start!Answer(h)
    PROVE  StartInv'
<1>1. PICK s : s = handler[h].session
    OBVIOUS
<1>2. PICK q : q = handler[h].request
    OBVIOUS
<1>3. PICK row : row = handler'[h]
    OBVIOUS
<1>4. /\ s \in Run /\ q \in RequestId /\ s <= created /\ origin[s] = q
      /\ handler[h] = [at |-> handler[h].at, request |-> q, session |-> s]
    BY <1>1, <1>2, HandlerRows DEF StartInv, StartTypes, HandlerFacts
<1>5. /\ UNCHANGED <<created, projection, origin, disturbed>>
      /\ runOf' = runOf \/ (Start!Submit(h) /\ runOf' = [runOf EXCEPT ![s] = "open"])
      /\ bindingOf' = bindingOf
            \/ (Start!Bind(h) /\ bindingOf' = [bindingOf EXCEPT ![s] = "active"])
      /\ told' = told
            \/ (Start!Answer(h) /\ told' = [told EXCEPT ![q] = @ \cup {s}])
    BY <1>1, <1>2
    DEF Start!Submit, Start!Refuse, Start!Bind, Start!Answer, Start!history
<1>6. /\ row = Start!Free \/ row = [at |-> row.at, request |-> q, session |-> s]
      /\ row.at \in {"idle", "submitted", "bound"}
      /\ row.at = "idle" <=> row = Start!Free
      /\ row.at = "submitted" => Start!Submit(h)
      /\ row.at = "bound" => Start!Bind(h)
      /\ handler' = [handler EXCEPT ![h] = row]
    BY <1>3, <1>4
    DEF Start!Submit, Start!Refuse, Start!Bind, Start!Answer, StartInv, StartTypes,
        Start!Free
<1>7. row \in HandlerRow
    BY <1>4, <1>6 DEF HandlerRow
<1>8. \A g \in Handler : handler'[g] = IF g = h THEN row ELSE handler[g]
    BY <1>6 DEF StartInv, StartTypes
<1>9. /\ \A t \in Run : runOf'[t] = IF Start!Submit(h) /\ t = s THEN "open" ELSE runOf[t]
      /\ \A t \in Run : bindingOf'[t] =
            IF Start!Bind(h) /\ t = s THEN "active" ELSE bindingOf[t]
    <2>1. /\ Start!Submit(h) => runOf' = [runOf EXCEPT ![s] = "open"] /\ bindingOf' = bindingOf
          /\ Start!Bind(h) => bindingOf' = [bindingOf EXCEPT ![s] = "active"] /\ runOf' = runOf
          /\ Start!Refuse(h) \/ Start!Answer(h) => UNCHANGED <<runOf, bindingOf>>
        BY <1>1 DEF Start!Submit, Start!Bind, Start!Refuse, Start!Answer
    <2>2. runOf' = runOf \/ Start!Submit(h)
        BY <1>5
    <2>3. QED
        BY <1>4, <1>5, <2>1 DEF StartInv, StartTypes
<1>10. StartTypes'
    <2>1. /\ runOf' \in [Run -> {"absent", "open", "failed"}]
          /\ bindingOf' \in [Run -> {"none", "active", "closed"}]
        BY <1>4, <1>5 DEF StartInv, StartTypes
    <2>2. told' \in [RequestId -> SUBSET Run]
        BY <1>4, <1>5 DEF StartInv, StartTypes
    <2>3. handler' \in [Handler -> HandlerRow]
        BY <1>6, <1>7 DEF StartInv, StartTypes
    <2>4. QED
        BY <1>5, <2>1, <2>2, <2>3 DEF StartInv, StartTypes
<1>11. Start!Bind(h) => runOf[s] # "absent"
    BY <1>1 DEF Start!Bind, StartInv, HandlerFacts
<1>12. RunFacts'
    BY <1>4, <1>5, <1>9, <1>11, StartConstants DEF StartInv, RunFacts, StartTypes
<1>13. HandlerFacts'
    <2>1. SUFFICES ASSUME NEW g \in Handler
                   PROVE  /\ handler'[g].session <= created
                          /\ handler'[g].at \in {"created", "submitted", "bound"} =>
                                origin[handler'[g].session] = handler'[g].request
                          /\ handler'[g].at \in {"submitted", "bound"} =>
                                runOf'[handler'[g].session] # "absent"
                          /\ handler'[g].at = "bound" =>
                                bindingOf'[handler'[g].session] # "none"
        BY <1>5 DEF HandlerFacts
    <2>2. CASE g = h
        <3>1. CASE row = Start!Free
            BY <1>4, <1>8, <2>2, <3>1, StartConstants DEF Start!Free, StartInv, StartTypes
        <3>2. CASE row # Start!Free
            BY <1>4, <1>6, <1>8, <1>9, <1>11, <2>2, <3>2
        <3>3. QED
            BY <3>1, <3>2
    <2>3. CASE g # h
        <3>1. handler'[g] = handler[g] /\ handler[g] \in HandlerRow
            BY <1>8, <2>3 DEF StartInv, StartTypes
        <3>2. QED
            BY <1>9, <3>1, HandlerRows DEF StartInv, HandlerFacts
    <2>4. QED
        BY <2>2, <2>3
<1>14. Start!ToldIsOwn'
    <2>1. Start!Answer(h) => runOf[s] # "absent" /\ bindingOf[s] # "none"
        BY <1>1 DEF Start!Answer, StartInv, HandlerFacts
    <2>2. QED
        BY <1>4, <1>5, <1>9, <2>1
        DEF StartInv, StartTypes, Start!ToldIsOwn, Start!Started, Run
<1>15. ASSUME NEW u \in RequestId \ disturbed' PROVE Undisturbed(u)'
    <2>1. Undisturbed(u)
        BY <1>5, <1>15 DEF StartInv
    <2>2. \A g \in Handler : handler'[g].request = u => handler[g].request = u
        BY <1>2, <1>6, <1>8, StartConstants DEF Start!Free
    <2>3. \A g \in Handler : handler'[g].at = "missing" => handler'[g] = handler[g]
        BY <1>6, <1>8
    <2>4. QED
        BY <1>5, <2>1, <2>2, <2>3 DEF Undisturbed
<1>16. QED
    BY <1>10, <1>12, <1>13, <1>14, <1>15 DEF StartInv

\* Failures, collections, recoveries and restarts.
LEMMA StartEnvironmentKeeps ==
    ASSUME StartInv,
           \/ Start!Restart
           \/ \E s \in Run : Start!Fail(s) \/ Start!Collect(s) \/ Start!Recover(s)
    PROVE  StartInv'
<1>1. CASE Start!Restart
    <2>1. /\ UNCHANGED <<created, runOf, bindingOf, told, origin>>
          /\ projection' = [s \in Run |-> "gone"]
          /\ handler' = [h \in Handler |-> Start!Free]
          /\ disturbed' = RequestId
        BY <1>1 DEF Start!Restart, Run
    <2>2. StartTypes'
        BY <2>1 DEF StartInv, StartTypes, HandlerRow
    <2>3. RunFacts' /\ HandlerFacts' /\ Start!ToldIsOwn'
        BY <2>1, StartConstants
        DEF StartInv, StartTypes, RunFacts, HandlerFacts, Start!Free, Start!ToldIsOwn,
            Start!Started
    <2>4. QED
        BY <2>1, <2>2, <2>3 DEF StartInv
<1>2. CASE \E s \in Run : Start!Fail(s) \/ Start!Recover(s)
    <2>1. PICK s \in Run : Start!Fail(s) \/ Start!Recover(s)
        BY <1>2
    <2>2. /\ UNCHANGED <<created, handler, told, origin, disturbed>>
          /\ projection' = projection
                \/ (projection[s] = "gone" /\ projection' = [projection EXCEPT ![s] = "none"])
          /\ runOf' = runOf
                \/ (runOf[s] = "open" /\ runOf' = [runOf EXCEPT ![s] = "failed"])
        BY <2>1 DEF Start!Fail, Start!Recover, Start!history
    <2>3. PICK b : b = bindingOf'[s]
        OBVIOUS
    <2>4. /\ bindingOf' = [bindingOf EXCEPT ![s] = b]
          /\ b = bindingOf[s] \/ (bindingOf[s] = "active" /\ b = "closed")
        BY <2>1, <2>3 DEF Start!Fail, Start!Recover, StartInv, StartTypes
    <2>5. projection' # projection => bindingOf[s] # "none"
        BY <2>1 DEF Start!Fail, Start!Recover
    <2>6. StartTypes'
        BY <2>2, <2>4 DEF StartInv, StartTypes
    <2>7. /\ \A t \in Run : runOf[t] # "absent" <=> runOf'[t] # "absent"
          /\ \A t \in Run : bindingOf[t] # "none" <=> bindingOf'[t] # "none"
        BY <2>2, <2>4 DEF StartInv, StartTypes
    <2>8. \A t \in Run : \/ projection'[t] = projection[t]
                         \/ /\ projection[t] = "gone" /\ projection'[t] = "none"
                            /\ bindingOf[t] # "none"
        BY <2>2, <2>5 DEF StartInv, StartTypes
    <2>9. RunFacts'
        BY <2>2, <2>7, <2>8, StartConstants DEF StartInv, StartTypes, RunFacts
    <2>10. HandlerFacts'
        BY <2>2, <2>7, HandlerRows DEF StartInv, StartTypes, HandlerFacts
    <2>11. Start!ToldIsOwn'
        BY <2>2, <2>7 DEF StartInv, StartTypes, Start!ToldIsOwn, Start!Started, Run
    <2>12. ASSUME NEW u \in RequestId \ disturbed' PROVE Undisturbed(u)'
        BY <2>2, <2>8, <2>12, StartConstants DEF StartInv, Undisturbed
    <2>13. QED
        BY <2>6, <2>9, <2>10, <2>11, <2>12 DEF StartInv
<1>3. CASE \E s \in Run : Start!Collect(s)
    <2>1. PICK s \in Run : Start!Collect(s)
        BY <1>3
    <2>2. /\ UNCHANGED <<created, runOf, bindingOf, handler, told, origin>>
          /\ projection' = [projection EXCEPT ![s] = "gone"]
          /\ disturbed' = disturbed \cup ({projection[s]} \cap RequestId)
        BY <2>1 DEF Start!Collect
    <2>3. StartTypes'
        BY <2>2 DEF StartInv, StartTypes
    <2>4. RunFacts' /\ HandlerFacts' /\ Start!ToldIsOwn'
        BY <2>2, StartConstants
        DEF StartInv, StartTypes, RunFacts, HandlerFacts, Start!ToldIsOwn, Start!Started
    <2>5. ASSUME NEW u \in RequestId \ disturbed' PROVE Undisturbed(u)'
        <3>1. Undisturbed(u) /\ projection[s] # u
            BY <2>2, <2>5 DEF StartInv
        <3>2. QED
            BY <2>2, <3>1 DEF StartInv, StartTypes, Undisturbed
    <2>6. QED
        BY <2>3, <2>4, <2>5 DEF StartInv
<1>4. QED
    BY <1>1, <1>2, <1>3

LEMMA StartNext ==
    ASSUME StartInv, Start!Next
    PROVE  StartInv'
<1>1. CASE \E h \in Handler, q \in RequestId : Start!Receive(h, q)
    BY <1>1, ReceiveKeeps
<1>2. CASE \E h \in Handler : Start!Create(h)
    BY <1>2, CreateKeeps
<1>3. CASE \E h \in Handler : \/ Start!Submit(h) \/ Start!Refuse(h)
                              \/ Start!Bind(h) \/ Start!Answer(h)
    <2>1. PICK h \in Handler : \/ Start!Submit(h) \/ Start!Refuse(h)
                              \/ Start!Bind(h) \/ Start!Answer(h)
        BY <1>3
    <2>2. handler[h].at \in {"created", "submitted", "bound"}
        BY <2>1 DEF Start!Submit, Start!Refuse, Start!Bind, Start!Answer
    <2>3. QED
        BY <2>1, <2>2, HandlerKeeps
<1>4. CASE \/ Start!Restart
           \/ \E s \in Run : Start!Fail(s) \/ Start!Collect(s) \/ Start!Recover(s)
    BY <1>4, StartEnvironmentKeeps
<1>5. QED
    BY <1>1, <1>2, <1>3, <1>4 DEF Start!Next, Run

\* What the invariant says of a start.
LEMMA StartKeeps ==
    ASSUME StartInv
    PROVE  Start!TypeOK /\ Start!ToldIsOwn /\ Start!RepeatedStartsOnce
<1>1. Start!TypeOK
    <2>1. \A h \in Handler : /\ handler[h].at \in {"idle", "missing", "created", "submitted",
                                                    "bound"}
                             /\ handler[h].session \in 0..created
        BY StartConstants, HandlerRows DEF StartInv, StartTypes, HandlerFacts
    <2>2. QED
        BY <2>1 DEF StartInv, StartTypes, RunFacts, Start!TypeOK, Run
<1>2. ASSUME NEW q \in RequestId \ disturbed PROVE Start!Cardinality(Start!Started(q)) <= 1
    <2>1. \A s, t \in Start!Started(q) : s = t
        BY <1>2 DEF StartInv, Undisturbed, Start!Started, Run
    <2>2. Start!Started(q) = {} \/ \E s : Start!Started(q) = {s}
        BY <2>1
    <2>3. Cardinality(Start!Started(q)) <= 1
        BY <2>2, FS_EmptySet, FS_Singleton
    <2>4. QED
        BY <2>3 DEF Cardinality, Start!Cardinality
<1>3. QED
    BY <1>1, <1>2 DEF StartInv, Start!RepeatedStartsOnce
-----------------------------------------------------------------------------
(* Questions to the user.                                                  *)

Outcomes == Inputs!Action \cup {"none"}
WaiterRow == [state : {"none", "requested", "resolved", "cancelled"}, action : Outcomes]
EventRow == [type : {"request", "resolved"}, input : Input, action : Outcomes]
ReplyRow == {Inputs!NoReply} \cup [input : Input, action : Inputs!UserAction]

InputTypes ==
    /\ pc \in [Input -> {"new", "registered", "waiting", "returned", "ended"}]
    /\ waiter \in [Input -> WaiterRow]
    /\ recorded \in [Input -> Outcomes] /\ result \in [Input -> Outcomes]
    /\ reply \in [Window -> ReplyRow] /\ sends \in [Window -> 0..MaxSends]
    /\ heard \in [Window -> SUBSET Inputs!Response]
    /\ owed \subseteq Input /\ events \in Seq(EventRow)

\* What is recorded of a question is what its waiter has, and what the MCP server
\* got.
Question(i) ==
    /\ pc[i] \in {"registered", "waiting"} <=> waiter[i].state # "none"
    /\ waiter[i].state = "requested" => recorded[i] = "none"
    /\ waiter[i].state \in {"resolved", "cancelled"} =>
          waiter[i].action # "none" /\ recorded[i] = waiter[i].action
    /\ pc[i] = "new" => recorded[i] = "none"
    /\ result[i] # "none" <=> pc[i] \in {"returned", "ended"}
    /\ result[i] # "none" => recorded[i] = result[i]

\* A question that is settled stays so: no answer is recorded over another.
Settled(i, action) ==
    /\ recorded[i] = action /\ action # "none"
    /\ pc[i] # "new" /\ waiter[i].state # "requested"
Asked(i) == pc[i] \notin {"new", "registered"}
Later ==
    \A i \in Input :
        /\ recorded[i] # "none" => recorded'[i] = recorded[i]
        /\ pc[i] # "new" => pc'[i] # "new"
        /\ Asked(i) => Asked(i)'
        /\ pc[i] # "new" /\ waiter[i].state # "requested" => waiter'[i].state # "requested"

ShownOf(i) == {n \in 1..Len(events) : events[n].type = "resolved" /\ events[n].input = i}
EventOK(e) ==
    /\ e.type = "resolved" => Settled(e.input, e.action)
    /\ e.type = "request" => Asked(e.input)
EventFacts ==
    /\ \A e \in {events[n] : n \in 1..Len(events)} : EventOK(e)
    /\ \A i \in Input : \A m, n \in ShownOf(i) : m = n

\* A cancel has answered what it is to show.
OwedFacts == \A i \in owed : Settled(i, "cancel")

\* What a window heard fits what is recorded.
ReplyFacts(c) ==
    LET i == reply[c].input IN
    /\ heard[c] # {} => reply[c] # Inputs!NoReply
    /\ reply[c] # Inputs!NoReply => Asked(i)
    /\ heard[c] \cap {"resolved", "already_resolved"} # {} =>
          recorded[i] = reply[c].action
    /\ "not_found" \in heard[c] => waiter[i].state # "requested"
    /\ ~({"resolved", "not_found"} \subseteq heard[c])

InputInv ==
    /\ InputTypes
    /\ \A i \in Input : Question(i)
    /\ EventFacts /\ OwedFacts
    /\ \A c \in Window : ReplyFacts(c)

\* What the proofs use of the constants and of the records of a question.
LEMMA InputConstants == MaxSends \in Nat /\ IsFiniteSet(Input)
BY SessionsAssumption DEF Inputs!UserInputsAssumption, IsFiniteSet, Inputs!IsFiniteSet

LEMMA InputsInit ==
    ASSUME Inputs!Init
    PROVE  InputInv
<1>1. InputTypes
    BY InputConstants DEF Inputs!Init, InputTypes, WaiterRow, Outcomes, Inputs!Gone, ReplyRow
<1>2. \A i \in Input : Question(i)
    BY DEF Inputs!Init, Question, Inputs!Gone
<1>3. EventFacts /\ OwedFacts
    BY DEF Inputs!Init, EventFacts, OwedFacts, ShownOf
<1>4. \A c \in Window : ReplyFacts(c)
    BY DEF Inputs!Init, ReplyFacts
<1>5. QED
    BY <1>1, <1>2, <1>3, <1>4 DEF InputInv

LEMMA InputsStay ==
    ASSUME InputInv, UNCHANGED inputsVars
    PROVE  InputInv'
<1>1. /\ pc' = pc /\ waiter' = waiter /\ recorded' = recorded /\ result' = result
      /\ reply' = reply /\ sends' = sends /\ heard' = heard /\ owed' = owed
      /\ events' = events
    BY DEF inputsVars
<1>2. InputTypes' /\ EventFacts' /\ OwedFacts'
    BY <1>1
    DEF InputInv, InputTypes, EventFacts, EventOK, ShownOf, OwedFacts, Settled, Asked
<1>3. \A i \in Input : Question(i)'
    BY <1>1 DEF InputInv, Question
<1>4. \A c \in Window : ReplyFacts(c)'
    BY <1>1 DEF InputInv, ReplyFacts, Asked
<1>5. QED
    BY <1>2, <1>3, <1>4 DEF InputInv

\* A step of a question's thread, of a window or of a close changes a question only
\* in one direction.
LEMMA QuestionsKeep ==
    ASSUME InputInv, Inputs!Next
    PROVE  /\ \A i \in Input : Question(i)'
           /\ Later
           /\ pc' \in [Input -> {"new", "registered", "waiting", "returned", "ended"}]
           /\ waiter' \in [Input -> WaiterRow]
           /\ recorded' \in [Input -> Outcomes] /\ result' \in [Input -> Outcomes]
<1> DEFINE Goal ==
        /\ \A i \in Input : Question(i)'
        /\ Later
        /\ pc' \in [Input -> {"new", "registered", "waiting", "returned", "ended"}]
        /\ waiter' \in [Input -> WaiterRow]
        /\ recorded' \in [Input -> Outcomes] /\ result' \in [Input -> Outcomes]
<1>1. InputTypes /\ \A i \in Input : Question(i)
    BY DEF InputInv
<1>2. CASE UNCHANGED <<pc, waiter, recorded, result>>
    BY <1>1, <1>2 DEF InputTypes, Question, Later, Asked
<1>3. ASSUME NEW i \in Input, Inputs!Register(i) PROVE Goal
    BY <1>1, <1>3
    DEF Inputs!Register, InputTypes, WaiterRow, Outcomes, Question, Later, Asked
<1>4. ASSUME NEW i \in Input, Inputs!Show(i) \/ Inputs!ShowResult(i) PROVE Goal
    <2>1. /\ \/ pc[i] = "registered" /\ pc' = [pc EXCEPT ![i] = "waiting"]
             \/ pc[i] = "returned" /\ pc' = [pc EXCEPT ![i] = "ended"]
          /\ UNCHANGED <<waiter, recorded, result>>
        BY <1>4 DEF Inputs!Show, Inputs!ShowResult
    <2>2. /\ waiter' = waiter /\ recorded' = recorded /\ result' = result
          /\ pc' \in [Input -> {"new", "registered", "waiting", "returned", "ended"}]
          /\ pc[i] \notin {"new"} /\ pc'[i] \in {"waiting", "ended"}
          /\ \A j \in Input : j # i => pc'[j] = pc[j]
        BY <1>1, <2>1 DEF InputTypes
    <2>3. \A j \in Input : Question(j)'
        BY <1>1, <2>1, <2>2 DEF InputTypes, Question
    <2>4. Later
        BY <1>1, <2>2 DEF Later, Asked
    <2>5. QED
        BY <1>1, <2>2, <2>3, <2>4 DEF InputTypes
<1>5. ASSUME NEW i \in Input, Inputs!Wait(i) PROVE Goal
    <2>1. PICK a : a = Inputs!Outcome(i)
        OBVIOUS
    <2>2. /\ a \in Outcomes /\ a # "none"
          /\ waiter[i].state # "requested" => recorded[i] = a
          /\ waiter[i].state = "requested" => recorded[i] = "none"
        BY <1>1, <1>5, <2>1
        DEF Inputs!Outcome, Inputs!Wait, InputTypes, WaiterRow, Outcomes, Question,
            Inputs!Action, Inputs!UserAction
    <2>3. /\ pc[i] = "waiting" /\ pc' = [pc EXCEPT ![i] = "returned"]
          /\ result' = [result EXCEPT ![i] = a] /\ recorded' = [recorded EXCEPT ![i] = a]
          /\ waiter' = [waiter EXCEPT ![i] = Inputs!Gone]
        BY <1>5, <2>1 DEF Inputs!Wait
    <2>4. QED
        BY <1>1, <2>2, <2>3
        DEF InputTypes, WaiterRow, Outcomes, Question, Later, Asked, Inputs!Gone
<1>6. ASSUME NEW c \in Window, Inputs!Reply(c), waiter' # waiter \/ recorded' # recorded
      PROVE  Goal
    <2>1. PICK i, a : i = reply[c].input /\ a = reply[c].action
        OBVIOUS
    <2>2. /\ waiter[i].state = "requested"
          /\ waiter' = [waiter EXCEPT ![i] = [state |-> "resolved", action |-> a]]
          /\ recorded' = [recorded EXCEPT ![i] = a]
          /\ UNCHANGED <<pc, result>>
        BY <1>6, <2>1 DEF Inputs!Reply, Inputs!ResponseTo
    <2>3. i \in Input /\ a \in Outcomes /\ a # "none"
        BY <1>1, <1>6, <2>1
        DEF Inputs!Reply, InputTypes, ReplyRow, Outcomes, Inputs!Action, Inputs!UserAction
    <2>4. QED
        BY <1>1, <2>2, <2>3 DEF InputTypes, WaiterRow, Question, Later, Asked
<1>7. ASSUME Inputs!AnswerOpen PROVE Goal
    <2>1. /\ \A i \in Input : waiter'[i] = IF waiter[i].state = "requested"
                          THEN [state |-> "cancelled", action |-> "cancel"] ELSE waiter[i]
          /\ \A i \in Input : recorded'[i] = IF waiter[i].state = "requested"
                                               THEN "cancel" ELSE recorded[i]
          /\ UNCHANGED <<pc, result>>
          /\ DOMAIN waiter' = Input /\ DOMAIN recorded' = Input
          /\ waiter' = [i \in Input |-> waiter'[i]] /\ recorded' = [i \in Input |-> recorded'[i]]
        BY <1>7 DEF Inputs!AnswerOpen, Inputs!Open
    <2>2. /\ waiter' \in [Input -> WaiterRow] /\ recorded' \in [Input -> Outcomes]
        BY <1>1, <2>1 DEF InputTypes, WaiterRow, Outcomes, Inputs!Action
    <2>3. QED
        BY <1>1, <2>1, <2>2 DEF InputTypes, Question, Later, Asked
<1>8. QED
    BY <1>2, <1>3, <1>4, <1>5, <1>6, <1>7
    DEF Inputs!Next, Inputs!Decide, Inputs!Reply, Inputs!Close, Inputs!Cancel,
        Inputs!ShowCancelled, Inputs!clientVars

\* What a cancel or a close answers is settled.
LEMMA AnswersSettle ==
    ASSUME InputInv, Inputs!AnswerOpen, NEW i \in Input, waiter[i].state = "requested"
    PROVE  Settled(i, "cancel")'
<1>1. /\ waiter'[i] = [state |-> "cancelled", action |-> "cancel"]
      /\ recorded'[i] = "cancel" /\ pc' = pc
    BY DEF Inputs!AnswerOpen, Inputs!Open
<1>2. pc[i] # "new"
    BY DEF InputInv, Question
<1>3. QED
    BY <1>1, <1>2 DEF Settled

\* What is settled stays so, and so does what a cancel is to show.
LEMMA OwedKeep ==
    ASSUME InputInv, Inputs!Next
    PROVE  owed' \subseteq Input /\ OwedFacts'
<1>1. /\ Later /\ owed \subseteq Input /\ OwedFacts
    BY QuestionsKeep DEF InputInv, InputTypes
<1>2. \A i \in owed : Settled(i, "cancel")'
    BY <1>1 DEF Later, OwedFacts, Settled
<1>3. CASE owed' \subseteq owed
    BY <1>1, <1>2, <1>3 DEF OwedFacts
<1>4. CASE Inputs!Cancel
    <2>1. /\ Inputs!AnswerOpen /\ owed' \subseteq owed \cup Inputs!Open
        BY <1>4 DEF Inputs!Cancel
    <2>2. \A i \in Inputs!Open : i \in Input /\ Settled(i, "cancel")'
        BY <2>1, AnswersSettle DEF Inputs!Open
    <2>3. QED
        BY <1>1, <1>2, <2>1, <2>2 DEF OwedFacts
<1>5. QED
    BY <1>3, <1>4
    DEF Inputs!Next, Inputs!Register, Inputs!Show, Inputs!Wait, Inputs!ShowResult,
        Inputs!Decide, Inputs!Reply, Inputs!Close, Inputs!ShowCancelled

\* Events that are appended of questions that have none yet.
LEMMA EventsGrow ==
    ASSUME InputInv, Later, NEW t \in Seq(EventRow), events' = events \o t,
           \A n \in 1..Len(t) : EventOK(t[n])',
           \A n \in 1..Len(t) : t[n].type = "resolved" => ShownOf(t[n].input) = {},
           \A m, n \in 1..Len(t) :
               t[m].type = "resolved" /\ t[n].type = "resolved" /\ t[m].input = t[n].input
                   => m = n
    PROVE  events' \in Seq(EventRow) /\ EventFacts'
<1>1. PICK s : s = events
    OBVIOUS
<1>2. PICK u : u = events'
    OBVIOUS
<1>3. s \in Seq(EventRow) /\ Len(s) \in Nat /\ Len(t) \in Nat
    BY <1>1, LenProperties DEF InputInv, InputTypes
<1>4. /\ u \in Seq(EventRow) /\ Len(u) = Len(s) + Len(t)
      /\ \A n \in 1..Len(u) : u[n] = IF n <= Len(s) THEN s[n] ELSE t[n - Len(s)]
    BY <1>1, <1>2, <1>3, ConcatProperties
<1>5. /\ \A n \in 1..Len(s) : EventOK(s[n]) /\ s[n] \in EventRow /\ s[n].input \in Input
      /\ \A m, n \in 1..Len(s) :
            s[m].type = "resolved" /\ s[n].type = "resolved" /\ s[m].input = s[n].input
                => m = n
    <2>1. \A n \in 1..Len(s) : s[n] \in EventRow
        BY <1>3, ElementOfSeq
    <2>2. \A n \in 1..Len(s) : s[n].input \in Input
        BY <2>1 DEF EventRow
    <2>3. EventFacts
        BY DEF InputInv
    <2>4. QED
        BY <1>1, <2>1, <2>2, <2>3 DEF EventFacts, ShownOf
<1>6. PICK good : good = {e \in EventRow : EventOK(e)'}
    OBVIOUS
<1>7. \A n \in 1..Len(u) : u[n] \in good
    <2>1. ASSUME NEW e \in EventRow, EventOK(e) PROVE e \in good
        <3>1. e.input \in Input
            BY DEF EventRow
        <3>2. PICK i, a : i = e.input /\ a = e.action
            OBVIOUS
        <3>3. /\ Settled(i, a) => Settled(i, a)'
              /\ Asked(i) => Asked(i)'
            BY <3>1, <3>2 DEF Later, Settled
        <3>4. EventOK(e)'
            BY <2>1, <3>2, <3>3 DEF EventOK
        <3>5. QED
            BY <1>6, <3>4
    <2>2. \A n \in 1..Len(s) : s[n] \in good
        BY <1>5, <2>1
    <2>3. \A n \in 1..Len(t) : t[n] \in good
        BY <1>6, ElementOfSeq
    <2>4. ASSUME NEW n \in 1..Len(u) PROVE u[n] \in good
        <3>1. CASE n <= Len(s)
            BY <1>3, <1>4, <2>2, <3>1
        <3>2. CASE n > Len(s)
            BY <1>3, <1>4, <2>3, <3>2
        <3>3. QED
            BY <1>3, <1>4, <3>1, <3>2
    <2>5. QED
        BY <2>4
<1>8. \A n \in 1..Len(t) : t[n].type = "resolved" =>
          \A m \in 1..Len(s) : ~(s[m].type = "resolved" /\ s[m].input = t[n].input)
    BY <1>1 DEF ShownOf
<1>9. \A m, n \in 1..Len(u) :
          u[m].type = "resolved" /\ u[n].type = "resolved" /\ u[m].input = u[n].input
              => m = n
    <2>1. \A n \in 1..Len(u) :
              \/ n \in 1..Len(s) /\ u[n] = s[n]
              \/ n > Len(s) /\ n - Len(s) \in 1..Len(t) /\ u[n] = t[n - Len(s)]
        BY <1>3, <1>4
    <2>2. SUFFICES ASSUME NEW m \in 1..Len(u), NEW n \in 1..Len(u),
                          u[m].type = "resolved", u[n].type = "resolved",
                          u[m].input = u[n].input
                   PROVE  m = n
        OBVIOUS
    <2>3. CASE m \in 1..Len(s) /\ u[m] = s[m] /\ n \in 1..Len(s) /\ u[n] = s[n]
        BY <1>5, <2>2, <2>3
    <2>4. CASE /\ m - Len(s) \in 1..Len(t) /\ u[m] = t[m - Len(s)]
               /\ n - Len(s) \in 1..Len(t) /\ u[n] = t[n - Len(s)]
        <3>1. m - Len(s) = n - Len(s)
            BY <2>2, <2>4
        <3>2. QED
            BY <1>3, <1>4, <3>1
    <2>5. \A x, y \in 1..Len(u) :
              /\ u[x].type = "resolved" /\ u[y].type = "resolved" /\ u[x].input = u[y].input
              /\ y - Len(s) \in 1..Len(t) /\ u[y] = t[y - Len(s)]
              => ~(x \in 1..Len(s) /\ u[x] = s[x])
        BY <1>8
    <2>6. QED
        BY <2>1, <2>2, <2>3, <2>4, <2>5
<1>10. EventFacts'
    <2>1. \A e \in {u[n] : n \in 1..Len(u)} : EventOK(e)'
        BY <1>6, <1>7
    <2>3. ASSUME NEW i \in Input, NEW m \in ShownOf(i)', NEW n \in ShownOf(i)'
          PROVE  m = n
        <3>1. /\ m \in 1..Len(u) /\ u[m].type = "resolved" /\ u[m].input = i
              /\ n \in 1..Len(u) /\ u[n].type = "resolved" /\ u[n].input = i
            BY <1>2, <2>3 DEF ShownOf
        <3>2. QED
            BY <1>9, <3>1
    <2>4. \A e \in {events'[n] : n \in 1..Len(events')} : EventOK(e)'
        BY <1>2, <2>1
    <2>5. QED
        BY <2>3, <2>4 DEF EventFacts
<1>11. QED
    BY <1>2, <1>4, <1>10

\* The resolution of a question is appended once.
LEMMA EventsKeep ==
    ASSUME InputInv, Inputs!Next
    PROVE  events' \in Seq(EventRow) /\ EventFacts'
<1>1. /\ Later /\ \A i \in Input : Question(i)'
      /\ \A i \in Input : Question(i)
      /\ InputTypes
      /\ events \in Seq(EventRow)
    BY QuestionsKeep DEF InputInv, InputTypes
<1>2. CASE events' = events
    <2>1. PICK t : t = <<>>
        OBVIOUS
    <2>2. t \in Seq(EventRow) /\ events \o t = events /\ Len(t) = 0
        BY <1>1, <2>1, ConcatEmptySeq
    <2>3. \A n \in 1..Len(t) : FALSE
        BY <2>2
    <2>4. QED
        BY <1>1, <1>2, <2>2, <2>3, EventsGrow
<1>3. ASSUME NEW i \in Input, Inputs!Show(i)
      PROVE  events' \in Seq(EventRow) /\ EventFacts'
    <2>1. PICK e : e = Inputs!RequestEvent(i)
        OBVIOUS
    <2>2. e \in EventRow /\ e.type = "request" /\ e.input = i
        BY <2>1 DEF Inputs!RequestEvent, EventRow, Outcomes
    <2>3. events' = events \o <<e>> /\ <<e>> \in Seq(EventRow)
        BY <1>1, <1>3, <2>1, <2>2, AppendIsConcat DEF Inputs!Show
    <2>4. Asked(i)'
        BY <1>1, <1>3 DEF Inputs!Show, InputTypes, Asked
    <2>5. PICK t : t = <<e>>
        OBVIOUS
    <2>6. t \in Seq(EventRow) /\ events' = events \o t /\ Len(t) = 1 /\ t[1] = e
        BY <2>3, <2>5
    <2>7. \A n \in 1..Len(t) : t[n].type # "resolved" /\ EventOK(t[n])'
        <3>1. EventOK(e)'
            BY <2>2, <2>4 DEF EventOK
        <3>2. QED
            BY <2>2, <2>6, <3>1
    <2>8. QED
        BY <1>1, <2>6, <2>7, EventsGrow
<1>4. ASSUME NEW i \in Input, Inputs!ShowResult(i), events' # events
      PROVE  events' \in Seq(EventRow) /\ EventFacts'
    <2>1. PICK e : e = Inputs!Resolved(i, result[i])
        OBVIOUS
    <2>2. e \in EventRow /\ e.type = "resolved" /\ e.input = i /\ e.action = result[i]
        BY <1>1, <2>1 DEF Inputs!Resolved, EventRow, InputTypes
    <2>3. events' = events \o <<e>> /\ <<e>> \in Seq(EventRow)
        BY <1>1, <1>4, <2>1, <2>2, AppendIsConcat DEF Inputs!ShowResult, Inputs!ShowResolved
    <2>4. ShownOf(i) = {}
        BY <1>1, <1>4, LenProperties DEF Inputs!ShowResult, Inputs!ShowResolved, ShownOf
    <2>5. Settled(i, result[i])'
        BY <1>1, <1>4 DEF Inputs!ShowResult, InputTypes, Question, Settled
    <2>6. result'[i] = result[i]
        BY <1>4 DEF Inputs!ShowResult
    <2>7. Settled(e.input, e.action)'
        BY <1>4, <2>2, <2>5 DEF Settled, Inputs!ShowResult
    <2>8. PICK t : t = <<e>>
        OBVIOUS
    <2>9. t \in Seq(EventRow) /\ events' = events \o t /\ Len(t) = 1 /\ t[1] = e
        BY <2>3, <2>8
    <2>10. \A n \in 1..Len(t) : ShownOf(t[n].input) = {} /\ EventOK(t[n])'
        <3>1. EventOK(e)'
            BY <2>2, <2>7 DEF EventOK
        <3>2. QED
            BY <2>2, <2>4, <2>9, <3>1
    <2>11. \A m, n \in 1..Len(t) : m = n
        BY <2>9
    <2>12. QED
        BY <1>1, <2>9, <2>10, <2>11, EventsGrow
<1>5. ASSUME Inputs!Close
      PROVE  events' \in Seq(EventRow) /\ EventFacts'
    <2>1. PICK open, unshown :
              /\ open = {i \in Input : waiter[i].state = "requested"}
              /\ unshown = {i \in open : Inputs!ShowResolved(events, i, "cancel") # events}
        OBVIOUS
    <2>2. PICK order \in [1..Inputs!Cardinality(unshown) -> unshown] :
              /\ \A m, n \in DOMAIN order : m # n => order[m] # order[n]
              /\ events' = events \o [n \in DOMAIN order |-> Inputs!Resolved(order[n], "cancel")]
        BY <1>5, <2>1 DEF Inputs!Close, Inputs!Open
    <2>3. PICK k : k = Cardinality(unshown)
        OBVIOUS
    <2>4. k \in Nat /\ k = Inputs!Cardinality(unshown) /\ unshown \subseteq Input
        <3>1. IsFiniteSet(unshown)
            BY <2>1, InputConstants, FS_Subset
        <3>2. QED
            BY <2>1, <2>3, <3>1, FS_CardinalityType DEF Cardinality, Inputs!Cardinality
    <2>5. PICK t : t = [n \in 1..k |-> Inputs!Resolved(order[n], "cancel")]
        OBVIOUS
    <2>6. \A n \in 1..k : /\ t[n].type = "resolved" /\ t[n].action = "cancel"
                         /\ t[n].input = order[n] /\ order[n] \in unshown
                         /\ t[n] \in EventRow
        BY <2>2, <2>4, <2>5 DEF Inputs!Resolved, EventRow, Outcomes, Inputs!Action
    <2>7. t \in Seq(EventRow) /\ Len(t) = k
        BY <2>4, <2>5, <2>6, IsASeq
    <2>8. events' = events \o t
        BY <2>2, <2>4, <2>5
    <2>9. \A i \in unshown : ShownOf(i) = {}
        BY <1>1, <2>1, LenProperties DEF Inputs!ShowResolved, ShownOf
    <2>10. \A i \in open : Settled(i, "cancel")'
        BY <1>5, <2>1, AnswersSettle DEF Inputs!Close
    <2>11. \A n \in 1..k : EventOK(t[n])'
        <3>1. ASSUME NEW n \in 1..k PROVE EventOK(t[n])'
            <4>1. PICK e : e = t[n]
                OBVIOUS
            <4>2. e.type = "resolved" /\ e.action = "cancel" /\ e.input \in open
                BY <2>1, <2>6, <4>1
            <4>3. EventOK(e)'
                BY <2>10, <4>2 DEF EventOK
            <4>4. QED
                BY <4>1, <4>3
        <3>2. QED
            BY <3>1
    <2>12. \A m, n \in 1..Len(t) : t[m].input = t[n].input => m = n
        <3>1. \A m, n \in 1..k : m # n => order[m] # order[n]
            BY <2>2, <2>4
        <3>2. QED
            BY <2>6, <2>7, <3>1
    <2>13. QED
        BY <1>1, <2>6, <2>7, <2>8, <2>9, <2>11, <2>12, EventsGrow
<1>6. ASSUME NEW i \in Input, Inputs!ShowCancelled(i), events' # events
      PROVE  events' \in Seq(EventRow) /\ EventFacts'
    <2>1. PICK e : e = Inputs!Resolved(i, "cancel")
        OBVIOUS
    <2>2. e \in EventRow /\ e.type = "resolved" /\ e.input = i /\ e.action = "cancel"
        BY <2>1 DEF Inputs!Resolved, EventRow, Outcomes, Inputs!Action
    <2>3. events' = events \o <<e>> /\ <<e>> \in Seq(EventRow)
        BY <1>1, <1>6, <2>1, <2>2, AppendIsConcat
        DEF Inputs!ShowCancelled, Inputs!ShowResolved
    <2>4. ShownOf(i) = {}
        BY <1>1, <1>6, LenProperties DEF Inputs!ShowCancelled, Inputs!ShowResolved, ShownOf
    <2>5. Settled(i, "cancel")'
        BY <1>1, <1>6 DEF Inputs!ShowCancelled, InputInv, OwedFacts, Settled
    <2>6. PICK t : t = <<e>>
        OBVIOUS
    <2>7. t \in Seq(EventRow) /\ events' = events \o t /\ Len(t) = 1 /\ t[1] = e
        BY <2>3, <2>6
    <2>8. \A n \in 1..Len(t) : ShownOf(t[n].input) = {} /\ EventOK(t[n])'
        <3>1. EventOK(e)'
            BY <2>2, <2>5 DEF EventOK
        <3>2. QED
            BY <2>2, <2>4, <2>7, <3>1
    <2>9. \A m, n \in 1..Len(t) : m = n
        BY <2>7
    <2>10. QED
        BY <1>1, <2>7, <2>8, <2>9, EventsGrow
<1>7. QED
    BY <1>2, <1>3, <1>4, <1>5, <1>6
    DEF Inputs!Next, Inputs!Register, Inputs!Wait, Inputs!Decide, Inputs!Reply,
        Inputs!Cancel, Inputs!clientVars

\* What a window heard of its reply stays true, whatever comes later.
LEMMA RepliesKeep ==
    ASSUME InputInv, Inputs!Next
    PROVE  /\ reply' \in [Window -> ReplyRow] /\ sends' \in [Window -> 0..MaxSends]
           /\ heard' \in [Window -> SUBSET Inputs!Response]
           /\ \A c \in Window : ReplyFacts(c)'
<1> DEFINE Typed == /\ reply' \in [Window -> ReplyRow] /\ sends' \in [Window -> 0..MaxSends]
                    /\ heard' \in [Window -> SUBSET Inputs!Response]
<1>1. /\ Later /\ InputTypes /\ EventFacts
      /\ \A i \in Input : Question(i)
      /\ \A c \in Window : ReplyFacts(c)
    BY QuestionsKeep DEF InputInv
<1>2. ASSUME NEW c \in Window, reply'[c] = reply[c], heard'[c] = heard[c]
      PROVE  ReplyFacts(c)'
    <2>1. CASE reply[c] = Inputs!NoReply
        BY <1>1, <1>2, <2>1 DEF ReplyFacts
    <2>2. CASE reply[c] # Inputs!NoReply
        <3>1. PICK i, a : i = reply[c].input /\ a = reply[c].action
            OBVIOUS
        <3>2. i \in Input /\ a # "none" /\ Asked(i)
            BY <1>1, <2>2, <3>1 DEF InputTypes, ReplyRow, ReplyFacts, Inputs!UserAction
        <3>3. /\ Asked(i)'
              /\ recorded[i] = a => recorded'[i] = a
              /\ waiter[i].state # "requested" => waiter'[i].state # "requested"
            BY <1>1, <3>2 DEF Later, Asked
        <3>4. QED
            BY <1>1, <1>2, <2>2, <3>1, <3>3 DEF ReplyFacts, Asked
    <2>3. QED
        BY <2>1, <2>2
<1>3. CASE UNCHANGED <<reply, sends, heard>>
    <2>1. Typed
        BY <1>1, <1>3 DEF InputTypes
    <2>2. QED
        BY <1>2, <1>3, <2>1
<1>4. ASSUME NEW c \in Window, NEW i \in Input, NEW a \in Inputs!UserAction,
             Inputs!Decide(c, i, a)
      PROVE  Typed /\ \A d \in Window : ReplyFacts(d)'
    <2>1. PICK r : r = [input |-> i, action |-> a]
        OBVIOUS
    <2>2. /\ reply[c] = Inputs!NoReply /\ r \in ReplyRow
          /\ reply' = [reply EXCEPT ![c] = r]
          /\ UNCHANGED <<pc, waiter, recorded, sends, heard>>
        BY <1>4, <2>1 DEF Inputs!Decide, ReplyRow
    <2>3. Typed
        BY <1>1, <2>2 DEF InputTypes
    <2>4. Asked(i)
        <3>1. Inputs!RequestEvent(i) \in {events[n] : n \in 1..Len(events)}
            BY <1>1, <1>4, LenProperties DEF Inputs!Decide, InputTypes
        <3>2. EventOK(Inputs!RequestEvent(i))
            BY <1>1, <3>1 DEF EventFacts
        <3>3. QED
            BY <3>2 DEF EventOK, Inputs!RequestEvent
    <2>5. heard[c] = {}
        BY <1>1, <2>2 DEF ReplyFacts
    <2>6. reply'[c] = r /\ heard'[c] = {} /\ r.input = i
        BY <1>1, <2>1, <2>2, <2>5 DEF InputTypes
    <2>7. ReplyFacts(c)'
        BY <2>2, <2>4, <2>6 DEF ReplyFacts, Asked
    <2>8. \A d \in Window \ {c} : ReplyFacts(d)'
        BY <1>1, <1>2, <2>2 DEF InputTypes
    <2>9. QED
        BY <2>3, <2>7, <2>8
<1>5. ASSUME NEW c \in Window, Inputs!Reply(c)
      PROVE  Typed /\ \A d \in Window : ReplyFacts(d)'
    <2>1. PICK i, a : i = reply[c].input /\ a = reply[c].action
        OBVIOUS
    <2>2. PICK answer : answer = Inputs!ResponseTo(i, a)
        OBVIOUS
    <2>3. /\ reply[c] # Inputs!NoReply /\ sends[c] < MaxSends
          /\ sends' = [sends EXCEPT ![c] = @ + 1]
          /\ heard' = [heard EXCEPT ![c] = @ \cup {answer}]
          /\ UNCHANGED <<pc, reply>>
          /\ answer = "resolved" =>
                /\ waiter' = [waiter EXCEPT ![i] = [state |-> "resolved", action |-> a]]
                /\ recorded' = [recorded EXCEPT ![i] = a]
          /\ answer # "resolved" => UNCHANGED <<waiter, recorded>>
        BY <1>5, <2>1, <2>2 DEF Inputs!Reply
    <2>4. i \in Input /\ a # "none" /\ Asked(i)
        BY <1>1, <2>1, <2>3 DEF InputTypes, ReplyRow, ReplyFacts, Inputs!UserAction
    <2>5. /\ answer \in Inputs!Response
          /\ answer = "resolved" <=> waiter[i].state = "requested"
          /\ answer = "already_resolved" => recorded[i] = a
          /\ answer = "not_found" => recorded[i] # a
        BY <1>1, <2>2, <2>4
        DEF InputTypes, WaiterRow, Inputs!ResponseTo, Inputs!Known, Question,
            Inputs!Response
    <2>6. Typed
        <3>1. sends' \in [Window -> 0..MaxSends]
            BY <1>1, <2>3, InputConstants DEF InputTypes
        <3>2. heard' \in [Window -> SUBSET Inputs!Response]
            BY <1>1, <2>3, <2>5 DEF InputTypes
        <3>3. QED
            BY <1>1, <2>3, <3>1, <3>2 DEF InputTypes
    <2>7. ReplyFacts(c)'
        <3>1. heard'[c] = heard[c] \cup {answer} /\ reply'[c] = reply[c]
            BY <1>1, <2>3 DEF InputTypes
        <3>2. Asked(i)'
            BY <1>1, <2>4 DEF Later
        <3>3. /\ answer = "resolved" => recorded'[i] = a /\ waiter'[i].state # "requested"
              /\ answer # "resolved" => recorded'[i] = recorded[i] /\ waiter'[i] = waiter[i]
            BY <1>1, <2>3, <2>4 DEF InputTypes
        <3>4. /\ heard[c] \cap {"resolved", "already_resolved"} # {} => recorded[i] = a
              /\ "not_found" \in heard[c] => waiter[i].state # "requested"
              /\ ~({"resolved", "not_found"} \subseteq heard[c])
            BY <1>1, <2>1 DEF ReplyFacts
        <3>5. heard'[c] \cap {"resolved", "already_resolved"} # {} => recorded'[i] = a
            BY <2>4, <2>5, <3>1, <3>3, <3>4 DEF Inputs!Response
        <3>6. "not_found" \in heard'[c] => waiter'[i].state # "requested"
            BY <2>5, <3>1, <3>3, <3>4
        <3>7. ~({"resolved", "not_found"} \subseteq heard'[c])
            BY <2>5, <3>1, <3>4
        <3>8. QED
            BY <2>1, <2>3, <3>1, <3>2, <3>5, <3>6, <3>7 DEF ReplyFacts, Asked
    <2>8. \A d \in Window \ {c} : ReplyFacts(d)'
        BY <1>1, <1>2, <2>3 DEF InputTypes
    <2>9. QED
        BY <2>6, <2>7, <2>8
<1>6. QED
    BY <1>3, <1>4, <1>5
    DEF Inputs!Next, Inputs!Register, Inputs!Show, Inputs!Wait, Inputs!ShowResult,
        Inputs!Close, Inputs!Cancel, Inputs!ShowCancelled, Inputs!AnswerOpen,
        Inputs!clientVars

LEMMA InputsNext ==
    ASSUME InputInv, Inputs!Next
    PROVE  InputInv'
<1>1. InputTypes'
    BY QuestionsKeep, EventsKeep, RepliesKeep, OwedKeep DEF InputTypes
<1>2. QED
    BY <1>1, QuestionsKeep, EventsKeep, RepliesKeep, OwedKeep DEF InputInv

\* What the invariant says of a question.
LEMMA InputsKeep ==
    ASSUME InputInv
    PROVE  /\ Inputs!TypeOK /\ Inputs!ToldIsTrue /\ Inputs!RetryIsConfirmed
           /\ Inputs!ShownResultIsTrue
<1>1. /\ InputTypes /\ EventFacts
      /\ \A i \in Input : Question(i)
      /\ \A c \in Window : ReplyFacts(c)
    BY DEF InputInv
<1>2. DOMAIN events = 1..Len(events) /\ \A n \in 1..Len(events) : events[n] \in EventRow
    BY <1>1, LenProperties, ElementOfSeq DEF InputTypes
<1>3. Inputs!TypeOK
    <2>1. \A i \in Input : /\ waiter[i].state \in {"none", "requested", "resolved", "cancelled"}
                           /\ waiter[i].action \in Inputs!Action \cup {"none"}
                           /\ pc[i] \in {"registered", "waiting"} <=> waiter[i].state # "none"
        BY <1>1 DEF InputTypes, WaiterRow, Outcomes, Question
    <2>2. \A n \in DOMAIN events : events[n].type \in {"request", "resolved"}
        BY <1>2 DEF EventRow
    <2>3. QED
        BY <1>1, <2>1, <2>2 DEF InputTypes, Outcomes, Inputs!TypeOK
<1>4. Inputs!ToldIsTrue
    <2>1. SUFFICES ASSUME NEW c \in Window,
                          heard[c] \cap {"resolved", "already_resolved"} # {},
                          result[reply[c].input] # "none"
                   PROVE  result[reply[c].input] = reply[c].action
        BY DEF Inputs!ToldIsTrue
    <2>2. reply[c] # Inputs!NoReply /\ recorded[reply[c].input] = reply[c].action
        BY <1>1, <2>1 DEF ReplyFacts
    <2>3. reply[c].input \in Input
        BY <1>1, <2>2 DEF InputTypes, ReplyRow
    <2>4. QED
        BY <1>1, <2>1, <2>2, <2>3 DEF Question
<1>5. Inputs!RetryIsConfirmed
    BY <1>1 DEF ReplyFacts, Inputs!RetryIsConfirmed
<1>6. Inputs!ShownResultIsTrue
    <2>1. SUFFICES ASSUME NEW m \in 1..Len(events), NEW n \in 1..Len(events),
                          events[m].type = "resolved"
                   PROVE  /\ result[events[m].input] \in {"none", events[m].action}
                          /\ m # n => ~(/\ events[n].type = "resolved"
                                       /\ events[n].input = events[m].input)
        BY <1>2 DEF Inputs!ShownResultIsTrue
    <2>2. PICK i, a : i = events[m].input /\ a = events[m].action
        OBVIOUS
    <2>3. i \in Input
        BY <1>2, <2>2 DEF EventRow
    <2>4. Settled(i, a)
        BY <1>1, <2>1, <2>2 DEF EventFacts, EventOK
    <2>5. result[i] \in {"none", a}
        BY <1>1, <2>3, <2>4 DEF Question, Settled
    <2>6. m # n => ~(events[n].type = "resolved" /\ events[n].input = i)
        BY <1>1, <2>1, <2>2, <2>3 DEF EventFacts, ShownOf
    <2>7. QED
        BY <2>2, <2>5, <2>6
<1>7. QED
    BY <1>3, <1>4, <1>5, <1>6
-----------------------------------------------------------------------------
(* Branches.                                                               *)

Branch == Branching!Branch
RequestRow ==
    [op : {"none", "select", "status", "continue"},
     at : {"idle", "found", "resolved", "copied", "changed", "listed", "answer", "seen"},
     branch : Branch, copy : Branching!Binding, list : [Branch -> Branching!Binding]]

BranchTypes ==
    /\ branchRun \in [Branch -> Branching!RunStatus]
    /\ branchBinding \in [Branch -> Branching!Binding]
    /\ shown \in Branch /\ marks \subseteq {shown} /\ late \subseteq Branch
    /\ retries \in 0..MaxRetries
    /\ req \in [Request -> RequestRow]

\* A branch that was never bound is not selected, and a request that copied a
\* binding writes it selected.
Bound(b) == branchBinding[b].status # "none"
SelectionFacts ==
    /\ \A b \in Branch : ~Bound(b) => ~branchBinding[b].selected
    /\ \A r \in Request :
          /\ req[r].at # "idle" => Bound(req[r].branch)
          /\ req[r].at = "copied" => req[r].copy.selected /\ req[r].copy.status # "none"
    /\ \E b \in Branch : branchBinding[b].selected

\* A request that is bound to see an active binding of a failed run, and closes it.
WillClose(r) ==
    \/ req[r].at \in {"changed", "seen"}
    \/ req[r].at \in {"listed", "answer"} /\ req[r].copy.status = "active"
FailedIsSeen ==
    \A b \in Branch \ late :
        branchRun[b] = "failed" /\ branchBinding[b].status = "active" =>
            \E r \in Request : req[r].branch = b /\ WillClose(r)

BranchInv == BranchTypes /\ SelectionFacts /\ FailedIsSeen

\* What the proofs use of the constants of the branches.
LEMMA BranchConstants ==
    /\ Branches \in Nat \ {0} /\ MaxRetries \in Nat
    /\ Branch = 1..Branches /\ 1 \in Branch
BY SessionsAssumption DEF Branching!SessionBranchesAssumption, Branch, Branching!Branch

LEMMA BranchInit ==
    ASSUME Branching!Init
    PROVE  BranchInv
<1>1. BranchTypes
    BY BranchConstants
    DEF Branching!Init, BranchTypes, Branching!RunStatus, Branching!Binding, RequestRow,
        Branching!Idle, Branching!Main, Branching!Unbound, Branching!NoList, Branch
<1>2. SelectionFacts
    BY BranchConstants
    DEF Branching!Init, SelectionFacts, Bound, Branching!Idle, Branching!Main,
        Branching!Unbound, Branch
<1>3. FailedIsSeen
    BY DEF Branching!Init, FailedIsSeen, Branch
<1>4. QED
    BY <1>1, <1>2, <1>3 DEF BranchInv

LEMMA BranchStays ==
    ASSUME BranchInv, UNCHANGED branchVars
    PROVE  BranchInv'
BY DEF BranchInv, branchVars, BranchTypes, SelectionFacts, Bound, FailedIsSeen, WillClose

\* The selected branch of a list of bindings is a branch.
LEMMA PointerIsBranch ==
    ASSUME NEW list \in [Branch -> Branching!Binding], shown \in Branch,
           marks \subseteq {shown}
    PROVE  /\ Branching!Pointer(list) \in Branch
           /\ Branching!Marks(list) \subseteq {Branching!Pointer(list)}
<1>1. PICK S : S = {b \in Branch : list[b].selected}
    OBVIOUS
<1>2. S = {} => Branching!Pointer(list) = shown
    BY <1>1 DEF Branching!Pointer, Branch
<1>3. S # {} => Branching!Pointer(list) \in S
    <2>1. SUFFICES ASSUME S # {}
                   PROVE  Branching!Pointer(list) \in S
        OBVIOUS
    <2>2. S \subseteq 0..Branches
        BY <1>1, BranchConstants
    <2>3. \E x \in S : \A y \in S : x >= y
        BY <2>1, <2>2, BranchConstants, GreatestNumber
    <2>4. Branching!Pointer(list) = CHOOSE x \in S : \A y \in S : x >= y
        BY <1>1, <2>1 DEF Branching!Pointer, Branching!Max, Branch
    <2>5. QED
        BY <2>3, <2>4
<1>4. Branching!Marks(list) \subseteq {Branching!Pointer(list)}
    BY <1>1, <1>2 DEF Branching!Marks, Branch
<1>5. QED
    BY <1>1, <1>2, <1>3, <1>4

\* An upsert writes its binding, and only deselects others.
LEMMA UpsertKeeps ==
    ASSUME BranchTypes, NEW b \in Branch, NEW new \in Branching!Binding,
           Branching!Upsert(b, new)
    PROVE  /\ branchBinding' \in [Branch -> Branching!Binding]
           /\ branchBinding'[b] = new
           /\ \A x \in Branch \ {b} :
                 /\ branchBinding'[x].status = branchBinding[x].status
                 /\ branchBinding'[x].selected => branchBinding[x].selected
                 /\ ~new.selected => branchBinding'[x] = branchBinding[x]
<1>1. \A x \in Branch : branchBinding'[x] =
          IF x = b THEN new
          ELSE IF new.selected /\ new.status = "active" /\ branchBinding[x].status = "active"
               THEN [branchBinding[x] EXCEPT !.selected = FALSE]
               ELSE branchBinding[x]
    BY DEF Branching!Upsert, Branch
<1>2. branchBinding' = [x \in Branch |-> branchBinding'[x]]
    BY DEF Branching!Upsert, Branch
<1>3. \A x \in Branch : branchBinding'[x] \in Branching!Binding
    BY <1>1 DEF BranchTypes, Branching!Binding
<1>4. branchBinding' \in [Branch -> Branching!Binding]
    BY <1>2, <1>3
<1>5. \A x \in Branch \ {b} :
          /\ branchBinding'[x].status = branchBinding[x].status
          /\ branchBinding'[x].selected => branchBinding[x].selected
          /\ ~new.selected => branchBinding'[x] = branchBinding[x]
    BY <1>1 DEF BranchTypes, Branching!Binding
<1>6. QED
    BY <1>1, <1>4, <1>5

\* The runs go on, and none of the requests.
LEMMA RunsKeep ==
    ASSUME BranchInv, NEW b \in Branch,
           Branching!SubmitBranch(b) \/ Branching!Finish(b) \/ Branching!AdminRetry(b)
    PROVE  BranchInv'
<1>1. PICK x : /\ branchRun' = [branchRun EXCEPT ![b] = x]
               /\ x \in {"open", "completed"}
               /\ UNCHANGED <<branchBinding, shown, marks, req, late>>
               /\ retries' \in 0..MaxRetries
    BY BranchConstants
    DEF Branching!SubmitBranch, Branching!Finish, Branching!AdminRetry, BranchInv,
        BranchTypes
<1>2. BranchTypes'
    BY <1>1 DEF BranchInv, BranchTypes, Branching!RunStatus
<1>3. SelectionFacts'
    BY <1>1 DEF BranchInv, SelectionFacts, Bound
<1>4. FailedIsSeen'
    BY <1>1 DEF BranchInv, BranchTypes, FailedIsSeen, WillClose
<1>5. QED
    BY <1>2, <1>3, <1>4 DEF BranchInv

LEMMA FailKeeps ==
    ASSUME BranchInv, NEW b \in Branch, Branching!Fail(b)
    PROVE  BranchInv'
<1>1. PICK x : x = branchBinding'[b]
    OBVIOUS
<1>2. /\ branchRun' = [branchRun EXCEPT ![b] = "failed"]
      /\ branchBinding' = [branchBinding EXCEPT ![b] = x]
      /\ x \in Branching!Binding /\ x.selected = branchBinding[b].selected
      /\ x.status # "active" /\ (x.status # "none" <=> Bound(b))
      /\ UNCHANGED <<shown, marks, req, late, retries>>
    BY <1>1 DEF Branching!Fail, BranchInv, BranchTypes, Branching!Binding, Bound
<1>3. BranchTypes'
    BY <1>2 DEF BranchInv, BranchTypes, Branching!RunStatus
<1>4. \A y \in Branch : /\ branchBinding'[y].selected = branchBinding[y].selected
                        /\ Bound(y)' <=> Bound(y)
    BY <1>2 DEF BranchInv, BranchTypes, Bound
<1>5. \A r \in Request : req[r].branch \in Branch
    BY DEF BranchInv, BranchTypes, RequestRow
<1>6. SelectionFacts'
    BY <1>2, <1>4, <1>5 DEF BranchInv, SelectionFacts
<1>7. FailedIsSeen'
    BY <1>2 DEF BranchInv, BranchTypes, FailedIsSeen, WillClose
<1>8. QED
    BY <1>3, <1>6, <1>7 DEF BranchInv

LEMMA BindKeeps ==
    ASSUME BranchInv, NEW b \in Branch, Branching!BindBranch(b)
    PROVE  BranchInv'
<1>1. PICK selected \in BOOLEAN :
          Branching!Upsert(b, [status |-> "active", selected |-> selected])
    BY DEF Branching!BindBranch
<1>2. PICK new : new = [status |-> "active", selected |-> selected]
    OBVIOUS
<1>3. /\ new \in Branching!Binding /\ Branching!Upsert(b, new)
      /\ ~Bound(b) /\ UNCHANGED <<branchRun, shown, marks, req, retries>>
      /\ late' = IF branchRun[b] = "failed" THEN late \cup {b} ELSE late
    BY <1>1, <1>2 DEF Branching!BindBranch, Branching!Binding, Bound, Branching!Closes
<1>4. /\ branchBinding' \in [Branch -> Branching!Binding]
      /\ branchBinding'[b] = new
      /\ \A x \in Branch \ {b} :
            /\ branchBinding'[x].status = branchBinding[x].status
            /\ branchBinding'[x].selected => branchBinding[x].selected
            /\ ~new.selected => branchBinding'[x] = branchBinding[x]
    BY <1>3, UpsertKeeps DEF BranchInv
<1>5. BranchTypes'
    BY <1>3, <1>4 DEF BranchInv, BranchTypes
<1>6. SelectionFacts'
    <2>1. \A x \in Branch : Bound(x) => Bound(x)'
        BY <1>2, <1>4 DEF Bound
    <2>2. \A x \in Branch : ~Bound(x)' => ~branchBinding'[x].selected
        BY <1>2, <1>4 DEF BranchInv, SelectionFacts, Bound
    <2>3. \E x \in Branch : branchBinding'[x].selected
        <3>1. CASE new.selected
            BY <1>4, <3>1
        <3>2. CASE ~new.selected
            BY <1>3, <1>4, <3>2 DEF BranchInv, SelectionFacts
        <3>3. QED
            BY <3>1, <3>2
    <2>4. \A r \in Request : req[r].branch \in Branch
        BY DEF BranchInv, BranchTypes, RequestRow
    <2>5. QED
        BY <1>3, <2>1, <2>2, <2>3, <2>4 DEF BranchInv, SelectionFacts
<1>7. FailedIsSeen'
    BY <1>3, <1>4 DEF BranchInv, BranchTypes, FailedIsSeen, WillClose
<1>8. QED
    BY <1>5, <1>6, <1>7 DEF BranchInv

\* A request that goes on without a change of a binding keeps the invariant, if
\* it does not forget an active binding of a failed run.
LEMMA RequestKeeps ==
    ASSUME BranchInv, NEW r \in Request, NEW row \in RequestRow,
           req' = [req EXCEPT ![r] = row],
           UNCHANGED <<branchRun, branchBinding, late, retries>>,
           shown' \in Branch, marks' \subseteq {shown'},
           row.at # "idle" => Bound(row.branch),
           row.at = "copied" => row.copy.selected /\ row.copy.status # "none",
           WillClose(r) /\ branchRun[req[r].branch] = "failed"
               /\ branchBinding[req[r].branch].status = "active" =>
                   /\ row.branch = req[r].branch
                   /\ \/ row.at \in {"changed", "seen"}
                      \/ row.at \in {"listed", "answer"} /\ row.copy.status = "active"
    PROVE  BranchInv'
<1>1. BranchTypes'
    BY DEF BranchInv, BranchTypes
<1>2. /\ \A q \in Request \ {r} : req'[q] = req[q]
      /\ req'[r] = row
    BY DEF BranchInv, BranchTypes
<1>3. SelectionFacts'
    <2>1. \A b \in Branch : Bound(b)' <=> Bound(b)
        BY DEF Bound
    <2>2. row.branch \in Branch /\ \A q \in Request : req[q].branch \in Branch
        BY DEF BranchInv, BranchTypes, RequestRow
    <2>3. \A q \in Request :
              /\ req'[q].at # "idle" => Bound(req'[q].branch)
              /\ req'[q].at = "copied" =>
                     req'[q].copy.selected /\ req'[q].copy.status # "none"
        BY <1>2 DEF BranchInv, SelectionFacts
    <2>4. \A q \in Request : req'[q].branch \in Branch
        BY <1>2, <2>2
    <2>5. \A q \in Request :
              req'[q].at # "idle" => branchBinding'[req'[q].branch].status # "none"
        BY <2>3, <2>4 DEF Bound
    <2>6. /\ \A b \in Branch : ~Bound(b)' => ~branchBinding'[b].selected
          /\ \E b \in Branch : branchBinding'[b].selected
        BY <2>1 DEF BranchInv, SelectionFacts
    <2>7. QED
        BY <2>3, <2>5, <2>6 DEF SelectionFacts, Bound
<1>4. FailedIsSeen'
    <2>1. SUFFICES ASSUME NEW b \in Branch \ late, branchRun[b] = "failed",
                          branchBinding[b].status = "active"
                   PROVE  \E q \in Request : req'[q].branch = b /\ WillClose(q)'
        BY DEF FailedIsSeen
    <2>2. PICK q \in Request : req[q].branch = b /\ WillClose(q)
        BY <2>1 DEF BranchInv, FailedIsSeen
    <2>3. CASE q = r
        <3>1. row.branch = b /\ WillClose(r)'
            BY <1>2, <2>1, <2>2, <2>3 DEF WillClose
        <3>2. QED
            BY <1>2, <3>1
    <2>4. CASE q # r
        <3>1. WillClose(q)'
            BY <1>2, <2>2, <2>4 DEF WillClose
        <3>2. QED
            BY <1>2, <2>2, <2>4, <3>1
    <2>5. QED
        BY <2>3, <2>4
<1>5. QED
    BY <1>1, <1>3, <1>4 DEF BranchInv

\* Begin, the projection of a list, the copy of a binding, the list of a select
\* request and the look at the run.
LEMMA LooksKeep ==
    ASSUME BranchInv, NEW r \in Request,
           \/ \E kind \in {"select", "status", "continue"}, b \in Branch :
                 Branching!Begin(r, kind, b)
           \/ Branching!Sync(r) \/ Branching!SelectFind(r) \/ Branching!SelectList(r)
           \/ Branching!ReadRun(r)
    PROVE  BranchInv'
<1>1. /\ req \in [Request -> RequestRow] /\ req[r] \in RequestRow
      /\ branchBinding \in [Branch -> Branching!Binding]
      /\ shown \in Branch /\ marks \subseteq {shown}
      /\ req[r].branch \in Branch
      /\ branchBinding[req[r].branch] \in Branching!Binding
      /\ req[r].at # "idle" => Bound(req[r].branch)
    BY DEF BranchInv, BranchTypes, RequestRow, SelectionFacts
<1>2. Branching!NoList \in [Branch -> Branching!Binding]
    BY DEF Branching!NoList, Branching!Unbound, Branching!Binding, Branch
<1>3. Branching!Idle \in RequestRow /\ Branching!Idle.at = "idle"
    BY <1>2, BranchConstants
    DEF Branching!Idle, RequestRow, Branching!Main, Branching!Unbound, Branching!Binding
<1>4. ASSUME NEW kind \in {"select", "status", "continue"}, NEW b \in Branch,
             Branching!Begin(r, kind, b)
      PROVE  BranchInv'
    <2>1. PICK row : row = [Branching!Idle EXCEPT !.op = kind, !.at = "found",
                 !.branch = b, !.copy = branchBinding[b], !.list = branchBinding]
        OBVIOUS
    <2>2. /\ row \in RequestRow /\ row.at = "found" /\ row.branch = b
        BY <1>1, <1>3, <2>1 DEF RequestRow
    <2>3. /\ req[r].at = "idle" /\ Bound(b)
          /\ req' = [req EXCEPT ![r] = row]
          /\ UNCHANGED <<branchRun, branchBinding, shown, marks, late, retries>>
        BY <1>4, <2>1 DEF Branching!Begin, Bound
    <2>4. ~WillClose(r)
        BY <2>3 DEF WillClose
    <2>5. QED
        BY <1>1, <2>2, <2>3, <2>4, RequestKeeps
<1>5. CASE Branching!Sync(r)
    <2>1. PICK row : row = [req[r] EXCEPT
                 !.at = IF req[r].at = "found" THEN "resolved" ELSE "answer",
                 !.list = Branching!NoList]
        OBVIOUS
    <2>2. /\ row \in RequestRow /\ row.branch = req[r].branch /\ row.copy = req[r].copy
          /\ row.at = IF req[r].at = "found" THEN "resolved" ELSE "answer"
        BY <1>1, <1>2, <2>1 DEF RequestRow
    <2>3. /\ req[r].at \in {"found", "listed"}
          /\ req' = [req EXCEPT ![r] = row]
          /\ UNCHANGED <<branchRun, branchBinding, late, retries>>
        BY <1>1, <1>5, <2>1 DEF Branching!Sync, RequestRow
    <2>4. req[r].list \in [Branch -> Branching!Binding]
        BY <1>1 DEF RequestRow
    <2>5. /\ shown' = Branching!Pointer(req[r].list)
          /\ marks' = Branching!Marks(req[r].list)
        BY <1>5 DEF Branching!Sync
    <2>6. shown' \in Branch /\ marks' \subseteq {shown'}
        BY <1>1, <2>4, <2>5, PointerIsBranch
    <2>7. WillClose(r) => row.at = "answer" /\ row.copy.status = "active"
        BY <2>2, <2>3 DEF WillClose
    <2>8. row.at # "idle" /\ row.at # "copied" /\ Bound(row.branch)
        BY <1>1, <2>2, <2>3
    <2>9. QED
        BY <2>2, <2>3, <2>6, <2>7, <2>8, RequestKeeps
<1>6. CASE Branching!SelectFind(r)
    <2>1. PICK copy : copy = [branchBinding[req[r].branch] EXCEPT !.selected = TRUE]
        OBVIOUS
    <2>2. copy \in Branching!Binding /\ copy.selected
          /\ copy.status = branchBinding[req[r].branch].status
        BY <1>1, <2>1 DEF Branching!Binding
    <2>3. PICK row : row = [req[r] EXCEPT !.at = "copied", !.copy = copy]
        OBVIOUS
    <2>4. /\ row \in RequestRow /\ row.branch = req[r].branch /\ row.copy = copy
          /\ row.at = "copied"
        BY <1>1, <2>2, <2>3 DEF RequestRow
    <2>5. /\ req[r].at = "resolved"
          /\ req' = [req EXCEPT ![r] = row]
          /\ UNCHANGED <<branchRun, branchBinding, shown, marks, late, retries>>
        BY <1>1, <1>6, <2>1, <2>3 DEF Branching!SelectFind, RequestRow
    <2>6. ~WillClose(r) /\ Bound(row.branch) /\ copy.status # "none"
        BY <1>1, <2>2, <2>4, <2>5 DEF WillClose, Bound
    <2>7. QED
        BY <1>1, <2>2, <2>4, <2>5, <2>6, RequestKeeps
<1>7. CASE Branching!SelectList(r)
    <2>1. PICK row : row = [req[r] EXCEPT !.at = "listed",
                 !.copy = branchBinding[req[r].branch], !.list = branchBinding]
        OBVIOUS
    <2>2. /\ row \in RequestRow /\ row.branch = req[r].branch /\ row.at = "listed"
          /\ row.copy = branchBinding[req[r].branch]
        BY <1>1, <2>1 DEF RequestRow
    <2>3. /\ req[r].at = "changed"
          /\ req' = [req EXCEPT ![r] = row]
          /\ UNCHANGED <<branchRun, branchBinding, shown, marks, late, retries>>
        BY <1>1, <1>7, <2>1 DEF Branching!SelectList, RequestRow
    <2>4. QED
        BY <1>1, <2>2, <2>3, RequestKeeps
<1>8. CASE Branching!ReadRun(r)
    <2>1. PICK row : row = IF Branching!Closes(req[r].branch)
                              /\ req[r].copy.status = "active"
                           THEN [req[r] EXCEPT !.at = "seen"] ELSE Branching!Idle
        OBVIOUS
    <2>2. /\ row \in RequestRow /\ row.at \in {"seen", "idle"}
          /\ row.at = "seen" => row.branch = req[r].branch
          /\ branchRun[req[r].branch] = "failed" /\ req[r].copy.status = "active" =>
                 row.at = "seen"
        BY <1>1, <1>3, <2>1 DEF RequestRow, Branching!Closes
    <2>3. /\ req[r].at \in {"resolved", "answer"}
          /\ req' = [req EXCEPT ![r] = row]
          /\ UNCHANGED <<branchRun, branchBinding, shown, marks, late, retries>>
        BY <1>1, <1>8, <2>1 DEF Branching!ReadRun
    <2>4. WillClose(r) => req[r].copy.status = "active"
        BY <2>3 DEF WillClose
    <2>5. QED
        BY <1>1, <2>2, <2>3, <2>4, RequestKeeps
<1>9. QED
    BY <1>4, <1>5, <1>6, <1>7, <1>8

\* A selection is written: if it revives the binding of a run that has failed
\* since the copy was made, the request itself comes back to it.
LEMMA SelectWriteKeeps ==
    ASSUME BranchInv, NEW r \in Request, Branching!SelectWrite(r)
    PROVE  BranchInv'
<1>1. PICK b, new : b = req[r].branch /\ new = req[r].copy
    OBVIOUS
<1>2. /\ req \in [Request -> RequestRow] /\ b \in Branch
      /\ new \in Branching!Binding /\ new.selected /\ new.status # "none"
      /\ req[r].at = "copied"
    BY <1>1
    DEF BranchInv, BranchTypes, RequestRow, SelectionFacts, Branching!SelectWrite
<1>3. /\ Branching!Upsert(b, new)
      /\ req' = [req EXCEPT ![r].at = "changed"]
      /\ UNCHANGED <<branchRun, shown, marks, late, retries>>
    BY <1>1 DEF Branching!SelectWrite
<1>4. /\ branchBinding' \in [Branch -> Branching!Binding]
      /\ branchBinding'[b] = new
      /\ \A x \in Branch \ {b} :
            /\ branchBinding'[x].status = branchBinding[x].status
            /\ branchBinding'[x].selected => branchBinding[x].selected
    BY <1>2, <1>3, UpsertKeeps DEF BranchInv
<1>5. /\ req' \in [Request -> RequestRow]
      /\ \A q \in Request \ {r} : req'[q] = req[q]
      /\ req'[r].at = "changed" /\ req'[r].branch = b
    BY <1>1, <1>2, <1>3 DEF RequestRow
<1>6. BranchTypes'
    BY <1>3, <1>4, <1>5 DEF BranchInv, BranchTypes
<1>7. SelectionFacts'
    <2>1. \A x \in Branch : branchBinding[x].status # "none" =>
                                branchBinding'[x].status # "none"
        BY <1>2, <1>4
    <2>2. \A x \in Branch : branchBinding'[x].status = "none" =>
                                ~branchBinding'[x].selected
        BY <1>2, <1>4 DEF BranchInv, SelectionFacts, Bound
    <2>3. /\ b \in Branch /\ branchBinding'[b].selected
          /\ branchBinding'[b].status # "none"
        BY <1>2, <1>4
    <2>4. \A q \in Request \ {r} : req[q].branch \in Branch
        BY <1>2 DEF RequestRow
    <2>5. \A q \in Request : req'[q].at # "idle" =>
                                 branchBinding'[req'[q].branch].status # "none"
        BY <1>5, <2>1, <2>3, <2>4 DEF BranchInv, SelectionFacts, Bound
    <2>6. \A q \in Request : req'[q].at = "copied" =>
                                 req'[q].copy.selected /\ req'[q].copy.status # "none"
        BY <1>5 DEF BranchInv, SelectionFacts
    <2>7. QED
        BY <2>2, <2>3, <2>5, <2>6 DEF SelectionFacts, Bound
<1>8. FailedIsSeen'
    <2>1. SUFFICES ASSUME NEW x \in Branch \ late, branchRun[x] = "failed",
                          branchBinding'[x].status = "active"
                   PROVE  \E q \in Request : req'[q].branch = x /\ WillClose(q)'
        BY <1>3 DEF FailedIsSeen
    <2>2. CASE x = b
        <3>1. WillClose(r)'
            BY <1>5 DEF WillClose
        <3>2. QED
            BY <1>5, <2>2, <3>1
    <2>3. CASE x # b
        <3>1. PICK q \in Request : req[q].branch = x /\ WillClose(q)
            BY <1>4, <2>1, <2>3 DEF BranchInv, FailedIsSeen
        <3>2. q # r
            BY <1>2, <3>1 DEF WillClose
        <3>3. req'[q] = req[q] /\ WillClose(q)'
            BY <1>5, <3>1, <3>2 DEF WillClose
        <3>4. QED
            BY <3>1, <3>3
    <2>4. QED
        BY <2>2, <2>3
<1>9. QED
    BY <1>6, <1>7, <1>8 DEF BranchInv

\* The binding of a failed run is closed, and keeps its selected flag; that of
\* a completed one is made active with the run.
LEMMA CloseAndContinueKeep ==
    ASSUME BranchInv, NEW r \in Request,
           Branching!CloseSeen(r) \/ Branching!Continue(r)
    PROVE  BranchInv'
<1>1. PICK b : b = req[r].branch
    OBVIOUS
<1>2. /\ req \in [Request -> RequestRow] /\ b \in Branch
      /\ branchBinding \in [Branch -> Branching!Binding]
      /\ branchRun \in [Branch -> Branching!RunStatus]
      /\ shown \in Branch /\ marks \subseteq {shown}
    BY <1>1 DEF BranchInv, BranchTypes, RequestRow
<1>3. Branching!Idle \in RequestRow /\ Branching!Idle.at = "idle"
    BY BranchConstants
    DEF Branching!Idle, RequestRow, Branching!Main, Branching!NoList, Branching!Unbound,
        Branching!Binding, Branch
<1>4. /\ \/ /\ Branching!CloseSeen(r) /\ req[r].at = "seen"
            /\ branchBinding' = [branchBinding EXCEPT ![b].status = "closed"]
            /\ branchRun' = branchRun
         \/ /\ Branching!Continue(r) /\ req[r].at = "resolved"
            /\ \/ branchRun' = branchRun /\ branchBinding' = branchBinding
               \/ /\ branchRun' = [branchRun EXCEPT ![b] = "open"]
                  /\ branchBinding' = [branchBinding EXCEPT ![b].status = "active"]
      /\ req' = [req EXCEPT ![r] = Branching!Idle]
      /\ UNCHANGED <<late, retries>>
      /\ shown' \in Branch /\ marks' \subseteq {shown'}
    BY <1>1, <1>2 DEF Branching!CloseSeen, Branching!Continue
<1>5. /\ branchBinding' \in [Branch -> Branching!Binding]
      /\ branchRun' \in [Branch -> Branching!RunStatus]
      /\ \A x \in Branch \ {b} : /\ branchBinding'[x] = branchBinding[x]
                                 /\ branchRun'[x] = branchRun[x]
      /\ branchBinding'[b].selected = branchBinding[b].selected
      /\ branchBinding[b].status # "none" => branchBinding'[b].status # "none"
    BY <1>2, <1>4 DEF Branching!Binding, Branching!RunStatus
<1>6. BranchTypes'
    BY <1>2, <1>3, <1>4, <1>5 DEF BranchInv, BranchTypes
<1>7. /\ \A q \in Request \ {r} : req'[q] = req[q]
      /\ req'[r].at = "idle"
    BY <1>2, <1>3, <1>4
<1>8. SelectionFacts'
    <2>1. \A x \in Branch : /\ branchBinding'[x].selected = branchBinding[x].selected
                            /\ branchBinding[x].status # "none" =>
                                   branchBinding'[x].status # "none"
        BY <1>5
    <2>2. branchBinding[b].status # "none"
        BY <1>1, <1>4 DEF BranchInv, SelectionFacts, Bound
    <2>3. \A x \in Branch : branchBinding'[x].status = "none" =>
                                ~branchBinding'[x].selected
        BY <2>1 DEF BranchInv, SelectionFacts, Bound
    <2>4. \E x \in Branch : branchBinding'[x].selected
        BY <2>1 DEF BranchInv, SelectionFacts
    <2>5. \A q \in Request \ {r} : req[q].branch \in Branch
        BY <1>2 DEF RequestRow
    <2>6. \A q \in Request : req'[q].at # "idle" =>
                                 branchBinding'[req'[q].branch].status # "none"
        BY <1>7, <2>1, <2>5 DEF BranchInv, SelectionFacts, Bound
    <2>7. \A q \in Request : req'[q].at = "copied" =>
                                 req'[q].copy.selected /\ req'[q].copy.status # "none"
        BY <1>7 DEF BranchInv, SelectionFacts
    <2>8. QED
        BY <2>3, <2>4, <2>6, <2>7 DEF SelectionFacts, Bound
<1>9. FailedIsSeen'
    <2>1. SUFFICES ASSUME NEW x \in Branch \ late, branchRun'[x] = "failed",
                          branchBinding'[x].status = "active"
                   PROVE  \E q \in Request : req'[q].branch = x /\ WillClose(q)'
        BY <1>4 DEF FailedIsSeen
    <2>2. branchRun[x] = "failed" /\ branchBinding[x].status = "active"
          /\ ~(x = b /\ req[r].at = "seen")
        BY <1>2, <1>4, <1>5, <2>1 DEF Branching!Binding
    <2>3. PICK q \in Request : req[q].branch = x /\ WillClose(q)
        BY <2>2 DEF BranchInv, FailedIsSeen
    <2>4. q # r
        BY <1>1, <1>4, <2>2, <2>3 DEF WillClose
    <2>5. req'[q] = req[q] /\ WillClose(q)'
        BY <1>7, <2>3, <2>4 DEF WillClose
    <2>6. QED
        BY <2>3, <2>5
<1>10. QED
    BY <1>6, <1>8, <1>9 DEF BranchInv

LEMMA BranchNext ==
    ASSUME BranchInv, Branching!Next
    PROVE  BranchInv'
<1>1. ASSUME NEW b \in Branch,
             \/ Branching!SubmitBranch(b) \/ Branching!BindBranch(b)
             \/ Branching!Finish(b) \/ Branching!Fail(b) \/ Branching!AdminRetry(b)
      PROVE  BranchInv'
    BY <1>1, RunsKeep, FailKeeps, BindKeeps
<1>2. ASSUME NEW r \in Request,
             \/ \E kind \in {"select", "status", "continue"}, b \in Branch :
                   Branching!Begin(r, kind, b)
             \/ Branching!Sync(r) \/ Branching!SelectFind(r) \/ Branching!SelectWrite(r)
             \/ Branching!SelectList(r) \/ Branching!ReadRun(r)
             \/ Branching!CloseSeen(r) \/ Branching!Continue(r)
      PROVE  BranchInv'
    BY <1>2, LooksKeep, SelectWriteKeeps, CloseAndContinueKeep
<1>3. QED
    BY <1>1, <1>2 DEF Branching!Next, Branch

\* What the invariant says of the branches.
LEMMA BranchKeeps ==
    ASSUME BranchInv
    PROVE  Branching!TypeOK /\ Branching!FailedIsClosed /\ Branching!SomeSelected
<1>1. Branching!TypeOK
    BY DEF BranchInv, BranchTypes, RequestRow, Branching!TypeOK, Branch
<1>2. Branching!FailedIsClosed
    <2>1. Branching!Quiet => \A r \in Request : ~WillClose(r)
        BY DEF Branching!Quiet, WillClose
    <2>2. QED
        BY <2>1
        DEF BranchInv, FailedIsSeen, Branching!FailedIsClosed, Branching!Closes, Branch
<1>3. Branching!SomeSelected
    BY DEF BranchInv, SelectionFacts, Branching!SomeSelected, Branch
<1>4. QED
    BY <1>1, <1>2, <1>3
-----------------------------------------------------------------------------
(* The end of an AgentRun.                                                 *)

EndRow == [type : {"end", "completed", "failed", "cancelled"}, act : 1..MaxAct]
ShownEventRow ==
    [type : {"end", "failed", "cancelled", "continue", "stopped"}, act : 1..MaxAct,
     src : Nat]
CallerRow ==
    [at : {"idle", "cancel", "asked", "stopped", "continued"}, first : BOOLEAN,
     act : 0..MaxAct]

TerminalTypes ==
    /\ run \in Terminal!RunStatus /\ act \in 1..MaxAct /\ said \in BOOLEAN
    /\ runLog \in Seq(EndRow)
    /\ runCursor \in 0..Len(runLog) /\ listed \in [Poller -> 0..Len(runLog)]
    /\ buf \in Seq(ShownEventRow) /\ gone \in 0..Len(buf)
    /\ binding \in {"running", "settled", "error", "cancelled", "done"}
    /\ cancelled \in BOOLEAN
    /\ op \in [Caller -> CallerRow]
    /\ \A c \in Caller : op[c].at # "idle" => op[c].act \in 1..act

\* An activation says its end once, and not after it was completed.
Active == run \in {"queued", "running", "cancelling"}
LogFacts ==
    /\ \A i \in 1..Len(runLog) :
          /\ runLog[i].act <= act
          /\ Active /\ ~said => ~(runLog[i].type = "end" /\ runLog[i].act = act)
          /\ Active => ~(runLog[i].type = "completed" /\ runLog[i].act = act)
    /\ \A i, j \in 1..Len(runLog) :
          i < j /\ runLog[j].type = "end" /\ runLog[i].type \in {"end", "completed"} =>
              runLog[i].act < runLog[j].act

\* What is shown was projected, and shows an end as the log has it; an end that is
\* not the first one in the buffer was said by the executor.
Traced(e) ==
    /\ e.act <= act /\ e.src <= runCursor
    /\ e.type = "end" => /\ e.src > 0 /\ runLog[e.src].type \in {"end", "completed"}
                         /\ runLog[e.src].act = e.act
BufFacts ==
    /\ \A i \in 1..Len(buf) : Traced(buf[i])
    /\ \A i, j \in 1..Len(buf) : i < j =>
          /\ buf[i].src > 0 /\ buf[j].src > 0 => buf[i].src < buf[j].src
          /\ gone < i /\ buf[i].type = "end" /\ buf[j].type = "end" =>
                runLog[buf[j].src].type = "end"

TerminalInv == TerminalTypes /\ LogFacts /\ BufFacts

LEMMA TerminalConstants == MaxAct \in Nat \ {0}
BY SessionsAssumption DEF Terminal!SessionRunTerminalAssumption

LEMMA TerminalInit ==
    ASSUME Terminal!Init
    PROVE  TerminalInv
<1>1. TerminalTypes
    <2>1. Terminal!Idle \in CallerRow /\ Terminal!Idle.at = "idle"
        BY TerminalConstants DEF Terminal!Idle, CallerRow
    <2>2. op \in [Caller -> CallerRow] /\ \A c \in Caller : op[c].at = "idle"
        BY <2>1 DEF Terminal!Init
    <2>3. /\ runLog \in Seq(EndRow) /\ Len(runLog) = 0
          /\ buf \in Seq(ShownEventRow) /\ gone \in 0..Len(buf)
        BY DEF Terminal!Init
    <2>4. listed \in [Poller -> 0..0]
        BY DEF Terminal!Init
    <2>5. /\ run \in Terminal!RunStatus /\ act \in 1..MaxAct /\ said \in BOOLEAN
          /\ binding \in {"running", "settled", "error", "cancelled", "done"}
          /\ cancelled \in BOOLEAN
        <3>1. said \in BOOLEAN /\ cancelled \in BOOLEAN
            BY Zenon DEF Terminal!Init
        <3>2. act \in 1..MaxAct
            BY TerminalConstants DEF Terminal!Init
        <3>3. QED
            BY <3>1, <3>2 DEF Terminal!Init, Terminal!RunStatus
    <2>6. runCursor \in 0..Len(runLog) /\ listed \in [Poller -> 0..Len(runLog)]
        BY <2>3, <2>4 DEF Terminal!Init
    <2>7. QED
        BY <2>2, <2>3, <2>5, <2>6 DEF TerminalTypes
<1>2. LogFacts
    BY DEF Terminal!Init, LogFacts
<1>3. BufFacts
    BY DEF Terminal!Init, BufFacts
<1>4. QED
    BY <1>1, <1>2, <1>3 DEF TerminalInv

LEMMA TerminalStays ==
    ASSUME TerminalInv, UNCHANGED terminalVars
    PROVE  TerminalInv'
BY DEF TerminalInv, terminalVars, TerminalTypes, LogFacts, Active, BufFacts, Traced

\* The log grows by at most one entry of the current activation, or the next
\* activation begins: what is shown stays true.
LEMMA LogGrows ==
    ASSUME TerminalInv, runLog' \in Seq(EndRow), Len(runLog') >= Len(runLog),
           \A i \in 1..Len(runLog) : runLog'[i] = runLog[i],
           act' \in 1..MaxAct, act' >= act,
           UNCHANGED <<runCursor, buf, gone>>
    PROVE  /\ BufFacts'
           /\ runCursor' \in 0..Len(runLog')
           /\ \A n \in 0..Len(runLog) : n \in 0..Len(runLog')
<1>1. /\ runLog \in Seq(EndRow) /\ Len(runLog) \in Nat /\ Len(runLog') \in Nat
      /\ buf \in Seq(ShownEventRow) /\ runCursor \in 0..Len(runLog)
      /\ act \in Nat /\ act' \in Nat
    BY TerminalConstants DEF TerminalInv, TerminalTypes
<1>2. \A i \in 1..Len(buf) : buf[i] \in ShownEventRow
    BY <1>1, ElementOfSeq
<1>3. \A e \in ShownEventRow : e.src \in Nat /\ e.act \in Nat
    BY TerminalConstants DEF ShownEventRow
<1>4. \A n \in 1..runCursor : n \in 1..Len(runLog) /\ runLog'[n] = runLog[n]
    BY <1>1
<1>5. \A e \in ShownEventRow : Traced(e) => Traced(e)'
    <2>1. SUFFICES ASSUME NEW e \in ShownEventRow, Traced(e)
                   PROVE  Traced(e)'
        OBVIOUS
    <2>2. e.src \in Nat /\ e.act \in Nat /\ e.act <= act /\ e.src <= runCursor
        BY <1>3, <2>1 DEF Traced
    <2>3. e.act <= act' /\ e.src <= runCursor'
        BY <1>1, <2>2
    <2>4. e.type = "end" => /\ e.src > 0 /\ runLog'[e.src].type \in {"end", "completed"}
                            /\ runLog'[e.src].act = e.act
        BY <1>1, <1>4, <2>1, <2>2 DEF Traced
    <2>5. QED
        BY <2>3, <2>4 DEF Traced
<1>6. \A i \in 1..Len(buf) : Traced(buf[i])'
    BY <1>2, <1>5 DEF TerminalInv, BufFacts
<1>7. \A i \in 1..Len(buf) : buf[i].type = "end" => runLog'[buf[i].src] = runLog[buf[i].src]
    BY <1>1, <1>2, <1>3, <1>4 DEF TerminalInv, BufFacts, Traced
<1>8. BufFacts'
    BY <1>6, <1>7 DEF TerminalInv, BufFacts
<1>9. QED
    BY <1>1, <1>8

\* An entry of the current activation is added to the log: its end, when it was
\* not said before, or the result that ends it.
LEMMA EndIsLogged ==
    ASSUME TerminalInv, NEW x \in EndRow, x.act = act, act' = act,
           runLog' = Append(runLog, x),
           \/ x.type = "end" /\ Active /\ ~said /\ said'
           \/ x.type # "end" /\ ~Active'
    PROVE  /\ runLog' \in Seq(EndRow) /\ Len(runLog') = Len(runLog) + 1
           /\ \A i \in 1..Len(runLog) : runLog'[i] = runLog[i]
           /\ LogFacts'
<1>1. /\ runLog \in Seq(EndRow) /\ Len(runLog) \in Nat /\ act \in 1..MaxAct
      /\ MaxAct \in Nat
    BY TerminalConstants DEF TerminalInv, TerminalTypes
<1>2. PICK n \in Nat : n = Len(runLog)
    BY <1>1
<1>3. /\ runLog' \in Seq(EndRow) /\ Len(runLog') = n + 1
      /\ \A i \in 1..n : runLog'[i] = runLog[i]
      /\ runLog'[n + 1] = x
    BY <1>1, <1>2, AppendProperties
<1>4. \A i \in 1..n : runLog[i] \in EndRow
    BY <1>1, <1>2, ElementOfSeq
<1>5. \A i \in 1..n : runLog[i].act \in Nat /\ runLog[i].act <= act
    BY <1>1, <1>2, <1>4 DEF EndRow, TerminalInv, LogFacts
<1>6. \A i \in 1..n + 1 : i \in 1..n \/ i = n + 1
    OBVIOUS
<1>7. \A i \in 1..n + 1 :
          /\ runLog'[i].act <= act'
          /\ Active' /\ ~said' => ~(runLog'[i].type = "end" /\ runLog'[i].act = act')
          /\ Active' => ~(runLog'[i].type = "completed" /\ runLog'[i].act = act')
    <2>1. CASE x.type # "end" /\ ~Active'
        BY <1>1, <1>3, <1>5, <1>6, <2>1
    <2>2. CASE x.type = "end" /\ Active /\ ~said /\ said'
        <3>1. \A i \in 1..n : ~(runLog[i].type = "completed" /\ runLog[i].act = act)
            BY <1>2, <2>2 DEF TerminalInv, LogFacts
        <3>2. QED
            BY <1>1, <1>3, <1>5, <1>6, <2>2, <3>1
    <2>3. QED
        BY <2>1, <2>2
<1>8. \A i, j \in 1..n + 1 :
          i < j /\ runLog'[j].type = "end" /\ runLog'[i].type \in {"end", "completed"} =>
              runLog'[i].act < runLog'[j].act
    <2>1. SUFFICES ASSUME NEW i \in 1..n + 1, NEW j \in 1..n + 1, i < j,
                          runLog'[j].type = "end",
                          runLog'[i].type \in {"end", "completed"}
                   PROVE  runLog'[i].act < runLog'[j].act
        OBVIOUS
    <2>2. i \in 1..n /\ runLog'[i] = runLog[i]
        BY <1>2, <1>3, <1>6, <2>1
    <2>3. CASE j \in 1..n
        BY <1>2, <1>3, <2>1, <2>2, <2>3 DEF TerminalInv, LogFacts
    <2>4. CASE j = n + 1
        <3>1. x.type = "end" /\ Active /\ ~said
            BY <1>3, <2>1, <2>4
        <3>2. runLog[i].act # act
            BY <1>2, <2>1, <2>2, <3>1 DEF TerminalInv, LogFacts
        <3>3. runLog[i].act < act
            BY <1>1, <1>5, <2>2, <3>2
        <3>4. QED
            BY <1>3, <2>2, <2>4, <3>3
    <2>5. QED
        BY <1>6, <2>3, <2>4
<1>9. LogFacts'
    BY <1>3, <1>7, <1>8 DEF LogFacts
<1>10. QED
    BY <1>2, <1>3, <1>9

\* The AgentRun goes on: it is claimed, says its end, ends, or is cancelled.
LEMMA RunEnds ==
    ASSUME TerminalInv,
           \/ Terminal!SayEnd
           \/ \E s \in {"completed", "failed", "cancelled"} : Terminal!Complete(s)
           \/ \E c \in Caller : Terminal!CancelRun(c) /\ run = "queued"
    PROVE  TerminalInv'
<1>1. PICK x : /\ x \in EndRow /\ x.act = act
               /\ runLog' = Append(runLog, x)
               /\ \/ x.type = "end" /\ Active /\ ~said /\ said' /\ run' = run
                  \/ x.type # "end" /\ said' = said /\ run' = x.type
    <2>1. act \in 1..MaxAct
        BY DEF TerminalInv, TerminalTypes
    <2>2. CASE Terminal!SayEnd
        <3>1. [type |-> "end", act |-> act] \in EndRow
            BY <2>1 DEF EndRow
        <3>2. said'
            BY <2>2, Zenon DEF Terminal!SayEnd
        <3>3. /\ runLog' = Append(runLog, [type |-> "end", act |-> act])
              /\ Active /\ ~said /\ run' = run
            BY <2>2 DEF Terminal!SayEnd, Active
        <3>4. PICK x : x = [type |-> "end", act |-> act]
            OBVIOUS
        <3>5. x \in EndRow /\ x.type = "end" /\ x.act = act /\ runLog' = Append(runLog, x)
            BY <3>1, <3>3, <3>4
        <3>6. QED
            BY <3>2, <3>3, <3>5, Zenon
    <2>3. ASSUME NEW s \in {"completed", "failed", "cancelled"}, Terminal!Complete(s)
          PROVE  /\ [type |-> s, act |-> act] \in EndRow
                 /\ runLog' = Append(runLog, [type |-> s, act |-> act])
                 /\ said' = said /\ run' = s /\ s # "end"
        BY <2>1, <2>3 DEF EndRow, Terminal!Complete
    <2>4. ASSUME NEW c \in Caller, Terminal!CancelRun(c), run = "queued"
          PROVE  /\ [type |-> "cancelled", act |-> act] \in EndRow
                 /\ runLog' = Append(runLog, [type |-> "cancelled", act |-> act])
                 /\ said' = said /\ run' = "cancelled"
        BY <2>1, <2>4 DEF EndRow, Terminal!CancelRun
    <2>5. QED
        BY <2>2, <2>3, <2>4
<1>2. /\ act' = act /\ runCursor' = runCursor /\ listed' = listed /\ buf' = buf
      /\ gone' = gone /\ binding' = binding /\ cancelled' = cancelled
    BY DEF Terminal!SayEnd, Terminal!Complete, Terminal!CancelRun, Terminal!viewVars
<1>3. /\ op' \in [Caller -> CallerRow]
      /\ \A c \in Caller : op'[c].at # "idle" => op'[c].act \in 1..act'
    <2>1. /\ op \in [Caller -> CallerRow] /\ act \in 1..MaxAct /\ MaxAct \in Nat
          /\ \A c \in Caller : op[c].at # "idle" => op[c].act \in 1..act
        BY TerminalConstants DEF TerminalInv, TerminalTypes
    <2>2. CASE op' = op
        BY <1>2, <2>1, <2>2
    <2>3. ASSUME NEW c \in Caller, Terminal!CancelRun(c)
          PROVE  /\ op' \in [Caller -> CallerRow]
                 /\ \A d \in Caller : op'[d].at # "idle" => op'[d].act \in 1..act'
        <3>1. PICK row : row = [at |-> "asked", first |-> op[c].first, act |-> act]
            OBVIOUS
        <3>2. row \in CallerRow /\ row.act \in 1..act
            BY <2>1, <3>1 DEF CallerRow
        <3>3. op' = [op EXCEPT ![c] = row]
            BY <2>3, <3>1 DEF Terminal!CancelRun, Terminal!To
        <3>4. QED
            BY <1>2, <2>1, <3>2, <3>3
    <2>4. QED
        BY <2>2, <2>3 DEF Terminal!SayEnd, Terminal!Complete
<1>4. x.type # "end" => ~Active'
    BY <1>1 DEF Active, EndRow
<1>5. /\ runLog' \in Seq(EndRow) /\ Len(runLog') = Len(runLog) + 1
      /\ \A i \in 1..Len(runLog) : runLog'[i] = runLog[i]
      /\ LogFacts'
    BY <1>1, <1>2, <1>4, EndIsLogged
<1>6. Len(runLog) \in Nat /\ act \in 1..MaxAct /\ MaxAct \in Nat
    BY TerminalConstants DEF TerminalInv, TerminalTypes
<1>7. /\ BufFacts' /\ runCursor' \in 0..Len(runLog')
      /\ \A n \in 0..Len(runLog) : n \in 0..Len(runLog')
    <2>1. Len(runLog') >= Len(runLog) /\ act' \in 1..MaxAct /\ act' >= act
        BY <1>2, <1>5, <1>6
    <2>2. QED
        BY <1>2, <1>5, <2>1, LogGrows
<1>8. run' \in Terminal!RunStatus /\ said' \in BOOLEAN
    BY <1>1 DEF EndRow, Terminal!RunStatus, TerminalInv, TerminalTypes
<1>9. TerminalTypes'
    BY <1>2, <1>3, <1>5, <1>7, <1>8 DEF TerminalInv, TerminalTypes
<1>10. QED
    BY <1>5, <1>7, <1>9 DEF TerminalInv

\* The record of one handler changes.
LEMMA CallerMoves ==
    ASSUME TerminalInv, NEW c \in Caller, NEW row \in CallerRow,
           op' = [op EXCEPT ![c] = row], act' \in 1..MaxAct, act' >= act,
           row.at # "idle" => row.act \in 1..act'
    PROVE  /\ op' \in [Caller -> CallerRow]
           /\ \A d \in Caller : op'[d].at # "idle" => op'[d].act \in 1..act'
<1>1. /\ op \in [Caller -> CallerRow] /\ act \in 1..MaxAct /\ MaxAct \in Nat
      /\ \A d \in Caller : op[d].at # "idle" => op[d].act \in 1..act
    BY TerminalConstants DEF TerminalInv, TerminalTypes
<1>2. \A k \in 1..act : k \in 1..act'
    BY <1>1
<1>3. QED
    BY <1>1, <1>2

\* The run moves on without an entry in its log.
LEMMA RunMovesOn ==
    ASSUME TerminalInv, NEW c \in Caller,
           \/ Terminal!Claim \/ (Terminal!CancelRun(c) /\ run # "queued")
           \/ Terminal!StopRun(c) \/ Terminal!ContinueRun(c)
    PROVE  TerminalInv'
<1>1. /\ run \in Terminal!RunStatus /\ act \in 1..MaxAct /\ MaxAct \in Nat
      /\ runLog \in Seq(EndRow) /\ Len(runLog) \in Nat
      /\ op \in [Caller -> CallerRow] /\ op[c] \in CallerRow
      /\ \A d \in Caller : op[d].at # "idle" => op[d].act \in 1..act
    BY TerminalConstants DEF TerminalInv, TerminalTypes
<1>2. /\ runLog' = runLog /\ runCursor' = runCursor /\ listed' = listed /\ buf' = buf
      /\ gone' = gone /\ binding' = binding /\ cancelled' = cancelled
    BY DEF Terminal!Claim, Terminal!CancelRun, Terminal!StopRun, Terminal!ContinueRun,
           Terminal!viewVars
<1>3. /\ run' \in Terminal!RunStatus
      /\ \/ act' = act /\ said' = said /\ (Active' => Active)
         \/ act' = act + 1 /\ act' \in 1..MaxAct /\ said' = FALSE
    <2>1. CASE Terminal!Claim
        BY <2>1 DEF Terminal!Claim, Terminal!RunStatus, Active
    <2>2. CASE Terminal!CancelRun(c) /\ run # "queued"
        BY <1>1, <2>2 DEF Terminal!CancelRun, Terminal!RunStatus, Active
    <2>3. CASE Terminal!StopRun(c)
        BY <2>3 DEF Terminal!StopRun, Terminal!RunStatus, Active
    <2>4. CASE Terminal!ContinueRun(c)
        BY <1>1, <2>4 DEF Terminal!ContinueRun, Terminal!RunStatus
    <2>5. QED
        BY <2>1, <2>2, <2>3, <2>4
<1>4. act' \in 1..MaxAct /\ act' >= act
    BY <1>1, <1>3
<1>5. /\ op' \in [Caller -> CallerRow]
      /\ \A d \in Caller : op'[d].at # "idle" => op'[d].act \in 1..act'
    <2>1. CASE Terminal!Claim
        BY <1>1, <2>1 DEF Terminal!Claim
    <2>2. CASE Terminal!CancelRun(c)
        <3>1. PICK row : row = [at |-> "asked", first |-> op[c].first, act |-> act]
            OBVIOUS
        <3>2. row \in CallerRow /\ row.act \in 1..act'
            BY <1>1, <1>4, <3>1 DEF CallerRow
        <3>3. op' = [op EXCEPT ![c] = row]
            BY <2>2, <3>1 DEF Terminal!CancelRun, Terminal!To
        <3>4. QED
            BY <1>4, <3>2, <3>3, CallerMoves
    <2>3. CASE Terminal!StopRun(c)
        <3>1. PICK row : row = [at |-> "stopped", first |-> FALSE, act |-> act]
            OBVIOUS
        <3>2. row \in CallerRow /\ row.act \in 1..act'
            BY <1>1, <1>4, <3>1 DEF CallerRow
        <3>3. op' = [op EXCEPT ![c] = row]
            BY <2>3, <3>1 DEF Terminal!StopRun, Terminal!To
        <3>4. QED
            BY <1>4, <3>2, <3>3, CallerMoves
    <2>4. CASE Terminal!ContinueRun(c)
        <3>1. PICK row : row = [at |-> "continued", first |-> FALSE, act |-> act + 1]
            OBVIOUS
        <3>2. act' = act + 1 /\ op' = [op EXCEPT ![c] = row]
            BY <2>4, <3>1 DEF Terminal!ContinueRun, Terminal!To
        <3>3. row \in CallerRow /\ row.act \in 1..act'
            BY <1>1, <1>4, <3>1, <3>2 DEF CallerRow
        <3>4. QED
            BY <1>4, <3>2, <3>3, CallerMoves
    <2>5. QED
        BY <2>1, <2>2, <2>3, <2>4
<1>6. LogFacts'
    <2>1. \A i \in 1..Len(runLog) : runLog[i] \in EndRow
        BY <1>1, ElementOfSeq
    <2>2. \A i \in 1..Len(runLog) : runLog[i].act \in Nat /\ runLog[i].act <= act
        BY <1>1, <2>1 DEF EndRow, TerminalInv, LogFacts
    <2>3. \A i \in 1..Len(runLog) :
              /\ runLog[i].act <= act'
              /\ Active' /\ ~said' => ~(runLog[i].type = "end" /\ runLog[i].act = act')
              /\ Active' => ~(runLog[i].type = "completed" /\ runLog[i].act = act')
        <3>1. CASE act' = act /\ said' = said /\ (Active' => Active)
            BY <2>2, <3>1 DEF TerminalInv, LogFacts
        <3>2. CASE act' = act + 1
            BY <1>1, <2>2, <3>2
        <3>3. QED
            BY <1>3, <3>1, <3>2
    <2>4. QED
        BY <1>2, <2>3 DEF TerminalInv, LogFacts
<1>7. BufFacts'
    BY <1>1, <1>2, <1>4, LogGrows
<1>8. said' \in BOOLEAN
    BY <1>3 DEF TerminalInv, TerminalTypes
<1>9. TerminalTypes'
    BY <1>2, <1>3, <1>4, <1>5, <1>8 DEF TerminalInv, TerminalTypes
<1>10. QED
    BY <1>6, <1>7, <1>9 DEF TerminalInv

\* Events are added to what is shown: of a handler, or of the log after the
\* cursor, in its order.
LEMMA MoreIsShown ==
    ASSUME TerminalInv, NEW m \in Nat, NEW n \in runCursor..Len(runLog),
           runCursor' = n, UNCHANGED <<runLog, act, gone>>,
           buf' \in Seq(ShownEventRow), Len(buf') = Len(buf) + m,
           \A i \in 1..Len(buf) : buf'[i] = buf[i],
           \A k \in Len(buf) + 1..Len(buf) + m :
              /\ buf'[k].act <= act /\ buf'[k].src \in {0} \cup (runCursor + 1..n)
              /\ buf'[k].type = "end" =>
                    /\ buf'[k].src > 0
                    /\ runLog[buf'[k].src].type \in {"end", "completed"}
                    /\ runLog[buf'[k].src].act = buf'[k].act
                    /\ \/ runLog[buf'[k].src].type = "end"
                       \/ \A i \in gone + 1..Len(buf) : buf[i].type # "end",
           \A j, k \in Len(buf) + 1..Len(buf) + m : j < k =>
              /\ buf'[j].src > 0 /\ buf'[k].src > 0 => buf'[j].src < buf'[k].src
              /\ buf'[j].type = "end" /\ buf'[k].type = "end" =>
                     runLog[buf'[k].src].type = "end"
    PROVE  BufFacts'
<1>1. /\ Len(runLog) \in Nat /\ runCursor \in Nat /\ n \in Nat /\ runCursor <= n
      /\ buf \in Seq(ShownEventRow) /\ Len(buf) \in Nat /\ gone \in 0..Len(buf)
    BY DEF TerminalInv, TerminalTypes
<1>2. PICK len \in Nat : len = Len(buf)
    BY <1>1
<1>3. /\ \A i \in 1..len : buf[i] \in ShownEventRow /\ buf'[i] = buf[i]
      /\ \A i \in 1..len + m : buf'[i] \in ShownEventRow
    BY <1>1, <1>2, ElementOfSeq
<1>4. \A e \in ShownEventRow : e.src \in Nat
    BY DEF ShownEventRow
<1>5. \A i \in 1..len + m : i \in 1..len \/ i \in len + 1..len + m
    OBVIOUS
<1>6. \A i \in 1..len + m : Traced(buf[i])'
    <2>1. SUFFICES ASSUME NEW i \in 1..len + m
                   PROVE  Traced(buf[i])'
        OBVIOUS
    <2>2. CASE i \in 1..len
        <3>1. Traced(buf[i]) /\ buf[i].src \in Nat
            BY <1>2, <1>3, <1>4, <2>2 DEF TerminalInv, BufFacts
        <3>2. /\ buf'[i] = buf[i] /\ act' = act /\ runLog' = runLog
              /\ buf[i].src <= runCursor'
            <4>1. buf[i].src <= runCursor
                BY <3>1 DEF Traced
            <4>2. buf[i].src <= n
                BY <1>1, <3>1, <4>1
            <4>3. QED
                BY <1>3, <2>2, <4>2
        <3>3. QED
            BY <3>1, <3>2 DEF Traced
    <2>3. CASE i \in len + 1..len + m
        BY <1>1, <1>2, <2>3 DEF Traced
    <2>4. QED
        BY <1>5, <2>2, <2>3
<1>7. \A i, j \in 1..len + m : i < j =>
          /\ buf'[i].src > 0 /\ buf'[j].src > 0 => buf'[i].src < buf'[j].src
          /\ gone < i /\ buf'[i].type = "end" /\ buf'[j].type = "end" =>
                 runLog'[buf'[j].src].type = "end"
    <2>1. SUFFICES ASSUME NEW i \in 1..len + m, NEW j \in 1..len + m, i < j
                   PROVE  /\ buf'[i].src > 0 /\ buf'[j].src > 0 => buf'[i].src < buf'[j].src
                          /\ gone < i /\ buf'[i].type = "end" /\ buf'[j].type = "end" =>
                                 runLog'[buf'[j].src].type = "end"
        OBVIOUS
    <2>2. CASE j \in 1..len
        <3>1. i \in 1..len /\ buf'[i] = buf[i] /\ buf'[j] = buf[j] /\ runLog' = runLog
            BY <1>3, <2>1, <2>2
        <3>2. QED
            BY <1>2, <2>1, <2>2, <3>1 DEF TerminalInv, BufFacts
    <2>3. CASE i \in 1..len /\ j \in len + 1..len + m
        <3>1. buf'[i] = buf[i] /\ buf[i].src \in Nat /\ buf[i].src <= runCursor
            BY <1>2, <1>3, <1>4, <2>3 DEF TerminalInv, BufFacts, Traced
        <3>2. /\ buf'[j].src \in {0} \cup (runCursor + 1..n)
              /\ buf'[j].type = "end" =>
                    \/ runLog[buf'[j].src].type = "end"
                    \/ \A k \in gone + 1..Len(buf) : buf[k].type # "end"
            BY <1>2, <2>3
        <3>3. buf'[i].src > 0 /\ buf'[j].src > 0 => buf'[i].src < buf'[j].src
            <4>1. PICK x, y : x = buf'[i].src /\ y = buf'[j].src
                OBVIOUS
            <4>2. x \in Nat /\ x <= runCursor /\ (y = 0 \/ y \in runCursor + 1..n)
                BY <3>1, <3>2, <4>1
            <4>3. y > 0 => x < y
                BY <1>1, <4>2
            <4>4. QED
                BY <4>1, <4>3
        <3>4. gone < i => i \in gone + 1..Len(buf)
            BY <1>1, <1>2, <2>3
        <3>5. QED
            BY <3>1, <3>2, <3>3, <3>4
    <2>4. CASE i \in len + 1..len + m /\ j \in len + 1..len + m
        BY <1>2, <2>1, <2>4
    <2>5. QED
        BY <1>5, <2>1, <2>2, <2>3, <2>4
<1>8. QED
    BY <1>2, <1>6, <1>7 DEF BufFacts

\* A handler shows what it did: a cancel, a stop or the next activation.
LEMMA HandlersShow ==
    ASSUME TerminalInv, NEW c \in Caller,
           Terminal!CancelShow(c) \/ Terminal!StopShow(c) \/ Terminal!ContinueShow(c)
    PROVE  TerminalInv'
<1>1. /\ op[c].at # "idle" /\ op' = [op EXCEPT ![c] = Terminal!Idle]
      /\ UNCHANGED <<run, act, said, runLog, runCursor, listed, gone, cancelled>>
      /\ \/ buf' = buf /\ binding' = binding
         \/ /\ \E kind \in {"cancelled", "stopped", "continue"} :
                  buf' = Append(buf, [type |-> kind, act |-> op[c].act, src |-> 0])
            /\ binding' \in {"cancelled", "done", "running", binding}
    BY DEF Terminal!CancelShow, Terminal!StopShow, Terminal!ContinueShow, Terminal!runVars
<1>2. /\ act \in 1..MaxAct /\ MaxAct \in Nat /\ op[c].act \in 1..act
      /\ runLog \in Seq(EndRow) /\ Len(runLog) \in Nat /\ runCursor \in 0..Len(runLog)
      /\ buf \in Seq(ShownEventRow) /\ Len(buf) \in Nat
    BY <1>1, TerminalConstants DEF TerminalInv, TerminalTypes
<1>3. Terminal!Idle \in CallerRow /\ Terminal!Idle.at = "idle"
    BY <1>2 DEF Terminal!Idle, CallerRow
<1>4. act' \in 1..MaxAct /\ act' >= act
    BY <1>1, <1>2
<1>5. /\ op' \in [Caller -> CallerRow]
      /\ \A d \in Caller : op'[d].at # "idle" => op'[d].act \in 1..act'
    BY <1>1, <1>3, <1>4, CallerMoves
<1>6. BufFacts' /\ buf' \in Seq(ShownEventRow)
    <2>1. CASE buf' = buf
        BY <1>1, <1>2, <2>1 DEF TerminalInv, BufFacts, Traced
    <2>2. ASSUME NEW kind \in {"cancelled", "stopped", "continue"},
                 buf' = Append(buf, [type |-> kind, act |-> op[c].act, src |-> 0])
          PROVE  BufFacts' /\ buf' \in Seq(ShownEventRow)
        <3>1. PICK e : e = [type |-> kind, act |-> op[c].act, src |-> 0]
            OBVIOUS
        <3>2. /\ e \in ShownEventRow /\ e.act <= act /\ e.src = 0
              /\ e.type # "end"
            BY <1>2, <3>1 DEF ShownEventRow
        <3>3. /\ buf' \in Seq(ShownEventRow) /\ Len(buf') = Len(buf) + 1
              /\ \A i \in 1..Len(buf) : buf'[i] = buf[i]
              /\ buf'[Len(buf) + 1] = e
            BY <1>2, <2>2, <3>1, <3>2, AppendProperties
        <3>4. \A k \in Len(buf) + 1..Len(buf) + 1 : k = Len(buf) + 1
            BY <1>2
        <3>5. \A k \in Len(buf) + 1..Len(buf) + 1 :
                  /\ buf'[k].act <= act /\ buf'[k].src \in {0} \cup (runCursor + 1..runCursor)
                  /\ buf'[k].type # "end"
            BY <3>2, <3>3, <3>4
        <3>6. \A j, k \in Len(buf) + 1..Len(buf) + 1 : ~(j < k)
            BY <1>2, <3>4
        <3>7. runCursor \in runCursor..Len(runLog) /\ runCursor' = runCursor
            BY <1>1, <1>2
        <3>8. BufFacts'
            BY <1>1, <3>3, <3>5, <3>6, <3>7, MoreIsShown
        <3>9. QED
            BY <3>3, <3>8
    <2>3. QED
        BY <1>1, <2>1, <2>2
<1>7. TerminalTypes'
    BY <1>1, <1>5, <1>6 DEF TerminalInv, TerminalTypes
<1>8. LogFacts'
    BY <1>1 DEF TerminalInv, LogFacts, Active
<1>9. QED
    BY <1>6, <1>7, <1>8 DEF TerminalInv

\* A range of the log is listed, or a cancel request begins.
LEMMA LookKeeps ==
    ASSUME TerminalInv,
           \/ \E r \in Poller : Terminal!List(r)
           \/ \E c \in Caller : Terminal!CancelBegin(c)
    PROVE  TerminalInv'
<1>1. /\ UNCHANGED <<run, act, said, runLog, runCursor, buf, gone, binding>>
      /\ act \in 1..MaxAct /\ MaxAct \in Nat /\ Len(runLog) \in Nat
      /\ runCursor \in 0..Len(runLog)
    BY TerminalConstants
    DEF Terminal!List, Terminal!CancelBegin, Terminal!runVars, Terminal!viewVars,
        TerminalInv, TerminalTypes
<1>2. listed' \in [Poller -> 0..Len(runLog)]
    <2>1. ASSUME NEW r \in Poller, NEW n \in runCursor + 1..Len(runLog),
                 listed' = [listed EXCEPT ![r] = n]
          PROVE  listed' \in [Poller -> 0..Len(runLog)]
        <3>1. n \in 0..Len(runLog)
            BY <1>1
        <3>2. QED
            BY <2>1, <3>1 DEF TerminalInv, TerminalTypes
    <2>2. QED
        BY <2>1 DEF Terminal!List, Terminal!CancelBegin, TerminalInv, TerminalTypes
<1>3. /\ op' \in [Caller -> CallerRow]
      /\ \A d \in Caller : op'[d].at # "idle" => op'[d].act \in 1..act'
      /\ cancelled' \in BOOLEAN
    <2>1. CASE op' = op /\ cancelled' = cancelled
        BY <1>1, <2>1 DEF TerminalInv, TerminalTypes
    <2>2. ASSUME NEW c \in Caller, Terminal!CancelBegin(c)
          PROVE  /\ op' \in [Caller -> CallerRow]
                 /\ \A d \in Caller : op'[d].at # "idle" => op'[d].act \in 1..act'
                 /\ cancelled' \in BOOLEAN
        <3>1. PICK row : row = [at |-> "cancel", first |-> ~cancelled, act |-> act]
            OBVIOUS
        <3>2. row \in CallerRow /\ row.act \in 1..act'
            BY <1>1, <3>1 DEF CallerRow
        <3>3. op' = [op EXCEPT ![c] = row]
            BY <2>2, <3>1 DEF Terminal!CancelBegin, Terminal!To
        <3>4. cancelled' \in BOOLEAN
            BY <2>2, Zenon DEF Terminal!CancelBegin
        <3>5. act' \in 1..MaxAct /\ act' >= act
            BY <1>1
        <3>6. QED
            BY <3>2, <3>3, <3>4, <3>5, CallerMoves
    <2>3. QED
        BY <2>1, <2>2 DEF Terminal!List
<1>4. TerminalTypes'
    BY <1>1, <1>2, <1>3 DEF TerminalInv, TerminalTypes
<1>5. LogFacts' /\ BufFacts'
    BY <1>1 DEF TerminalInv, LogFacts, Active, BufFacts, Traced
<1>6. QED
    BY <1>4, <1>5 DEF TerminalInv

LEMMA TerminalCardinality ==
    ASSUME NEW S
    PROVE  Terminal!Cardinality(S) = Cardinality(S)
BY DEF Terminal!Cardinality, Cardinality

\* The said ends of some entries of the log are shown upwards, each once.
LEMMA EndsAreShown ==
    ASSUME TerminalInv, NEW n \in 0..Len(runLog),
           NEW P, P = {i \in runCursor + 1..n : runLog[i].type = "end"},
           NEW ends \in Terminal!Ends(P)
    PROVE  /\ ends \in Seq(ShownEventRow)
           /\ P = {} => Len(ends) = 0
           /\ \A k \in 1..Len(ends) :
                 /\ ends[k].src \in P /\ ends[k].type = "end"
                 /\ ends[k].act = runLog[ends[k].src].act
           /\ \A j, k \in 1..Len(ends) : j < k => ends[j].src < ends[k].src
<1>1. /\ runLog \in Seq(EndRow) /\ Len(runLog) \in Nat /\ runCursor \in Nat /\ n \in Nat
    BY DEF TerminalInv, TerminalTypes
<1>2. \A i \in P : i \in Nat /\ i \in 1..Len(runLog)
    BY <1>1
<1>3. \A i \in P : runLog[i].act \in 1..MaxAct
    <2>1. \A i \in P : runLog[i] \in EndRow
        BY <1>1, <1>2, ElementOfSeq
    <2>2. QED
        BY <2>1 DEF EndRow
<1>4. Cardinality(P) \in Nat
    <2>1. IsFiniteSet(runCursor + 1..n)
        BY <1>1, FS_Interval
    <2>2. P \subseteq runCursor + 1..n
        OBVIOUS
    <2>3. IsFiniteSet(P)
        BY <2>1, <2>2, FS_Subset
    <2>4. QED
        BY <2>3, FS_CardinalityType
<1>5. PICK m \in Nat : m = Cardinality(P)
    BY <1>4
<1>6. PICK s \in [1..m -> P] :
          /\ \A j, k \in DOMAIN s : j < k => s[j] < s[k]
          /\ ends = [k \in DOMAIN s |->
                        [type |-> "end", act |-> runLog[s[k]].act, src |-> s[k]]]
    BY <1>5, TerminalCardinality DEF Terminal!Ends
<1>7. /\ DOMAIN ends = 1..m
      /\ \A k \in 1..m : ends[k] = [type |-> "end", act |-> runLog[s[k]].act, src |-> s[k]]
    BY <1>6
<1>8. \A k \in 1..m : s[k] \in P /\ ends[k] \in ShownEventRow
    BY <1>2, <1>3, <1>6, <1>7 DEF ShownEventRow
<1>9. ends \in Seq(ShownEventRow) /\ Len(ends) = m
    <2>1. ends \in [1..m -> ShownEventRow]
        BY <1>6, <1>7, <1>8
    <2>2. QED
        BY <2>1, LenProperties, SeqDef
<1>10. P = {} => m = 0
    BY <1>5, <1>8
<1>11. QED
    BY <1>6, <1>7, <1>8, <1>9, <1>10

\* The event of a result, when the executor said no end: none or one, and not
\* a second end.
NoneOrResult(more, batch) ==
    more # <<>> =>
        /\ \A i \in batch : runLog[i].type # "end"
        /\ \E e \in ShownEventRow :
              /\ more = <<e>> /\ e.src \in batch /\ e.act = runLog[e.src].act
              /\ e.type = "end" => /\ runLog[e.src].type = "completed"
                                   /\ \A i \in gone + 1..Len(buf) : buf[i].type # "end"

LEMMA FallbackIsShown ==
    ASSUME TerminalInv, NEW n \in 0..Len(runLog),
           NEW batch, batch = runCursor + 1..n,
           NEW more, more = Terminal!Fallback(batch)
    PROVE  NoneOrResult(more, batch)
<1>1. /\ runLog \in Seq(EndRow) /\ Len(runLog) \in Nat /\ runCursor \in Nat /\ n \in Nat
      /\ buf \in Seq(ShownEventRow) /\ DOMAIN buf = 1..Len(buf)
    BY LenProperties DEF TerminalInv, TerminalTypes
<1>2. PICK T : T = {i \in batch : runLog[i].type # "end"}
    OBVIOUS
<1>3. SUFFICES ASSUME more # <<>>
               PROVE  /\ \A i \in batch : runLog[i].type # "end"
                      /\ \E e \in ShownEventRow :
                            /\ more = <<e>> /\ e.src \in batch
                            /\ e.act = runLog[e.src].act
                            /\ e.type = "end" =>
                                  /\ runLog[e.src].type = "completed"
                                  /\ \A i \in gone + 1..Len(buf) : buf[i].type # "end"
    BY DEF NoneOrResult
<1>4. PICK t : t = Terminal!Max(T)
    OBVIOUS
<1>5. PICK e : e = [type |-> Terminal!Shown(runLog[t].type), act |-> runLog[t].act,
                    src |-> t]
    OBVIOUS
<1>6. /\ T # {} /\ \A i \in batch : runLog[i].type # "end"
      /\ ~Terminal!Has(Terminal!Shown(runLog[t].type))
      /\ more = <<e>>
    BY <1>2, <1>3, <1>4, <1>5 DEF Terminal!Fallback
<1>7. t \in T
    <2>1. T \subseteq 0..n
        BY <1>1, <1>2
    <2>2. \E x \in T : \A y \in T : x >= y
        BY <1>1, <1>6, <2>1, GreatestNumber
    <2>3. t = CHOOSE x \in T : \A y \in T : x >= y
        BY <1>4 DEF Terminal!Max
    <2>4. QED
        BY <2>2, <2>3
<1>8. t \in Nat /\ t \in batch /\ runLog[t] \in EndRow
    <2>1. t \in batch /\ t \in Nat /\ t \in 1..Len(runLog)
        BY <1>1, <1>2, <1>7
    <2>2. QED
        BY <1>1, <2>1, ElementOfSeq
<1>9. /\ runLog[t].type \in {"completed", "failed", "cancelled"}
      /\ runLog[t].act \in 1..MaxAct
    BY <1>2, <1>7, <1>8 DEF EndRow
<1>10. e \in ShownEventRow
    BY <1>5, <1>8, <1>9 DEF ShownEventRow, Terminal!Shown
<1>11. e.type = "end" => /\ runLog[t].type = "completed"
                         /\ \A i \in gone + 1..Len(buf) : buf[i].type # "end"
    BY <1>1, <1>5, <1>6, <1>9 DEF Terminal!Shown, Terminal!Has
<1>12. e.src = t /\ e.act = runLog[t].act
    BY <1>5
<1>13. QED
    BY <1>6, <1>8, <1>10, <1>11, <1>12

\* A poll projects what it listed and the cursor has not passed.
LEMMA ProjectKeeps ==
    ASSUME TerminalInv, NEW r \in Poller, Terminal!Project(r)
    PROVE  TerminalInv'
<1>1. /\ runLog \in Seq(EndRow) /\ Len(runLog) \in Nat /\ runCursor \in 0..Len(runLog)
      /\ buf \in Seq(ShownEventRow) /\ Len(buf) \in Nat /\ act \in 1..MaxAct
      /\ MaxAct \in Nat /\ listed \in [Poller -> 0..Len(runLog)]
    BY TerminalConstants DEF TerminalInv, TerminalTypes
<1>2. PICK n \in 0..Len(runLog) : n = listed[r]
    BY <1>1
<1>3. PICK batch : batch = runCursor + 1..n
    OBVIOUS
<1>4. PICK P : P = {i \in batch : runLog[i].type = "end"}
    OBVIOUS
<1>5. PICK more : more = Terminal!Fallback(batch)
    OBVIOUS
<1>6. PICK ends \in Terminal!Ends(P) :
          /\ buf' = buf \o (ends \o more)
          /\ binding' = Terminal!StatusAfter(ends \o more)
    BY <1>2, <1>3, <1>4, <1>5 DEF Terminal!Project, Terminal!Fresh
<1>7. /\ runCursor' = IF batch = {} THEN runCursor ELSE n
      /\ listed' = [listed EXCEPT ![r] = 0]
      /\ UNCHANGED <<run, act, said, runLog, gone, cancelled, op>>
    BY <1>2, <1>3
    DEF Terminal!Project, Terminal!Fresh, Terminal!Reached, Terminal!runVars
<1>8. /\ ends \in Seq(ShownEventRow) /\ Len(ends) \in Nat
      /\ P = {} => Len(ends) = 0
      /\ \A k \in 1..Len(ends) :
            /\ ends[k].src \in P /\ ends[k].type = "end"
            /\ ends[k].act = runLog[ends[k].src].act
      /\ \A j, k \in 1..Len(ends) : j < k => ends[j].src < ends[k].src
    BY <1>3, <1>4, EndsAreShown, LenProperties
<1>9. PICK m \in Nat : m = runCursor'
    <2>1. runCursor \in Nat /\ n \in Nat
        BY <1>1
    <2>2. runCursor' \in Nat
        BY <1>7, <2>1
    <2>3. QED
        BY <2>2
<1>10. /\ m \in runCursor..Len(runLog)
       /\ \A i \in batch : i \in runCursor + 1..m /\ i \in 1..Len(runLog) /\ i > 0
    <2>1. CASE batch = {}
        BY <1>1, <1>7, <1>9, <2>1
    <2>2. CASE batch # {}
        <3>1. runCursor < n
            BY <1>1, <1>3, <2>2
        <3>2. QED
            BY <1>1, <1>3, <1>7, <1>9, <2>2, <3>1
    <2>3. QED
        BY <2>1, <2>2
<1>11. \A i \in batch : runLog[i].act <= act
    BY <1>10 DEF TerminalInv, LogFacts
<1>12. PICK new \in Seq(ShownEventRow) :
          /\ new = ends \o more
          /\ \A k \in 1..Len(new) :
                /\ new[k].src \in batch /\ new[k].act = runLog[new[k].src].act
                /\ new[k].type = "end" =>
                      /\ runLog[new[k].src].type \in {"end", "completed"}
                      /\ \/ runLog[new[k].src].type = "end"
                         \/ \A i \in gone + 1..Len(buf) : buf[i].type # "end"
          /\ \A j, k \in 1..Len(new) : j < k =>
                /\ new[j].src < new[k].src
                /\ new[j].type = "end" /\ new[k].type = "end" =>
                       runLog[new[k].src].type = "end"
    <2>1. CASE more = <<>>
        <3>1. ends \o more = ends
            BY <1>8, <2>1, ConcatEmptySeq
        <3>2. \A k \in 1..Len(ends) : /\ ends[k].src \in batch
                                      /\ runLog[ends[k].src].type = "end"
            BY <1>4, <1>8
        <3>3. QED
            BY <1>8, <3>1, <3>2
    <2>2. ASSUME \A i \in batch : runLog[i].type # "end",
                 NEW e \in ShownEventRow, more = <<e>>, e.src \in batch,
                 e.act = runLog[e.src].act,
                 e.type = "end" => /\ runLog[e.src].type = "completed"
                                   /\ \A i \in gone + 1..Len(buf) : buf[i].type # "end"
          PROVE  /\ ends \o more \in Seq(ShownEventRow)
                 /\ Len(ends \o more) = 1 /\ (ends \o more)[1] = e
        <3>1. Len(ends) = 0
            BY <1>4, <1>8, <2>2
        <3>2. more \in Seq(ShownEventRow) /\ Len(more) = 1 /\ more[1] = e
            BY <2>2
        <3>3. QED
            BY <1>8, <3>1, <3>2, ConcatProperties
    <2>3. CASE more # <<>>
        <3>1. NoneOrResult(more, batch)
            BY <1>3, <1>5, FallbackIsShown
        <3>2. /\ \A i \in batch : runLog[i].type # "end"
              /\ \E e \in ShownEventRow :
                    /\ more = <<e>> /\ e.src \in batch /\ e.act = runLog[e.src].act
                    /\ e.type = "end" => /\ runLog[e.src].type = "completed"
                                         /\ \A i \in gone + 1..Len(buf) : buf[i].type # "end"
            BY <2>3, <3>1 DEF NoneOrResult
        <3>3. PICK e \in ShownEventRow :
                  /\ more = <<e>> /\ e.src \in batch /\ e.act = runLog[e.src].act
                  /\ e.type = "end" => /\ runLog[e.src].type = "completed"
                                       /\ \A i \in gone + 1..Len(buf) : buf[i].type # "end"
            BY <3>2
        <3>4. PICK new \in Seq(ShownEventRow) : new = ends \o more
            BY <2>2, <3>2, <3>3
        <3>5. Len(new) = 1 /\ new[1] = e
            BY <2>2, <3>2, <3>3, <3>4
        <3>6. /\ \A k \in 1..Len(new) : new[k] = e
              /\ \A j, k \in 1..Len(new) : ~(j < k)
            BY <3>5
        <3>7. QED
            BY <3>3, <3>4, <3>6
    <2>4. QED
        BY <2>1, <2>3
<1>13. /\ Len(new) \in Nat
       /\ buf' \in Seq(ShownEventRow) /\ Len(buf') = Len(buf) + Len(new)
       /\ \A i \in 1..Len(buf) : buf'[i] = buf[i]
       /\ \A i \in Len(buf) + 1..Len(buf) + Len(new) : buf'[i] = new[i - Len(buf)]
    <2>1. buf' = buf \o new
        BY <1>6, <1>12
    <2>2. Len(new) \in Nat
        BY <1>12, LenProperties
    <2>3. PICK s \in Seq(ShownEventRow) : s = buf
        BY <1>1
    <2>4. PICK u : u = s \o new
        OBVIOUS
    <2>5. /\ u \in Seq(ShownEventRow) /\ Len(u) = Len(s) + Len(new)
          /\ \A i \in 1..Len(s) + Len(new) :
                u[i] = IF i <= Len(s) THEN s[i] ELSE new[i - Len(s)]
        BY <1>12, <2>3, <2>4, ConcatProperties
    <2>6. PICK a, b \in Nat : a = Len(s) /\ b = Len(new)
        BY <2>2, <2>3, LenProperties
    <2>7. /\ \A i \in 1..a : u[i] = s[i]
          /\ \A i \in a + 1..a + b : u[i] = new[i - a]
        BY <2>5, <2>6
    <2>8. QED
        BY <2>1, <2>2, <2>3, <2>4, <2>5, <2>6, <2>7
<1>14. PICK a, b \in Nat : a = Len(buf) /\ b = Len(new)
    BY <1>1, <1>13
<1>15. \A k \in a + 1..a + b : k - a \in 1..b /\ buf'[k] = new[k - a]
    BY <1>13, <1>14
<1>16. \A k \in a + 1..a + b :
          /\ buf'[k].act <= act /\ buf'[k].src \in {0} \cup (runCursor + 1..m)
          /\ buf'[k].type = "end" =>
                /\ buf'[k].src > 0
                /\ runLog[buf'[k].src].type \in {"end", "completed"}
                /\ runLog[buf'[k].src].act = buf'[k].act
                /\ \/ runLog[buf'[k].src].type = "end"
                   \/ \A i \in gone + 1..Len(buf) : buf[i].type # "end"
    <2>1. \A k \in 1..b :
              /\ new[k].act <= act /\ new[k].src \in {0} \cup (runCursor + 1..m)
              /\ new[k].src > 0
        <3>1. \A k \in 1..b :
                  new[k].src \in batch /\ new[k].act = runLog[new[k].src].act
            BY <1>12, <1>14
        <3>2. \A i \in batch : /\ runLog[i].act <= act /\ i > 0
                                /\ i \in {0} \cup (runCursor + 1..m)
            BY <1>10, <1>11
        <3>3. QED
            BY <3>1, <3>2
    <2>2. SUFFICES ASSUME NEW k \in a + 1..a + b
                   PROVE  /\ buf'[k].act <= act
                          /\ buf'[k].src \in {0} \cup (runCursor + 1..m)
                          /\ buf'[k].type = "end" =>
                                /\ buf'[k].src > 0
                                /\ runLog[buf'[k].src].type \in {"end", "completed"}
                                /\ runLog[buf'[k].src].act = buf'[k].act
                                /\ \/ runLog[buf'[k].src].type = "end"
                                   \/ \A i \in gone + 1..Len(buf) : buf[i].type # "end"
        OBVIOUS
    <2>3. PICK h \in 1..b : buf'[k] = new[h]
        BY <1>15, <2>2
    <2>4. new[h].act = runLog[new[h].src].act
          /\ (new[h].type = "end" =>
                /\ runLog[new[h].src].type \in {"end", "completed"}
                /\ \/ runLog[new[h].src].type = "end"
                   \/ \A i \in gone + 1..Len(buf) : buf[i].type # "end")
        BY <1>12, <1>14
    <2>5. QED
        BY <2>1, <2>3, <2>4
<1>17. \A j, k \in a + 1..a + b : j < k =>
          /\ buf'[j].src > 0 /\ buf'[k].src > 0 => buf'[j].src < buf'[k].src
          /\ buf'[j].type = "end" /\ buf'[k].type = "end" =>
                 runLog[buf'[k].src].type = "end"
    <2>1. SUFFICES ASSUME NEW j \in a + 1..a + b, NEW k \in a + 1..a + b, j < k
                   PROVE  /\ buf'[j].src > 0 /\ buf'[k].src > 0 =>
                                 buf'[j].src < buf'[k].src
                          /\ buf'[j].type = "end" /\ buf'[k].type = "end" =>
                                 runLog[buf'[k].src].type = "end"
        OBVIOUS
    <2>2. PICK g, h \in 1..b : buf'[j] = new[g] /\ buf'[k] = new[h] /\ g < h
        <3>1. j - a < k - a
            BY <2>1
        <3>2. QED
            BY <1>15, <2>1, <3>1
    <2>3. /\ new[g].src < new[h].src
          /\ new[g].type = "end" /\ new[h].type = "end" =>
                 runLog[new[h].src].type = "end"
        BY <1>12, <1>14, <2>2
    <2>4. QED
        BY <2>2, <2>3
<1>18. BufFacts'
    BY <1>7, <1>9, <1>10, <1>13, <1>14, <1>16, <1>17, MoreIsShown
<1>19. TerminalTypes'
    <2>1. listed' \in [Poller -> 0..Len(runLog')]
        BY <1>1, <1>7
    <2>2. runCursor' \in 0..Len(runLog')
        BY <1>1, <1>7, <1>9, <1>10
    <2>3. binding' \in {"running", "settled", "error", "cancelled", "done"}
        BY <1>6 DEF Terminal!StatusAfter, TerminalInv, TerminalTypes
    <2>4. QED
        BY <1>7, <1>13, <2>1, <2>2, <2>3 DEF TerminalInv, TerminalTypes
<1>20. LogFacts'
    BY <1>7 DEF TerminalInv, LogFacts, Active
<1>21. QED
    BY <1>18, <1>19, <1>20 DEF TerminalInv

\* The oldest of what is shown are dropped.
LEMMA DroppedKeeps ==
    ASSUME TerminalInv, Terminal!Prune
    PROVE  TerminalInv'
<1>1. /\ gone' \in gone + 1..Len(buf)
      /\ UNCHANGED <<run, act, said, runLog, runCursor, listed, buf, binding, cancelled, op>>
    BY DEF Terminal!Prune, Terminal!runVars
<1>2. /\ gone \in Nat /\ Len(buf) \in Nat
    BY LenProperties DEF TerminalInv, TerminalTypes
<1>3. gone' \in 0..Len(buf) /\ gone < gone'
    BY <1>1, <1>2
<1>4. TerminalTypes' /\ LogFacts'
    BY <1>1, <1>3 DEF TerminalInv, TerminalTypes, LogFacts, Active
<1>5. \A i \in 1..Len(buf) : gone' < i => gone < i
    BY <1>2, <1>3
<1>6. \A i \in 1..Len(buf) : Traced(buf[i])'
    BY <1>1 DEF TerminalInv, BufFacts, Traced
<1>7. BufFacts'
    BY <1>1, <1>5, <1>6 DEF TerminalInv, BufFacts
<1>8. QED
    BY <1>4, <1>7 DEF TerminalInv

LEMMA TerminalNext ==
    ASSUME TerminalInv, Terminal!Next
    PROVE  TerminalInv'
<1>1. CASE Terminal!Claim
    <2>1. TerminalTypes'
        BY <1>1
        DEF Terminal!Claim, Terminal!viewVars, TerminalInv, TerminalTypes,
            Terminal!RunStatus
    <2>2. LogFacts' /\ BufFacts'
        BY <1>1
        DEF Terminal!Claim, Terminal!viewVars, TerminalInv, LogFacts, Active, BufFacts,
            Traced
    <2>3. QED
        BY <2>1, <2>2 DEF TerminalInv
<1>2. CASE \/ Terminal!SayEnd
           \/ \E s \in {"completed", "failed", "cancelled"} : Terminal!Complete(s)
    BY <1>2, RunEnds
<1>3. ASSUME NEW r \in Poller, Terminal!List(r) \/ Terminal!Project(r)
      PROVE  TerminalInv'
    BY <1>3, LookKeeps, ProjectKeeps
<1>4. ASSUME NEW c \in Caller,
             \/ Terminal!CancelBegin(c) \/ Terminal!CancelRun(c) \/ Terminal!CancelShow(c)
             \/ Terminal!StopRun(c) \/ Terminal!StopShow(c)
             \/ Terminal!ContinueRun(c) \/ Terminal!ContinueShow(c)
      PROVE  TerminalInv'
    BY <1>4, LookKeeps, RunEnds, RunMovesOn, HandlersShow
<1>5. CASE Terminal!Prune
    BY <1>5, DroppedKeeps
<1>6. QED
    BY <1>1, <1>2, <1>3, <1>4, <1>5 DEF Terminal!Next

\* What the invariant says of the end of an AgentRun.
LEMMA TerminalKeeps ==
    ASSUME TerminalInv
    PROVE  /\ Terminal!TypeOK
           /\ Terminal!ShownOnceInOrder /\ Terminal!OneEndPerActivation
<1>1. /\ runLog \in Seq(EndRow) /\ DOMAIN runLog = 1..Len(runLog) /\ Len(runLog) \in Nat
      /\ buf \in Seq(ShownEventRow) /\ DOMAIN buf = 1..Len(buf)
      /\ act \in 1..MaxAct /\ MaxAct \in Nat /\ runCursor \in 0..Len(runLog)
    BY TerminalConstants, LenProperties DEF TerminalInv, TerminalTypes
<1>2. /\ \A i \in 1..Len(runLog) : runLog[i] \in EndRow
      /\ \A i \in 1..Len(buf) : buf[i] \in ShownEventRow
    BY <1>1, ElementOfSeq
<1>3. Terminal!TypeOK
    <2>1. \A i \in 1..Len(runLog) :
              /\ runLog[i].type \in {"end", "completed", "failed", "cancelled"}
              /\ runLog[i].act \in 1..act
        BY <1>1, <1>2 DEF EndRow, TerminalInv, LogFacts
    <2>2. \A i \in 1..Len(buf) :
              /\ buf[i].type \in Terminal!EndTypes \cup {"continue", "stopped"}
              /\ buf[i].act \in 1..MaxAct /\ buf[i].src \in Nat
        BY <1>2 DEF ShownEventRow, Terminal!EndTypes
    <2>3. \A i \in 1..Len(buf) : buf[i].act <= act /\ buf[i].src <= runCursor
        BY DEF TerminalInv, BufFacts, Traced
    <2>4. \A i \in 1..Len(buf) : buf[i].act \in 1..act /\ buf[i].src \in 0..Len(runLog)
        BY <1>1, <2>2, <2>3
    <2>5. \A c \in Caller :
              op[c].at \in {"idle", "cancel", "asked", "stopped", "continued"}
        BY DEF TerminalInv, TerminalTypes, CallerRow
    <2>6. QED
        BY <1>1, <2>1, <2>2, <2>4, <2>5
        DEF TerminalInv, TerminalTypes, Terminal!TypeOK
<1>4. Terminal!ShownOnceInOrder
    BY <1>1 DEF TerminalInv, BufFacts, Terminal!ShownOnceInOrder
<1>5. Terminal!OneEndPerActivation
    <2>1. SUFFICES ASSUME NEW i \in 1..Len(buf), NEW j \in 1..Len(buf), gone < i,
                          i < j, buf[i].type = "end", buf[j].type = "end"
                   PROVE  buf[i].act < buf[j].act
        BY <1>1 DEF Terminal!OneEndPerActivation
    <2>2. PICK p, q : p = buf[i].src /\ q = buf[j].src
        OBVIOUS
    <2>3. /\ p \in Nat /\ p > 0 /\ p <= runCursor
          /\ q \in Nat /\ q > 0 /\ q <= runCursor
        BY <1>2, <2>1, <2>2 DEF ShownEventRow, TerminalInv, BufFacts, Traced
    <2>4. p \in 1..Len(runLog) /\ q \in 1..Len(runLog)
        BY <1>1, <2>3
    <2>5. p < q /\ runLog[q].type = "end" /\ runLog[p].type \in {"end", "completed"}
        BY <2>1, <2>2, <2>3 DEF TerminalInv, BufFacts, Traced
    <2>6. runLog[p].act = buf[i].act /\ runLog[q].act = buf[j].act
        BY <2>1, <2>2 DEF TerminalInv, BufFacts, Traced
    <2>7. runLog[p].act < runLog[q].act
        BY <2>4, <2>5 DEF TerminalInv, LogFacts
    <2>8. QED
        BY <2>6, <2>7
<1>6. QED
    BY <1>3, <1>4, <1>5
-----------------------------------------------------------------------------
(* The event stream.                                                       *)

Side == Buffers!Branch
LogEntry == [branch : Side, buffer : {"durable", "live"}, pieces : Seq(Nat)]

StreamTypes ==
    /\ log \in Seq(LogEntry) /\ Len(log) <= MaxLog /\ big \subseteq 1..Len(log)
    /\ pending \in [Side -> Seq(Nat)] /\ pieces \in [Side -> Nat]
    /\ base \in 0..MaxLog + 1
    /\ cursor \in [Clients -> Nat] /\ lost \in [Clients -> Nat]
    /\ seen \in [Clients -> SUBSET Nat]

\* An event above the bound of bytes took event n out of the buffer of its kind.
BigAfter(made, tooBig, kind, n) ==
    \E k \in tooBig : k \in 1..Len(made) /\ n <= k /\ made[k].buffer = kind

\* A buffer holds the newest of its events: what it dropped is before them, and it
\* holds nothing only after an event that was too big.
Held(made, buffer, kind, tooBig) ==
    /\ \A n \in buffer : n \in 1..Len(made) /\ made[n].buffer = kind
    /\ \A n \in 1..Len(made) : made[n].buffer = kind /\ n \notin buffer =>
          /\ \A h \in buffer : n < h
          /\ buffer # {} \/ BigAfter(made, tooBig, kind, n)
    /\ Cardinality(buffer) <= MaxEvents
HeldFacts == Held(log, durable, "durable", big) /\ Held(log, live, "live", big)

\* The base of a child branch is the root or a replayable event.
ForkFacts ==
    base # MaxLog + 1 /\ base # 0 => base \in 1..Len(log) /\ log[base].buffer = "durable"

\* What a client of the branch should be given, and was given or told of.
Meant(c, n) ==
    \/ log[n].branch = BranchOf[c]
    \/ BranchOf[c] = "child" /\ log[n].branch = "parent" /\ n <= base
Gone(c, n) ==
    \/ BigAfter(log, big, log[n].buffer, n)
    \/ log[n].branch # BranchOf[c] /\ BigAfter(log, big, "durable", base)
ClientFacts ==
    \A c \in Clients :
        /\ cursor[c] <= Len(log) /\ lost[c] <= cursor[c]
        /\ BranchOf[c] = "child" /\ base = MaxLog + 1 => cursor[c] = 0 /\ seen[c] = {}
        /\ \A n \in seen[c] : n \in 1..Len(log) /\ Meant(c, n)
        /\ \A n \in 1..Len(log) :
              Meant(c, n) /\ n <= cursor[c] => n \in seen[c] \/ n <= lost[c] \/ Gone(c, n)

\* A piece that comes after every one its branch has in the log.
PieceAfter(b, x) ==
    \A n \in 1..Len(log) : log[n].branch = b =>
        \A i \in DOMAIN log[n].pieces : log[n].pieces[i] < x
PieceFacts ==
    /\ \A b \in Side : \A i \in DOMAIN pending[b] :
          pending[b][i] \in 1..pieces[b] /\ PieceAfter(b, pending[b][i])
    /\ \A n \in 1..Len(log) : \A i \in DOMAIN log[n].pieces :
          log[n].pieces[i] <= pieces[log[n].branch]
    /\ \A m, n \in 1..Len(log) : m < n /\ log[m].branch = log[n].branch =>
          \A i \in DOMAIN log[m].pieces, j \in DOMAIN log[n].pieces :
              log[m].pieces[i] < log[n].pieces[j]

StreamInv == StreamTypes /\ HeldFacts /\ ForkFacts /\ ClientFacts /\ PieceFacts

\* What the proofs use of the constants of the event stream.
LEMMA StreamConstants ==
    /\ BranchOf \in [Clients -> Side] /\ Side = {"parent", "child"}
    /\ MaxEvents \in Nat \ {0} /\ MaxLog \in Nat /\ MaxPieces \in Nat
BY SessionsAssumption DEF Buffers!SessionEventsAssumption, Side, Buffers!Branch

LEMMA StreamCardinality ==
    ASSUME NEW S
    PROVE  Buffers!Cardinality(S) = Cardinality(S)
BY DEF Buffers!Cardinality, Cardinality

LEMMA StreamInit ==
    ASSUME Buffers!Init
    PROVE  StreamInv
<1>1. /\ log = <<>> /\ Len(log) = 0 /\ big = {} /\ durable = {} /\ live = {}
      /\ base = MaxLog + 1
    BY DEF Buffers!Init, Buffers!NoBase
<1>2. StreamTypes
    <2>1. pending \in [Side -> Seq(Nat)]
        BY DEF Buffers!Init, Side
    <2>2. log \in Seq(LogEntry) /\ base \in 0..MaxLog + 1
        BY <1>1, StreamConstants
    <2>3. QED
        BY <1>1, <2>1, <2>2, StreamConstants DEF Buffers!Init, StreamTypes, Side
<1>3. HeldFacts
    BY <1>1, StreamConstants, FS_EmptySet DEF HeldFacts, Held
<1>4. ForkFacts
    BY <1>1 DEF ForkFacts
<1>5. ClientFacts
    BY <1>1 DEF Buffers!Init, ClientFacts
<1>6. PieceFacts
    <2>1. \A b \in Side : DOMAIN pending[b] = {}
        BY DEF Buffers!Init, Side
    <2>2. QED
        BY <1>1, <2>1 DEF PieceFacts
<1>7. QED
    BY <1>2, <1>3, <1>4, <1>5, <1>6 DEF StreamInv

LEMMA StreamStays ==
    ASSUME StreamInv, UNCHANGED eventsVars
    PROVE  StreamInv'
<1>1. StreamTypes' /\ ForkFacts'
    BY DEF StreamInv, eventsVars, StreamTypes, ForkFacts
<1>2. HeldFacts'
    BY DEF StreamInv, eventsVars, HeldFacts, Held, BigAfter
<1>3. ClientFacts'
    <2>1. \A c, n : (Meant(c, n)' <=> Meant(c, n)) /\ (Gone(c, n)' <=> Gone(c, n))
        BY DEF eventsVars, Meant, Gone, BigAfter
    <2>2. QED
        BY <2>1 DEF StreamInv, eventsVars, ClientFacts
<1>4. PieceFacts'
    BY DEF StreamInv, eventsVars, PieceFacts, PieceAfter
<1>5. QED
    BY <1>1, <1>2, <1>3, <1>4 DEF StreamInv

\* _prune keeps the newest of a buffer and no more than its bound; it keeps none only
\* of events that came before one that is too big.
LEMMA PruneKeepsNewest ==
    ASSUME NEW S, NEW tooBig, NEW kept, kept \in Buffers!Prunings(S, tooBig)
    PROVE  /\ kept \subseteq S
           /\ kept = {} => \A n \in S : \E m \in S : m \in tooBig /\ n <= m
           /\ \A n \in S \ kept : \A h \in kept : n < h
           /\ Cardinality(kept) <= MaxEvents
BY StreamCardinality DEF Buffers!Prunings

\* What is pending in the branches becomes at most one event of each.
FlushOf(es, D) ==
    /\ es \in Seq(LogEntry) /\ Len(es) \in Nat
    /\ \A k \in 1..Len(es) :
          /\ es[k].branch \in D /\ es[k].buffer = "durable"
          /\ es[k].pieces = pending[es[k].branch]
    /\ \A j, k \in 1..Len(es) : j < k => es[j].branch # es[k].branch

LEMMA FlushedFacts ==
    ASSUME StreamTypes, NEW D, D \subseteq Side,
           NEW es, es = Buffers!Flushed(D)
    PROVE  FlushOf(es, D)
<1> DEFINE Of(b) == IF b \in D /\ pending[b] # <<>>
                    THEN <<Buffers!Delta(b, pending[b])>> ELSE <<>>
<1>1. es = Of("parent") \o Of("child")
    BY DEF Buffers!Flushed
<1>2. \A b \in Side :
          /\ Of(b) \in Seq(LogEntry) /\ Len(Of(b)) \in {0, 1}
          /\ \A k \in 1..Len(Of(b)) :
                /\ Of(b)[k].branch = b /\ b \in D /\ Of(b)[k].buffer = "durable"
                /\ Of(b)[k].pieces = pending[b]
    <2>1. SUFFICES ASSUME NEW b \in Side
                   PROVE  /\ Of(b) \in Seq(LogEntry) /\ Len(Of(b)) \in {0, 1}
                          /\ \A k \in 1..Len(Of(b)) :
                                /\ Of(b)[k].branch = b /\ b \in D
                                /\ Of(b)[k].buffer = "durable"
                                /\ Of(b)[k].pieces = pending[b]
        OBVIOUS
    <2>2. PICK e : e = Buffers!Delta(b, pending[b])
        OBVIOUS
    <2>3. /\ e \in LogEntry /\ e.branch = b /\ e.buffer = "durable"
          /\ e.pieces = pending[b]
        BY <2>1, <2>2 DEF Buffers!Delta, LogEntry, StreamTypes
    <2>4. CASE b \in D /\ pending[b] # <<>>
        <3>1. Of(b) = <<e>>
            BY <2>2, <2>4
        <3>2. <<e>> \in Seq(LogEntry) /\ Len(<<e>>) = 1 /\ <<e>>[1] = e
            BY <2>3
        <3>3. \A k \in 1..1 : k = 1
            OBVIOUS
        <3>4. QED
            BY <2>3, <2>4, <3>1, <3>2, <3>3
    <2>5. CASE ~(b \in D /\ pending[b] # <<>>)
        <3>1. Of(b) = <<>>
            BY <2>5
        <3>2. QED
            BY <3>1
    <2>6. QED
        BY <2>4, <2>5
<1>3. PICK p, c \in Seq(LogEntry) : p = Of("parent") /\ c = Of("child")
    BY <1>2, StreamConstants
<1>4. /\ Len(p) \in {0, 1} /\ Len(c) \in {0, 1}
      /\ \A k \in 1..Len(p) : /\ p[k].branch = "parent" /\ "parent" \in D
                              /\ p[k].buffer = "durable"
                              /\ p[k].pieces = pending["parent"]
      /\ \A k \in 1..Len(c) : /\ c[k].branch = "child" /\ "child" \in D
                              /\ c[k].buffer = "durable"
                              /\ c[k].pieces = pending["child"]
    BY <1>2, <1>3, StreamConstants
<1> HIDE DEF Of
<1>5. /\ es \in Seq(LogEntry) /\ Len(es) = Len(p) + Len(c)
      /\ \A i \in 1..Len(p) + Len(c) :
            es[i] = IF i <= Len(p) THEN p[i] ELSE c[i - Len(p)]
    BY <1>1, <1>3, ConcatProperties
<1>6. PICK a \in {0, 1}, d \in {0, 1} : a = Len(p) /\ d = Len(c)
    BY <1>4
<1>7. \A k \in 1..a + d :
          \/ es[k].branch = "parent" /\ k = 1 /\ k <= a
                /\ "parent" \in D /\ es[k].buffer = "durable"
                /\ es[k].pieces = pending["parent"]
          \/ es[k].branch = "child" /\ k = a + 1
                /\ "child" \in D /\ es[k].buffer = "durable"
                /\ es[k].pieces = pending["child"]
    <2>1. SUFFICES ASSUME NEW k \in 1..a + d
                   PROVE  \/ es[k].branch = "parent" /\ k = 1 /\ k <= a
                                /\ "parent" \in D /\ es[k].buffer = "durable"
                                /\ es[k].pieces = pending["parent"]
                          \/ es[k].branch = "child" /\ k = a + 1
                                /\ "child" \in D /\ es[k].buffer = "durable"
                                /\ es[k].pieces = pending["child"]
        OBVIOUS
    <2>2. CASE k <= a
        <3>1. k = 1 /\ k \in 1..Len(p) /\ es[k] = p[k]
            BY <1>5, <1>6, <2>1, <2>2
        <3>2. QED
            BY <1>4, <2>2, <3>1
    <2>3. CASE ~(k <= a)
        <3>1. k = a + 1 /\ k - a = 1 /\ d = 1
            BY <1>6, <2>1, <2>3
        <3>2. es[k] = c[1] /\ 1 \in 1..Len(c)
            BY <1>5, <1>6, <2>1, <2>3, <3>1
        <3>3. QED
            BY <1>4, <3>1, <3>2
    <2>4. QED
        BY <2>2, <2>3
<1>8. Len(es) = a + d /\ Len(es) \in Nat
    BY <1>5, <1>6
<1>9. \A k \in 1..Len(es) :
          /\ es[k].branch \in D /\ es[k].buffer = "durable"
          /\ es[k].pieces = pending[es[k].branch]
    BY <1>7, <1>8
<1>10. \A j, k \in 1..Len(es) : j < k => es[j].branch # es[k].branch
    <2>1. SUFFICES ASSUME NEW j \in 1..a + d, NEW k \in 1..a + d, j < k
                   PROVE  es[j].branch # es[k].branch
        BY <1>8
    <2>2. a \in Nat /\ j <= a /\ k > a
        BY <1>6, <1>7, <2>1
    <2>3. es[j].branch = "parent" /\ es[k].branch = "child"
        BY <1>7, <2>1, <2>2
    <2>4. QED
        BY <2>3
<1>11. QED
    BY <1>5, <1>8, <1>9, <1>10 DEF FlushOf

\* A buffer takes the new events of its kind and drops its oldest.
LEMMA HeldGrows ==
    ASSUME NEW old \in Seq(LogEntry), NEW made \in Seq(LogEntry),
           NEW was, NEW tooBig, was \subseteq tooBig,
           NEW kind, NEW buffer, Held(old, buffer, kind, was),
           Len(made) >= Len(old), \A n \in 1..Len(old) : made[n] = old[n],
           NEW new, new = {n \in Len(old) + 1..Len(made) : made[n].buffer = kind},
           NEW kept, kept \in Buffers!Prunings(buffer \cup new, tooBig)
    PROVE  Held(made, kept, kind, tooBig)
<1>1. PICK a \in Nat, len \in Nat : a = Len(old) /\ len = Len(made)
    BY LenProperties
<1>2. PICK S : S = buffer \cup new
    OBVIOUS
<1>3. \A n \in 1..a : n \in 1..len /\ made[n] = old[n]
    BY <1>1
<1>4. \A n \in S : n \in 1..len /\ made[n].buffer = kind
    BY <1>1, <1>2, <1>3 DEF Held
<1>5. /\ kept \subseteq S
      /\ kept = {} => \A n \in S : \E m \in S : m \in tooBig /\ n <= m
      /\ \A n \in S \ kept : \A h \in kept : n < h
      /\ Cardinality(kept) <= MaxEvents
    <2>1. kept \in Buffers!Prunings(S, tooBig)
        BY <1>2
    <2>2. QED
        BY <2>1, PruneKeepsNewest
<1>6. ASSUME NEW n \in 1..len, made[n].buffer = kind, n \notin S
      PROVE  /\ n \in 1..a /\ \A h \in S : n < h
             /\ buffer # {} \/ BigAfter(made, tooBig, kind, n)
    <2>1. n \in 1..a /\ old[n].buffer = kind /\ n \notin buffer
        BY <1>1, <1>2, <1>3, <1>6
    <2>2. \A h \in buffer : n < h
        BY <1>1, <2>1 DEF Held
    <2>3. \A h \in new : n < h
        BY <1>1, <2>1
    <2>4. CASE BigAfter(old, was, kind, n)
        <3>1. PICK k \in was : k \in 1..a /\ n <= k /\ old[k].buffer = kind
            BY <1>1, <2>4 DEF BigAfter
        <3>2. k \in tooBig /\ k \in 1..len /\ made[k].buffer = kind
            BY <1>3, <3>1
        <3>3. BigAfter(made, tooBig, kind, n)
            BY <1>1, <3>1, <3>2 DEF BigAfter
        <3>4. QED
            BY <1>2, <2>1, <2>2, <2>3, <3>3
    <2>5. CASE buffer # {}
        BY <1>2, <2>1, <2>2, <2>3, <2>5
    <2>6. QED
        BY <1>1, <2>1, <2>4, <2>5 DEF Held
<1>7. ASSUME NEW n \in 1..len, made[n].buffer = kind, n \notin kept
      PROVE  /\ \A h \in kept : n < h
             /\ kept # {} \/ BigAfter(made, tooBig, kind, n)
    <2>1. \A h \in kept : n < h
        BY <1>5, <1>6, <1>7
    <2>2. ASSUME kept = {}, NEW x \in S, n <= x
          PROVE  BigAfter(made, tooBig, kind, n)
        <3>1. PICK m \in S : m \in tooBig /\ x <= m
            BY <1>5, <2>2
        <3>2. m \in 1..len /\ made[m].buffer = kind /\ x \in 1..len
            BY <1>4, <2>2, <3>1
        <3>3. n <= m
            BY <2>2, <3>1, <3>2
        <3>4. QED
            BY <1>1, <3>1, <3>2, <3>3 DEF BigAfter
    <2>3. CASE n \in S
        BY <2>1, <2>2, <2>3
    <2>4. CASE n \notin S
        <3>1. /\ \A h \in S : n < h
              /\ buffer # {} \/ BigAfter(made, tooBig, kind, n)
            BY <1>6, <1>7, <2>4
        <3>2. CASE buffer # {}
            <4>1. PICK x : x \in S
                BY <1>2, <3>2
            <4>2. n <= x
                BY <1>4, <3>1, <4>1
            <4>3. QED
                BY <2>1, <2>2, <4>1, <4>2
        <3>3. QED
            BY <2>1, <3>1, <3>2
    <2>5. QED
        BY <2>3, <2>4
<1>8. QED
    BY <1>1, <1>4, <1>5, <1>7 DEF Held

\* Events are added to the log, and none changes.
LogGrowth ==
    /\ log' \in Seq(LogEntry) /\ Len(log') >= Len(log) /\ Len(log') <= MaxLog
    /\ \A n \in 1..Len(log) : log'[n] = log[n]
NewOf(kind) == {n \in Len(log) + 1..Len(log') : log'[n].buffer = kind}

\* So are the ones that are too big.
BigGrowth == big \subseteq big' /\ big' \subseteq 1..Len(log')

LEMMA SizedGrows ==
    ASSUME StreamTypes, LogGrowth, NEW numbers, numbers \subseteq 1..Len(log'),
           Buffers!Sized(numbers)
    PROVE  BigGrowth
<1>1. \A n \in 1..Len(log) : n \in 1..Len(log')
    BY LenProperties DEF StreamTypes, LogGrowth
<1>2. QED
    BY <1>1 DEF Buffers!Sized, BigGrowth, StreamTypes

\* Who is taken out stays so.
LEMMA BigAfterStays ==
    ASSUME StreamTypes, LogGrowth, BigGrowth, NEW kind, NEW n, BigAfter(log, big, kind, n)
    PROVE  BigAfter(log', big', kind, n)
<1>1. PICK k \in big : k \in 1..Len(log) /\ n <= k /\ log[k].buffer = kind
    BY DEF BigAfter
<1>2. k \in 1..Len(log') /\ log'[k] = log[k] /\ k \in big'
    BY <1>1, LenProperties DEF StreamTypes, LogGrowth, BigGrowth
<1>3. QED
    BY <1>1, <1>2 DEF BigAfter

LEMMA LogGrowsBy ==
    ASSUME StreamTypes, NEW es \in Seq(LogEntry), log' = log \o es,
           Len(log) + Len(es) <= MaxLog
    PROVE  /\ LogGrowth /\ Len(log') = Len(log) + Len(es)
           /\ \A n \in Len(log) + 1..Len(log') :
                 n - Len(log) \in 1..Len(es) /\ log'[n] = es[n - Len(log)]
<1>1. log \in Seq(LogEntry) /\ Len(log) \in Nat /\ Len(es) \in Nat
    BY LenProperties DEF StreamTypes
<1>2. /\ log' \in Seq(LogEntry) /\ Len(log') = Len(log) + Len(es)
      /\ \A i \in 1..Len(log) + Len(es) :
            log'[i] = IF i <= Len(log) THEN log[i] ELSE es[i - Len(log)]
    BY <1>1, ConcatProperties
<1>3. PICK a, b \in Nat : a = Len(log) /\ b = Len(es)
    BY <1>1
<1>4. \A i \in 1..a : i \in 1..a + b /\ i <= a
    OBVIOUS
<1>5. \A n \in a + 1..a + b : n \in 1..a + b /\ ~(n <= a) /\ n - a \in 1..b
    OBVIOUS
<1>6. \A i \in 1..a : log'[i] = log[i]
    BY <1>2, <1>3, <1>4
<1>7. \A n \in a + 1..a + b : n - a \in 1..b /\ log'[n] = es[n - a]
    BY <1>2, <1>3, <1>5
<1>8. QED
    BY <1>1, <1>2, <1>3, <1>6, <1>7 DEF LogGrowth

LEMMA HeldAfter ==
    ASSUME StreamInv, LogGrowth, BigGrowth,
           durable' \in Buffers!Prunings(durable \cup NewOf("durable"), big'),
           \/ live' \in Buffers!Prunings(live \cup NewOf("live"), big')
           \/ live' = live /\ NewOf("live") = {}
    PROVE  HeldFacts'
<1>1. /\ log \in Seq(LogEntry) /\ log' \in Seq(LogEntry)
      /\ Len(log') >= Len(log) /\ \A n \in 1..Len(log) : log'[n] = log[n]
      /\ Held(log, durable, "durable", big) /\ Held(log, live, "live", big)
    BY DEF StreamInv, StreamTypes, HeldFacts, LogGrowth
<1>2. PICK old, made \in Seq(LogEntry) : old = log /\ made = log'
    BY <1>1
<1>3. ASSUME NEW kind, NEW buffer, Held(log, buffer, kind, big),
             NEW kept, kept \in Buffers!Prunings(buffer \cup NewOf(kind), big')
      PROVE  Held(log', kept, kind, big')
    <2>1. PICK new : new = NewOf(kind)
        OBVIOUS
    <2>2. new = {n \in Len(old) + 1..Len(made) : made[n].buffer = kind}
        BY <1>2, <2>1 DEF NewOf
    <2>3. PICK was, tooBig : was = big /\ tooBig = big'
        OBVIOUS
    <2>4. /\ Held(old, buffer, kind, was) /\ Len(made) >= Len(old)
          /\ \A n \in 1..Len(old) : made[n] = old[n]
          /\ kept \in Buffers!Prunings(buffer \cup new, tooBig)
        BY <1>1, <1>2, <1>3, <2>1, <2>3 DEF BigGrowth
    <2>5. was \subseteq tooBig
        BY <2>3 DEF BigGrowth
    <2>6. Held(made, kept, kind, tooBig)
        BY <2>2, <2>4, <2>5, HeldGrows
    <2>7. QED
        BY <1>2, <2>3, <2>6
<1>4. Held(log', durable', "durable", big')
    BY <1>1, <1>3
<1>5. Held(log', live', "live", big')
    <2>1. CASE live' \in Buffers!Prunings(live \cup NewOf("live"), big')
        BY <1>1, <1>3, <2>1
    <2>2. CASE live' = live /\ NewOf("live") = {}
        <3>1. Len(log) \in Nat /\ Len(log') \in Nat
            BY <1>1, LenProperties
        <3>2. \A n \in 1..Len(log') : n \in 1..Len(log) \/ n \in Len(log) + 1..Len(log')
            BY <1>1, <3>1
        <3>3. \A n \in 1..Len(log') : log'[n].buffer = "live" => n \in 1..Len(log)
            BY <2>2, <3>2 DEF NewOf
        <3>4. \A n \in 1..Len(log) : n \in 1..Len(log')
            BY <1>1, <3>1
        <3>5. \A n : BigAfter(log, big, "live", n) => BigAfter(log', big', "live", n)
            BY BigAfterStays DEF StreamInv
        <3>6. QED
            BY <1>1, <2>2, <3>3, <3>4, <3>5 DEF Held
    <2>3. QED
        BY <2>1, <2>2
<1>6. QED
    BY <1>4, <1>5 DEF HeldFacts

\* What the clients were given and told stays true, and the base of the fork.
LEMMA ClientsStay ==
    ASSUME StreamInv, LogGrowth, BigGrowth, UNCHANGED <<base, cursor, seen, lost>>
    PROVE  ForkFacts' /\ ClientFacts'
<1>1. Len(log) \in Nat /\ Len(log') \in Nat /\ cursor \in [Clients -> Nat]
    BY LenProperties DEF StreamInv, StreamTypes, LogGrowth
<1>2. \A n \in 1..Len(log) : n \in 1..Len(log') /\ log'[n] = log[n]
    BY <1>1 DEF LogGrowth
<1>3. ForkFacts'
    BY <1>2 DEF StreamInv, ForkFacts
<1>4. \A c \in Clients : \A n \in 1..Len(log) : Meant(c, n)' <=> Meant(c, n)
    BY <1>2 DEF Meant
<1>5. \A c \in Clients : \A n \in 1..Len(log') : n <= cursor[c] => n \in 1..Len(log)
    BY <1>1 DEF StreamInv, ClientFacts
<1>6. \A c \in Clients : cursor[c] <= Len(log')
    BY <1>1 DEF StreamInv, ClientFacts, LogGrowth
<1>7. \A c \in Clients : \A n \in 1..Len(log) : Gone(c, n) => Gone(c, n)'
    <2>1. \A kind, n : BigAfter(log, big, kind, n) => BigAfter(log', big', kind, n)
        BY BigAfterStays DEF StreamInv
    <2>2. QED
        BY <1>2, <2>1 DEF Gone
<1>8. ClientFacts'
    BY <1>2, <1>4, <1>5, <1>6, <1>7 DEF StreamInv, ClientFacts
<1>9. QED
    BY <1>3, <1>8

\* New events hold pieces that came after the ones in the log, and what stays
\* pending comes after them.
LEMMA PiecesGrow ==
    ASSUME StreamInv, LogGrowth,
           pieces' \in [Side -> Nat], \A b \in Side : pieces[b] <= pieces'[b],
           \A n \in Len(log) + 1..Len(log') : \A i \in DOMAIN log'[n].pieces :
              /\ log'[n].pieces[i] <= pieces'[log'[n].branch]
              /\ PieceAfter(log'[n].branch, log'[n].pieces[i]),
           \A m, n \in Len(log) + 1..Len(log') : m < n /\ log'[m].branch = log'[n].branch =>
              DOMAIN log'[m].pieces = {} \/ DOMAIN log'[n].pieces = {},
           \A b \in Side : \A j \in DOMAIN pending'[b] :
              /\ pending'[b][j] \in 1..pieces'[b] /\ PieceAfter(b, pending'[b][j])
              /\ \A n \in Len(log) + 1..Len(log') : log'[n].branch = b =>
                    \A i \in DOMAIN log'[n].pieces : log'[n].pieces[i] < pending'[b][j]
    PROVE  PieceFacts'
<1>1. PICK a, z \in Nat : a = Len(log) /\ z = Len(log') /\ z >= a
    BY LenProperties DEF StreamInv, StreamTypes, LogGrowth
<1>2. \A n \in 1..a : log'[n] = log[n]
    BY <1>1 DEF LogGrowth
<1>3. \A n \in 1..z : n \in 1..a \/ n \in a + 1..z
    BY <1>1
<1>4. \A b \in Side : \A j \in DOMAIN pending'[b] :
          /\ pending'[b][j] \in 1..pieces'[b]
          /\ \A n \in 1..z : log'[n].branch = b =>
                \A i \in DOMAIN log'[n].pieces : log'[n].pieces[i] < pending'[b][j]
    BY <1>1, <1>2, <1>3 DEF PieceAfter
<1>5. \A n \in 1..z : \A i \in DOMAIN log'[n].pieces :
          log'[n].pieces[i] <= pieces'[log'[n].branch]
    <2>1. SUFFICES ASSUME NEW n \in 1..a, NEW i \in DOMAIN log[n].pieces
                   PROVE  log[n].pieces[i] <= pieces'[log[n].branch]
        BY <1>1, <1>2, <1>3
    <2>2. log[n] \in LogEntry
        BY <1>1, <2>1, ElementOfSeq DEF StreamInv, StreamTypes
    <2>3. log[n].branch \in Side /\ log[n].pieces \in Seq(Nat)
        BY <2>2 DEF LogEntry
    <2>4. log[n].pieces[i] \in Nat
        BY <2>1, <2>3
    <2>5. pieces[log[n].branch] \in Nat /\ pieces'[log[n].branch] \in Nat
        BY <2>3 DEF StreamInv, StreamTypes
    <2>6. log[n].pieces[i] <= pieces[log[n].branch]
        BY <1>1, <2>1 DEF StreamInv, PieceFacts
    <2>7. QED
        BY <2>3, <2>4, <2>5, <2>6
<1>6. \A m, n \in 1..z : m < n /\ log'[m].branch = log'[n].branch =>
          \A i \in DOMAIN log'[m].pieces, j \in DOMAIN log'[n].pieces :
              log'[m].pieces[i] < log'[n].pieces[j]
    <2>1. SUFFICES ASSUME NEW m \in 1..z, NEW n \in 1..z, m < n,
                          log'[m].branch = log'[n].branch,
                          NEW i \in DOMAIN log'[m].pieces, NEW j \in DOMAIN log'[n].pieces
                   PROVE  log'[m].pieces[i] < log'[n].pieces[j]
        OBVIOUS
    <2>2. CASE n \in 1..a
        <3>1. m \in 1..a
            BY <2>1, <2>2
        <3>2. QED
            BY <1>1, <1>2, <2>1, <2>2, <3>1 DEF StreamInv, PieceFacts
    <2>3. CASE m \in 1..a /\ n \in a + 1..z
        <3>1. PieceAfter(log'[n].branch, log'[n].pieces[j])
            BY <1>1, <2>1, <2>3
        <3>2. QED
            BY <1>1, <1>2, <2>1, <2>3, <3>1 DEF PieceAfter
    <2>4. CASE m \in a + 1..z /\ n \in a + 1..z
        BY <1>1, <2>1, <2>4
    <2>5. QED
        BY <1>3, <2>1, <2>2, <2>3, <2>4
<1>7. QED
    BY <1>1, <1>4, <1>5, <1>6 DEF PieceFacts, PieceAfter

\* The events es are appended: the pieces they hold come after the ones in the
\* log, and what stays pending comes after them.
PiecesFollow(es) ==
    /\ pieces' \in [Side -> Nat] /\ \A b \in Side : pieces[b] <= pieces'[b]
    /\ pending' \in [Side -> Seq(Nat)]
    /\ \A k \in 1..Len(es) : \A i \in DOMAIN es[k].pieces :
          /\ es[k].pieces[i] <= pieces'[es[k].branch]
          /\ PieceAfter(es[k].branch, es[k].pieces[i])
    /\ \A j, k \in 1..Len(es) : j < k /\ es[j].branch = es[k].branch =>
          DOMAIN es[j].pieces = {} \/ DOMAIN es[k].pieces = {}
    /\ \A b \in Side : \A j \in DOMAIN pending'[b] :
          /\ pending'[b][j] \in 1..pieces'[b] /\ PieceAfter(b, pending'[b][j])
          /\ \A k \in 1..Len(es) : es[k].branch = b =>
                \A i \in DOMAIN es[k].pieces : es[k].pieces[i] < pending'[b][j]

LEMMA StreamGrows ==
    ASSUME StreamInv, NEW es \in Seq(LogEntry), log' = log \o es,
           Len(log) + Len(es) <= MaxLog, PiecesFollow(es), BigGrowth,
           UNCHANGED <<base, cursor, seen, lost>>,
           durable' \in Buffers!Prunings(durable \cup NewOf("durable"), big'),
           \/ live' \in Buffers!Prunings(live \cup NewOf("live"), big')
           \/ live' = live /\ NewOf("live") = {}
    PROVE  StreamInv'
<1>1. /\ LogGrowth /\ Len(log') = Len(log) + Len(es)
      /\ \A n \in Len(log) + 1..Len(log') :
            n - Len(log) \in 1..Len(es) /\ log'[n] = es[n - Len(log)]
    BY LogGrowsBy DEF StreamInv
<1>2. PICK a, z \in Nat : a = Len(log) /\ z = Len(es)
    BY LenProperties DEF StreamInv, StreamTypes
<1>3. \A n \in a + 1..a + z : n - a \in 1..z /\ log'[n] = es[n - a]
    BY <1>1, <1>2
<1>4. HeldFacts'
    BY <1>1, HeldAfter
<1>5. ForkFacts' /\ ClientFacts'
    BY <1>1, ClientsStay
<1>6. \A n \in Len(log) + 1..Len(log') : \A i \in DOMAIN log'[n].pieces :
          /\ log'[n].pieces[i] <= pieces'[log'[n].branch]
          /\ PieceAfter(log'[n].branch, log'[n].pieces[i])
    <2>1. SUFFICES ASSUME NEW n \in a + 1..a + z, NEW i \in DOMAIN log'[n].pieces
                   PROVE  /\ log'[n].pieces[i] <= pieces'[log'[n].branch]
                          /\ PieceAfter(log'[n].branch, log'[n].pieces[i])
        BY <1>1, <1>2
    <2>2. PICK k \in 1..z : log'[n] = es[k]
        BY <1>3, <2>1
    <2>3. i \in DOMAIN es[k].pieces
        BY <2>1, <2>2
    <2>4. /\ es[k].pieces[i] <= pieces'[es[k].branch]
          /\ PieceAfter(es[k].branch, es[k].pieces[i])
        BY <1>2, <2>2, <2>3 DEF PiecesFollow
    <2>5. QED
        BY <2>2, <2>4
<1>7. \A m, n \in Len(log) + 1..Len(log') : m < n /\ log'[m].branch = log'[n].branch =>
          DOMAIN log'[m].pieces = {} \/ DOMAIN log'[n].pieces = {}
    <2>1. SUFFICES ASSUME NEW m \in a + 1..a + z, NEW n \in a + 1..a + z, m < n,
                          log'[m].branch = log'[n].branch
                   PROVE  DOMAIN log'[m].pieces = {} \/ DOMAIN log'[n].pieces = {}
        BY <1>1, <1>2
    <2>2. PICK j, k \in 1..z : log'[m] = es[j] /\ log'[n] = es[k] /\ j < k
        <3>1. m - a < n - a
            BY <2>1
        <3>2. QED
            BY <1>3, <2>1, <3>1
    <2>3. DOMAIN es[j].pieces = {} \/ DOMAIN es[k].pieces = {}
        BY <1>2, <2>1, <2>2 DEF PiecesFollow
    <2>4. QED
        BY <2>2, <2>3
<1>8. \A b \in Side : \A j \in DOMAIN pending'[b] :
          /\ pending'[b][j] \in 1..pieces'[b] /\ PieceAfter(b, pending'[b][j])
          /\ \A n \in Len(log) + 1..Len(log') : log'[n].branch = b =>
                \A i \in DOMAIN log'[n].pieces : log'[n].pieces[i] < pending'[b][j]
    <2>1. SUFFICES ASSUME NEW b \in Side, NEW j \in DOMAIN pending'[b],
                          NEW n \in a + 1..a + z, log'[n].branch = b,
                          NEW i \in DOMAIN log'[n].pieces
                   PROVE  log'[n].pieces[i] < pending'[b][j]
        BY <1>1, <1>2 DEF PiecesFollow
    <2>2. PICK k \in 1..z : log'[n] = es[k]
        BY <1>3, <2>1
    <2>3. es[k].branch = b /\ i \in DOMAIN es[k].pieces
        BY <2>1, <2>2
    <2>4. es[k].pieces[i] < pending'[b][j]
        BY <1>2, <2>1, <2>2, <2>3 DEF PiecesFollow
    <2>5. QED
        BY <2>2, <2>4
<1>9. PieceFacts'
    <2>1. pieces' \in [Side -> Nat] /\ \A b \in Side : pieces[b] <= pieces'[b]
        BY DEF PiecesFollow
    <2>2. QED
        BY <1>1, <1>6, <1>7, <1>8, <2>1, PiecesGrow
<1>10. StreamTypes'
    BY <1>1 DEF LogGrowth, BigGrowth, PiecesFollow, StreamInv, StreamTypes
<1>11. QED
    BY <1>4, <1>5, <1>9, <1>10 DEF StreamInv

\* Replayable events are written.
LEMMA WriteKeeps ==
    ASSUME StreamInv, NEW es \in Seq(LogEntry), Buffers!Write(es), PiecesFollow(es),
           \A k \in 1..Len(es) : es[k].buffer = "durable",
           UNCHANGED <<live, base, cursor, seen, lost>>
    PROVE  StreamInv'
<1>1. /\ log' = log \o es /\ Len(log) + Len(es) <= MaxLog
      /\ durable' \in Buffers!Prunings(durable \cup (Len(log) + 1..Len(log) + Len(es)), big')
      /\ Buffers!Sized(Len(log) + 1..Len(log) + Len(es))
    BY DEF Buffers!Write, Buffers!Numbers
<1>2. /\ LogGrowth /\ Len(log') = Len(log) + Len(es)
      /\ \A n \in Len(log) + 1..Len(log') :
            n - Len(log) \in 1..Len(es) /\ log'[n] = es[n - Len(log)]
    BY <1>1, LogGrowsBy DEF StreamInv
<1>3. \A n \in Len(log) + 1..Len(log') : log'[n].buffer = "durable"
    BY <1>2
<1>4. NewOf("durable") = Len(log) + 1..Len(log) + Len(es) /\ NewOf("live") = {}
    BY <1>2, <1>3 DEF NewOf
<1>5. BigGrowth
    <2>1. Len(log) + 1..Len(log) + Len(es) \subseteq 1..Len(log')
        BY <1>2, LenProperties DEF StreamInv, StreamTypes
    <2>2. QED
        BY <1>1, <1>2, <2>1, SizedGrows DEF StreamInv
<1>6. QED
    BY <1>1, <1>4, <1>5, StreamGrows

\* What is appended is pending in the branches that are flushed, or the next
\* piece of another branch that keeps nothing pending; only pieces of branches
\* that are not flushed and the next piece stay pending.
LEMMA FlushFollows ==
    ASSUME StreamInv, NEW D, D \subseteq Side, NEW es \in Seq(LogEntry),
           pieces' \in [Side -> Nat], \A b \in Side : pieces[b] <= pieces'[b],
           pending' \in [Side -> Seq(Nat)],
           \A k \in 1..Len(es) :
              \/ es[k].pieces = <<>>
              \/ es[k].branch \in D /\ es[k].pieces = pending[es[k].branch]
              \/ /\ es[k].branch \notin D /\ pending'[es[k].branch] = <<>>
                 /\ es[k].pieces = <<pieces[es[k].branch] + 1>>
                 /\ pieces'[es[k].branch] = pieces[es[k].branch] + 1,
           \A j, k \in 1..Len(es) : j < k /\ es[j].branch = es[k].branch =>
              es[j].pieces = <<>> \/ es[k].pieces = <<>>,
           \A b \in Side : \A j \in DOMAIN pending'[b] :
              \/ /\ b \notin D
                 /\ \E i \in DOMAIN pending[b] : pending'[b][j] = pending[b][i]
              \/ /\ pending'[b][j] = pieces[b] + 1
                 /\ pieces'[b] = pieces[b] + 1
    PROVE  PiecesFollow(es)
<1>1. /\ pieces \in [Side -> Nat] /\ pending \in [Side -> Seq(Nat)]
      /\ log \in Seq(LogEntry) /\ StreamTypes /\ PieceFacts
    BY DEF StreamInv, StreamTypes
<1>2. \A k \in 1..Len(es) : es[k].branch \in Side /\ es[k].pieces \in Seq(Nat)
    <2>1. \A k \in 1..Len(es) : es[k] \in LogEntry
        BY ElementOfSeq
    <2>2. QED
        BY <2>1 DEF LogEntry
<1>3. \A b \in Side : PieceAfter(b, pieces[b] + 1)
    <2>1. SUFFICES ASSUME NEW b \in Side, NEW n \in 1..Len(log), log[n].branch = b,
                          NEW i \in DOMAIN log[n].pieces
                   PROVE  log[n].pieces[i] < pieces[b] + 1
        BY DEF PieceAfter
    <2>2. log[n].pieces \in Seq(Nat)
        <3>1. log[n] \in LogEntry
            BY <1>1, <2>1, ElementOfSeq
        <3>2. QED
            BY <3>1 DEF LogEntry
    <2>3. log[n].pieces[i] \in Nat /\ pieces[b] \in Nat
        BY <1>1, <2>1, <2>2
    <2>4. log[n].pieces[i] <= pieces[b]
        BY <1>1, <2>1 DEF PieceFacts
    <2>5. QED
        BY <2>3, <2>4
<1>4. \A b \in Side : \A i \in DOMAIN pending[b] :
          /\ pending[b][i] \in Nat /\ pending[b][i] <= pieces[b]
          /\ pending[b][i] \in 1..pieces'[b] /\ PieceAfter(b, pending[b][i])
    <2>1. SUFFICES ASSUME NEW b \in Side, NEW i \in DOMAIN pending[b]
                   PROVE  /\ pending[b][i] \in Nat /\ pending[b][i] <= pieces[b]
                          /\ pending[b][i] \in 1..pieces'[b]
                          /\ PieceAfter(b, pending[b][i])
        OBVIOUS
    <2>2. pending[b][i] \in 1..pieces[b] /\ PieceAfter(b, pending[b][i])
        BY <1>1, <2>1 DEF PieceFacts
    <2>3. pieces[b] \in Nat /\ pieces'[b] \in Nat /\ pieces[b] <= pieces'[b]
        BY <1>1, <2>1
    <2>4. QED
        BY <2>2, <2>3
<1>5. ASSUME NEW k \in 1..Len(es), NEW i \in DOMAIN es[k].pieces
      PROVE  /\ es[k].pieces[i] <= pieces'[es[k].branch]
             /\ PieceAfter(es[k].branch, es[k].pieces[i])
             /\ \A j \in DOMAIN pending'[es[k].branch] :
                   es[k].pieces[i] < pending'[es[k].branch][j]
    <2>1. PICK b \in Side : b = es[k].branch
        BY <1>2, <1>5
    <2>2. pieces[b] \in Nat /\ pieces'[b] \in Nat
        BY <1>1
    <2>3. CASE es[k].pieces = <<>>
        BY <1>5, <2>3
    <2>4. CASE b \in D /\ es[k].pieces = pending[b]
        <3>1. PICK x : x = es[k].pieces[i] /\ x = pending[b][i]
            BY <2>4
        <3>2. x \in Nat /\ x <= pieces[b] /\ x \in 1..pieces'[b] /\ PieceAfter(b, x)
            BY <1>4, <1>5, <2>4, <3>1
        <3>3. \A j \in DOMAIN pending'[b] : pending'[b][j] = pieces[b] + 1
            BY <2>4
        <3>4. \A j \in DOMAIN pending'[b] : x < pending'[b][j]
            BY <2>2, <3>2, <3>3
        <3>5. x <= pieces'[b]
            BY <2>2, <3>2
        <3>6. QED
            BY <2>1, <3>1, <3>2, <3>4, <3>5
    <2>5. CASE /\ pending'[b] = <<>> /\ es[k].pieces = <<pieces[b] + 1>>
               /\ pieces'[b] = pieces[b] + 1
        <3>1. i = 1 /\ es[k].pieces[i] = pieces[b] + 1
            BY <1>5, <2>5
        <3>2. DOMAIN pending'[b] = {}
            BY <2>5
        <3>3. PieceAfter(b, pieces[b] + 1)
            BY <1>3
        <3>4. QED
            BY <2>1, <2>2, <2>5, <3>1, <3>2, <3>3
    <2>6. QED
        BY <1>5, <2>1, <2>3, <2>4, <2>5
<1>6. ASSUME NEW b \in Side, NEW j \in DOMAIN pending'[b]
      PROVE  pending'[b][j] \in 1..pieces'[b] /\ PieceAfter(b, pending'[b][j])
    <2>1. pieces[b] \in Nat /\ pieces'[b] \in Nat
        BY <1>1
    <2>2. CASE \E i \in DOMAIN pending[b] : pending'[b][j] = pending[b][i]
        BY <1>4, <2>2
    <2>3. CASE pending'[b][j] = pieces[b] + 1 /\ pieces'[b] = pieces[b] + 1
        <3>1. PieceAfter(b, pieces[b] + 1)
            BY <1>3
        <3>2. QED
            BY <2>1, <2>3, <3>1
    <2>4. QED
        BY <1>6, <2>2, <2>3
<1>7. \A j, k \in 1..Len(es) : j < k /\ es[j].branch = es[k].branch =>
          DOMAIN es[j].pieces = {} \/ DOMAIN es[k].pieces = {}
    BY <1>2
<1>8. QED
    BY <1>5, <1>6, <1>7 DEF PiecesFollow

\* A flush, and one event after it.
FlushWith(es, D, e) ==
    /\ es \in Seq(LogEntry)
    /\ Len(es) \in Nat /\ Len(es) > 0 /\ es[Len(es)] = e
    /\ \A k \in 1..Len(es) :
          \/ k = Len(es) /\ es[k] = e
          \/ /\ k # Len(es) /\ es[k].branch \in D /\ es[k].buffer = "durable"
             /\ es[k].pieces = pending[es[k].branch]
    /\ \A j, k \in 1..Len(es) : j < k /\ es[j].branch = es[k].branch =>
          es[k] = e /\ es[j].branch \in D

LEMMA FlushedThen ==
    ASSUME StreamTypes, NEW D, D \subseteq Side, NEW e \in LogEntry,
           NEW es, es = Append(Buffers!Flushed(D), e)
    PROVE  FlushWith(es, D, e)
<1>1. PICK f : f = Buffers!Flushed(D)
    OBVIOUS
<1>2. /\ f \in Seq(LogEntry) /\ Len(f) \in Nat
      /\ \A k \in 1..Len(f) :
            /\ f[k].branch \in D /\ f[k].buffer = "durable"
            /\ f[k].pieces = pending[f[k].branch]
      /\ \A j, k \in 1..Len(f) : j < k => f[j].branch # f[k].branch
    <2>1. FlushOf(f, D)
        BY <1>1, FlushedFacts
    <2>2. QED
        BY <2>1 DEF FlushOf
<1>3. PICK n \in Nat : n = Len(f)
    BY <1>2
<1>4. /\ es \in Seq(LogEntry) /\ Len(es) = n + 1
      /\ \A k \in 1..n : es[k] = f[k]
      /\ es[n + 1] = e
    BY <1>1, <1>2, <1>3, AppendProperties
<1>5. \A k \in 1..n + 1 : k = n + 1 \/ (k \in 1..n /\ k # n + 1)
    OBVIOUS
<1>6. \A k \in 1..n : /\ es[k].branch \in D /\ es[k].buffer = "durable"
                      /\ es[k].pieces = pending[es[k].branch]
    BY <1>2, <1>3, <1>4
<1>7. \A j, k \in 1..n + 1 : j < k /\ es[j].branch = es[k].branch =>
          es[k] = e /\ es[j].branch \in D
    <2>1. SUFFICES ASSUME NEW j \in 1..n + 1, NEW k \in 1..n + 1, j < k,
                          es[j].branch = es[k].branch
                   PROVE  es[k] = e /\ es[j].branch \in D
        OBVIOUS
    <2>2. j \in 1..n
        BY <2>1
    <2>3. k \notin 1..n
        BY <1>2, <1>3, <1>4, <2>1, <2>2
    <2>4. QED
        BY <1>4, <1>5, <1>6, <2>1, <2>2, <2>3
<1>8. QED
    BY <1>3, <1>4, <1>5, <1>6, <1>7 DEF FlushWith

\* append_event, and the projection's append that flushes nothing.
LEMMA EventsAreAppended ==
    ASSUME StreamInv, NEW b \in Side, Buffers!AppendEvent(b) \/ Buffers!Project(b)
    PROVE  StreamInv'
<1>1. StreamTypes /\ pieces \in [Side -> Nat] /\ pending \in [Side -> Seq(Nat)]
    BY DEF StreamInv, StreamTypes
<1>2. PICK e : e = Buffers!Item(b)
    OBVIOUS
<1>3. e \in LogEntry /\ e.branch = b /\ e.buffer = "durable" /\ e.pieces = <<>>
    BY <1>2 DEF Buffers!Item, LogEntry
<1>4. CASE Buffers!AppendEvent(b)
    <2>1. PICK D, es : D = Side /\ es = Append(Buffers!Flushed(D), e)
        OBVIOUS
    <2>2. /\ es \in Seq(LogEntry)
          /\ \A k \in 1..Len(es) :
                \/ k = Len(es) /\ es[k] = e
                \/ /\ k # Len(es) /\ es[k].branch \in D /\ es[k].buffer = "durable"
                   /\ es[k].pieces = pending[es[k].branch]
          /\ \A j, k \in 1..Len(es) : j < k /\ es[j].branch = es[k].branch =>
                es[k] = e /\ es[j].branch \in D
        <3>1. D \subseteq Side /\ es = Append(Buffers!Flushed(D), e)
            BY <2>1
        <3>2. FlushWith(es, D, e)
            BY <1>1, <1>3, <3>1, FlushedThen
        <3>3. QED
            BY <3>2 DEF FlushWith
    <2>3. /\ Buffers!Write(es) /\ pending' = [c \in Side |-> <<>>]
          /\ UNCHANGED <<live, pieces, base, cursor, seen, lost>>
        BY <1>2, <1>4, <2>1 DEF Buffers!AppendEvent, Side, Buffers!clientVars
    <2>4. /\ pieces' \in [Side -> Nat] /\ \A c \in Side : pieces[c] <= pieces'[c]
          /\ pending' \in [Side -> Seq(Nat)]
          /\ \A c \in Side : DOMAIN pending'[c] = {}
        BY <1>1, <2>3
    <2>5. PiecesFollow(es)
        <3>1. D \subseteq Side
            BY <2>1
        <3>2. \A k \in 1..Len(es) :
                  \/ es[k].pieces = <<>>
                  \/ es[k].branch \in D /\ es[k].pieces = pending[es[k].branch]
            BY <1>3, <2>2
        <3>3. \A j, k \in 1..Len(es) : j < k /\ es[j].branch = es[k].branch =>
                  es[j].pieces = <<>> \/ es[k].pieces = <<>>
            BY <1>3, <2>2
        <3>4. QED
            BY <2>2, <2>4, <3>1, <3>2, <3>3, FlushFollows
    <2>6. QED
        BY <1>3, <2>2, <2>3, <2>5, WriteKeeps
<1>5. CASE Buffers!Project(b)
    <2>1. PICK es : es = <<e>>
        OBVIOUS
    <2>2. es \in Seq(LogEntry) /\ Len(es) = 1 /\ \A k \in 1..Len(es) : es[k] = e
        BY <1>3, <2>1
    <2>3. /\ Buffers!Write(es)
          /\ UNCHANGED <<live, pending, pieces, base, cursor, seen, lost>>
        BY <1>2, <1>5, <2>1 DEF Buffers!Project, Buffers!clientVars
    <2>4. /\ pieces' \in [Side -> Nat] /\ \A c \in Side : pieces[c] <= pieces'[c]
          /\ pending' \in [Side -> Seq(Nat)]
        BY <1>1, <2>3
    <2>5. PiecesFollow(es)
        <3>1. PICK D : D = {}
            OBVIOUS
        <3>2. D \subseteq Side
            BY <3>1
        <3>3. \A c \in Side : \A j \in DOMAIN pending'[c] :
                  \/ /\ c \notin D
                     /\ \E i \in DOMAIN pending[c] : pending'[c][j] = pending[c][i]
                  \/ pending'[c][j] = pieces[c] + 1 /\ pieces'[c] = pieces[c] + 1
            BY <2>3, <3>1
        <3>4. \A k \in 1..Len(es) : es[k].pieces = <<>>
            BY <1>3, <2>2
        <3>5. QED
            BY <2>2, <2>4, <3>2, <3>3, <3>4, FlushFollows
    <2>6. QED
        BY <1>3, <2>2, <2>3, <2>5, WriteKeeps
<1>6. QED
    BY <1>4, <1>5

\* What is due is flushed by a reader.
LEMMA DueIsFlushed ==
    ASSUME StreamInv, NEW D \in SUBSET Side, Buffers!FlushDue(D)
    PROVE  StreamInv'
<1>1. StreamTypes /\ pieces \in [Side -> Nat] /\ pending \in [Side -> Seq(Nat)]
    BY DEF StreamInv, StreamTypes
<1>2. PICK es : es = Buffers!Flushed(D)
    OBVIOUS
<1>3. /\ es \in Seq(LogEntry)
      /\ \A k \in 1..Len(es) :
            /\ es[k].branch \in D /\ es[k].buffer = "durable"
            /\ es[k].pieces = pending[es[k].branch]
      /\ \A j, k \in 1..Len(es) : j < k => es[j].branch # es[k].branch
    <2>1. D \subseteq Side
        OBVIOUS
    <2>2. FlushOf(es, D)
        BY <1>1, <1>2, <2>1, FlushedFacts
    <2>3. QED
        BY <2>2 DEF FlushOf
<1>4. /\ Buffers!Write(es)
      /\ pending' = [c \in Side |-> IF c \in D THEN <<>> ELSE pending[c]]
      /\ UNCHANGED <<live, pieces, base, cursor, seen, lost>>
    BY <1>2 DEF Buffers!FlushDue, Buffers!clientVars, Side
<1>5. /\ pieces' \in [Side -> Nat] /\ \A c \in Side : pieces[c] <= pieces'[c]
      /\ pending' \in [Side -> Seq(Nat)]
    BY <1>1, <1>4
<1>6. \A c \in Side : \A j \in DOMAIN pending'[c] :
          \/ /\ c \notin D
             /\ \E i \in DOMAIN pending[c] : pending'[c][j] = pending[c][i]
          \/ pending'[c][j] = pieces[c] + 1 /\ pieces'[c] = pieces[c] + 1
    BY <1>4
<1>7. PiecesFollow(es)
    <2>1. D \subseteq Side
        OBVIOUS
    <2>2. \A j, k \in 1..Len(es) : ~(j < k /\ es[j].branch = es[k].branch)
        BY <1>3
    <2>3. QED
        BY <1>3, <1>5, <1>6, <2>1, <2>2, FlushFollows
<1>8. QED
    BY <1>3, <1>4, <1>7, WriteKeeps

\* A piece of a reply arrives: it is appended at once, or joins what is pending.
LEMMA DeltaKeeps ==
    ASSUME StreamInv, NEW b \in Side, NEW D \in SUBSET Side, Buffers!AppendDelta(b, D)
    PROVE  StreamInv'
<1>1. StreamTypes /\ pieces \in [Side -> Nat] /\ pending \in [Side -> Seq(Nat)]
    BY DEF StreamInv, StreamTypes
<1>2. PICK piece \in Nat : piece = pieces[b] + 1
    BY <1>1
<1>3. PICK kept : kept = [c \in Side |-> IF c \in D THEN <<>> ELSE pending[c]]
    OBVIOUS
<1>4. PICK e : e = Buffers!Delta(b, <<piece>>)
    OBVIOUS
<1>5. /\ e \in LogEntry /\ e.branch = b /\ e.buffer = "durable" /\ e.pieces = <<piece>>
      /\ kept \in [Side -> Seq(Nat)] /\ D \subseteq Side
    BY <1>1, <1>3, <1>4 DEF Buffers!Delta, LogEntry
<1>6. /\ \/ /\ pending[b] = <<>> /\ b \notin D
            /\ Buffers!Write(Append(Buffers!Flushed(D), e)) /\ pending' = kept
         \/ /\ Buffers!Write(Buffers!Flushed(D))
            /\ pending' = [kept EXCEPT ![b] = Append(kept[b], piece)]
      /\ pieces' = [pieces EXCEPT ![b] = piece]
      /\ UNCHANGED <<live, base, cursor, seen, lost>>
    BY <1>2, <1>3, <1>4
    DEF Buffers!AppendDelta, Buffers!AtOnce, Buffers!clientVars, Side
<1>7. /\ pieces' \in [Side -> Nat] /\ pieces'[b] = pieces[b] + 1
      /\ \A c \in Side : pieces[c] <= pieces'[c]
    BY <1>1, <1>2, <1>6
<1>8. \A c \in Side : \A j \in DOMAIN kept[c] :
          /\ c \notin D
          /\ \E i \in DOMAIN pending[c] : kept[c][j] = pending[c][i]
    BY <1>3
<1>9. CASE /\ pending[b] = <<>> /\ b \notin D
           /\ Buffers!Write(Append(Buffers!Flushed(D), e)) /\ pending' = kept
    <2>1. PICK es : es = Append(Buffers!Flushed(D), e)
        OBVIOUS
    <2>2. FlushWith(es, D, e)
        BY <1>1, <1>5, <2>1, FlushedThen
    <2>3. es \in Seq(LogEntry) /\ \A k \in 1..Len(es) : es[k].buffer = "durable"
        BY <1>5, <2>2 DEF FlushWith
    <2>4. \A k \in 1..Len(es) :
              \/ es[k].pieces = <<>>
              \/ es[k].branch \in D /\ es[k].pieces = pending[es[k].branch]
              \/ /\ es[k].branch \notin D /\ pending'[es[k].branch] = <<>>
                 /\ es[k].pieces = <<pieces[es[k].branch] + 1>>
                 /\ pieces'[es[k].branch] = pieces[es[k].branch] + 1
        <3>1. pending'[b] = <<>> /\ e.pieces = <<pieces[b] + 1>>
            BY <1>2, <1>3, <1>5, <1>9
        <3>2. QED
            BY <1>5, <1>7, <1>9, <2>2, <3>1 DEF FlushWith
    <2>5. \A j, k \in 1..Len(es) : j < k /\ es[j].branch = es[k].branch =>
              es[j].pieces = <<>> \/ es[k].pieces = <<>>
        BY <1>5, <1>9, <2>2 DEF FlushWith
    <2>6. \A c \in Side : \A j \in DOMAIN pending'[c] :
              \/ /\ c \notin D
                 /\ \E i \in DOMAIN pending[c] : pending'[c][j] = pending[c][i]
              \/ pending'[c][j] = pieces[c] + 1 /\ pieces'[c] = pieces[c] + 1
        BY <1>8, <1>9
    <2>7. pending' \in [Side -> Seq(Nat)]
        BY <1>5, <1>9
    <2>8. PiecesFollow(es)
        BY <1>5, <1>7, <2>3, <2>4, <2>5, <2>6, <2>7, FlushFollows
    <2>9. QED
        BY <1>6, <1>9, <2>1, <2>3, <2>8, WriteKeeps
<1>10. CASE /\ Buffers!Write(Buffers!Flushed(D))
            /\ pending' = [kept EXCEPT ![b] = Append(kept[b], piece)]
    <2>1. PICK es : es = Buffers!Flushed(D)
        OBVIOUS
    <2>2. /\ es \in Seq(LogEntry)
          /\ \A k \in 1..Len(es) :
                /\ es[k].branch \in D /\ es[k].buffer = "durable"
                /\ es[k].pieces = pending[es[k].branch]
          /\ \A j, k \in 1..Len(es) : j < k => es[j].branch # es[k].branch
        <3>1. D \subseteq Side
            OBVIOUS
        <3>2. FlushOf(es, D)
            BY <1>1, <2>1, <3>1, FlushedFacts
        <3>3. QED
            BY <3>2 DEF FlushOf
    <2>3. \A j, k \in 1..Len(es) : ~(j < k /\ es[j].branch = es[k].branch)
        BY <2>2
    <2>4. pending' \in [Side -> Seq(Nat)]
        BY <1>5, <1>10, AppendProperties
    <2>5. \A c \in Side : \A j \in DOMAIN pending'[c] :
              \/ /\ c \notin D
                 /\ \E i \in DOMAIN pending[c] : pending'[c][j] = pending[c][i]
              \/ pending'[c][j] = pieces[c] + 1 /\ pieces'[c] = pieces[c] + 1
        <3>1. SUFFICES ASSUME NEW c \in Side, NEW j \in DOMAIN pending'[c]
                       PROVE  \/ /\ c \notin D
                                 /\ \E i \in DOMAIN pending[c] :
                                       pending'[c][j] = pending[c][i]
                              \/ /\ pending'[c][j] = pieces[c] + 1
                                 /\ pieces'[c] = pieces[c] + 1
            OBVIOUS
        <3>2. CASE c # b
            <4>1. pending'[c] = kept[c]
                BY <1>5, <1>10, <3>2
            <4>2. QED
                BY <1>8, <3>1, <4>1
        <3>3. CASE c = b
            <4>1. PICK q \in Seq(Nat) : q = kept[b]
                BY <1>5
            <4>2. pending'[b] = Append(q, piece)
                BY <1>5, <1>10, <4>1
            <4>3. /\ Len(q) \in Nat /\ DOMAIN q = 1..Len(q)
                  /\ DOMAIN pending'[b] = 1..Len(q) + 1
                  /\ \A i \in 1..Len(q) : pending'[b][i] = q[i]
                  /\ pending'[b][Len(q) + 1] = piece
                BY <4>2, AppendProperties, LenProperties
            <4>4. j \in 1..Len(q) \/ j = Len(q) + 1
                BY <3>1, <3>3, <4>3
            <4>5. CASE j \in 1..Len(q)
                <5>1. pending'[c][j] = kept[c][j] /\ j \in DOMAIN kept[c]
                    BY <3>3, <4>1, <4>3, <4>5
                <5>2. QED
                    BY <1>8, <3>1, <5>1
            <4>6. CASE j = Len(q) + 1
                BY <1>2, <1>7, <3>3, <4>3, <4>6
            <4>7. QED
                BY <4>4, <4>5, <4>6
        <3>4. QED
            BY <3>2, <3>3
    <2>6. PiecesFollow(es)
        <3>1. D \subseteq Side
            OBVIOUS
        <3>2. /\ pieces' \in [Side -> Nat]
              /\ \A c \in Side : pieces[c] <= pieces'[c]
            BY <1>5, <1>7
        <3>3. \A k \in 1..Len(es) :
                  \/ es[k].pieces = <<>>
                  \/ es[k].branch \in D /\ es[k].pieces = pending[es[k].branch]
            BY <2>2
        <3>4. QED
            BY <2>2, <2>3, <2>4, <2>5, <3>1, <3>2, <3>3, FlushFollows
    <2>7. QED
        BY <1>6, <1>10, <2>1, <2>2, <2>6, WriteKeeps
<1>11. QED
    BY <1>6, <1>9, <1>10

\* Appending to the second of two parts of the log.
LEMMA AppendAfter ==
    ASSUME NEW old \in Seq(LogEntry), NEW f \in Seq(LogEntry), NEW e \in LogEntry
    PROVE  Append(old \o f, e) = old \o Append(f, e)
<1>1. PICK g \in Seq(LogEntry) : g = <<e>>
    <2>1. <<e>> \in Seq(LogEntry)
        OBVIOUS
    <2>2. QED
        BY <2>1
<1>2. old \o f \in Seq(LogEntry)
    BY ConcatProperties
<1>3. Append(old \o f, e) = (old \o f) \o g
    BY <1>1, <1>2, AppendIsConcat
<1>4. Append(f, e) = f \o g
    BY <1>1, AppendIsConcat
<1>5. (old \o f) \o g = old \o (f \o g)
    BY ConcatAssociative
<1>6. QED
    BY <1>3, <1>4, <1>5

\* append_live_event: the live-only event gets the number after the flush.
LEMMA LiveKeeps ==
    ASSUME StreamInv, NEW b \in Side, Buffers!AppendLive(b)
    PROVE  StreamInv'
<1>1. /\ StreamTypes /\ pieces \in [Side -> Nat] /\ pending \in [Side -> Seq(Nat)]
      /\ log \in Seq(LogEntry)
    BY DEF StreamInv, StreamTypes
<1>2. PICK D, f : D = Side /\ f = Buffers!Flushed(D)
    OBVIOUS
<1>3. PICK e : e = [branch |-> b, buffer |-> "live", pieces |-> <<>>]
    OBVIOUS
<1>4. e \in LogEntry /\ e.branch = b /\ e.buffer = "live" /\ e.pieces = <<>>
    BY <1>3 DEF LogEntry
<1>5. D \subseteq Side
    BY <1>2
<1>6. PICK es : es = Append(f, e)
    OBVIOUS
<1>7. FlushWith(es, D, e)
    BY <1>1, <1>2, <1>4, <1>5, <1>6, FlushedThen
<1>8. f \in Seq(LogEntry)
    BY <1>1, <1>2, <1>5, FlushedFacts DEF FlushOf
<1>9. PICK a, n \in Nat : a = Len(log) /\ n = Len(f)
    BY <1>1, <1>8, LenProperties
<1>10. es \in Seq(LogEntry) /\ Len(es) = n + 1 /\ es[n + 1] = e
    BY <1>4, <1>6, <1>8, <1>9, AppendProperties
<1>11. /\ a + n + 1 <= MaxLog
       /\ log' = Append(log \o f, e)
       /\ durable' \in Buffers!Prunings(durable \cup (a + 1..a + n), big')
       /\ live' \in Buffers!Prunings(live \cup {a + n + 1}, big')
       /\ Buffers!Sized((a + 1..a + n) \cup {a + n + 1})
       /\ pending' = [c \in Side |-> <<>>]
       /\ UNCHANGED <<pieces, base, cursor, seen, lost>>
    BY <1>2, <1>3, <1>9
    DEF Buffers!AppendLive, Buffers!Numbers, Buffers!clientVars, Side
<1>12. log' = log \o es
    <2>1. PICK old \in Seq(LogEntry) : old = log
        BY <1>1
    <2>2. e \in LogEntry
        BY <1>4
    <2>3. Append(old \o f, e) = old \o Append(f, e)
        BY <1>8, <2>2, AppendAfter
    <2>4. QED
        BY <1>6, <1>11, <2>1, <2>3
<1>13. /\ LogGrowth /\ Len(log') = a + n + 1
       /\ \A k \in a + 1..a + n + 1 : k - a \in 1..n + 1 /\ log'[k] = es[k - a]
    <2>1. Len(log) + Len(es) <= MaxLog
        BY <1>9, <1>10, <1>11
    <2>2. /\ LogGrowth /\ Len(log') = Len(log) + Len(es)
          /\ \A k \in Len(log) + 1..Len(log') :
                k - Len(log) \in 1..Len(es) /\ log'[k] = es[k - Len(log)]
        BY <1>1, <1>10, <1>12, <2>1, LogGrowsBy
    <2>3. QED
        BY <1>9, <1>10, <2>2
<1>14. /\ \A k \in a + 1..a + n : log'[k].buffer = "durable"
       /\ log'[a + n + 1].buffer = "live"
    <2>1. \A k \in 1..n : es[k].buffer = "durable"
        BY <1>7, <1>10 DEF FlushWith
    <2>2. \A k \in a + 1..a + n : k \in a + 1..a + n + 1 /\ k - a \in 1..n
        OBVIOUS
    <2>3. a + n + 1 \in a + 1..a + n + 1 /\ (a + n + 1) - a = n + 1
        OBVIOUS
    <2>4. QED
        BY <1>4, <1>10, <1>13, <2>1, <2>2, <2>3
<1>15. NewOf("durable") = a + 1..a + n /\ NewOf("live") = {a + n + 1}
    <2>1. \A k \in a + 1..a + n + 1 : k \in a + 1..a + n \/ k = a + n + 1
        OBVIOUS
    <2>2. \A k \in a + 1..a + n : k \in a + 1..a + n + 1 /\ k # a + n + 1
        OBVIOUS
    <2>3. a + n + 1 \in a + 1..a + n + 1
        OBVIOUS
    <2>4. QED
        BY <1>9, <1>13, <1>14, <2>1, <2>2, <2>3 DEF NewOf
<1>16. PiecesFollow(es)
    <2>1. /\ pieces' \in [Side -> Nat] /\ \A c \in Side : pieces[c] <= pieces'[c]
          /\ pending' \in [Side -> Seq(Nat)]
          /\ \A c \in Side : DOMAIN pending'[c] = {}
        BY <1>1, <1>11
    <2>2. \A k \in 1..Len(es) :
              \/ es[k].pieces = <<>>
              \/ es[k].branch \in D /\ es[k].pieces = pending[es[k].branch]
        BY <1>4, <1>7 DEF FlushWith
    <2>3. \A j, k \in 1..Len(es) : j < k /\ es[j].branch = es[k].branch =>
              es[j].pieces = <<>> \/ es[k].pieces = <<>>
        BY <1>4, <1>7 DEF FlushWith
    <2>4. QED
        BY <1>5, <1>10, <2>1, <2>2, <2>3, FlushFollows
<1>17. Len(log) + Len(es) <= MaxLog
    BY <1>9, <1>10, <1>11
<1>18. BigGrowth
    <2>1. (a + 1..a + n) \cup {a + n + 1} \subseteq 1..Len(log')
        BY <1>13
    <2>2. QED
        BY <1>1, <1>11, <1>13, <2>1, SizedGrows
<1>19. QED
    BY <1>10, <1>11, <1>12, <1>15, <1>16, <1>17, <1>18, StreamGrows

\* The greatest and the least of some numbers.
LEMMA MaxOf ==
    ASSUME NEW n \in Nat, NEW S, S \subseteq 0..n, S # {}, NEW g, g = Buffers!Max(S)
    PROVE  g \in S /\ \A x \in S : x <= g
<1>1. \E x \in S : \A y \in S : x >= y
    BY GreatestNumber
<1>2. g = CHOOSE x \in S : \A y \in S : x >= y
    BY DEF Buffers!Max
<1>3. g \in S /\ \A y \in S : g >= y
    BY <1>1, <1>2
<1>4. g \in Nat /\ \A y \in S : y \in Nat
    BY <1>3
<1>5. QED
    BY <1>3, <1>4

LEMMA MinOf ==
    ASSUME NEW S, S \subseteq Nat, S # {}, NEW l, l = Buffers!Min(S)
    PROVE  l \in S /\ \A x \in S : l <= x
<1>1. \E x \in S : \A y \in S : x <= y
    BY LeastNumber
<1>2. l = CHOOSE x \in S : \A y \in S : x <= y
    BY DEF Buffers!Min
<1>3. QED
    BY <1>1, <1>2

\* The notice of a buffer covers what it dropped after the client's cursor.
LEMMA NoticeCovers ==
    ASSUME StreamTypes, NEW kind, NEW buffer, Held(log, buffer, kind, big), NEW after \in Nat,
           NEW notice, notice = Buffers!Notice(buffer, Buffers!Made(kind), after)
    PROVE  /\ notice \in 0..Len(log)
           /\ \A d \in 1..Len(log) : \A m \in Nat :
                 log[d].buffer = kind /\ d \notin buffer /\ m <= d /\ after < m =>
                     m <= notice \/ BigAfter(log, big, kind, d)
<1>1. PICK len \in Nat : len = Len(log) /\ DOMAIN log = 1..len
    BY LenProperties DEF StreamTypes
<1>2. buffer \subseteq 1..len
    BY <1>1 DEF Held
<1>3. PICK l : l = Buffers!Min(buffer)
    OBVIOUS
<1>4. buffer # {} => l \in buffer /\ l \in Nat /\ l >= 1 /\ l <= len
    <2>1. buffer \subseteq Nat
        BY <1>2
    <2>2. buffer # {} => l \in buffer
        BY <1>3, <2>1, MinOf
    <2>3. \A x \in buffer : x \in Nat /\ x >= 1 /\ x <= len
        BY <1>2
    <2>4. QED
        BY <2>2, <2>3
<1>5. notice = IF buffer # {} /\ buffer # Buffers!Made(kind) /\ after < l - 1
               THEN l - 1 ELSE 0
    BY <1>3 DEF Buffers!Notice
<1>6. notice \in 0..len
    BY <1>4, <1>5
<1>7. ASSUME NEW d \in 1..len, NEW m \in Nat, log[d].buffer = kind, d \notin buffer,
             m <= d, after < m
      PROVE  m <= notice \/ BigAfter(log, big, kind, d)
    <2>1. /\ \A h \in buffer : d < h
          /\ buffer # {} \/ BigAfter(log, big, kind, d)
        BY <1>1, <1>7 DEF Held
    <2> SUFFICES ASSUME buffer # {}
                 PROVE  m <= notice
        BY <2>1
    <2>2. buffer # Buffers!Made(kind)
        BY <1>1, <1>7 DEF Buffers!Made
    <2>3. d < l
        BY <1>4, <2>1
    <2>4. after < l - 1 /\ m <= l - 1
        BY <1>4, <1>7, <2>1, <2>3
    <2>5. QED
        BY <1>5, <2>1, <2>2, <2>4
<1>8. QED
    BY <1>1, <1>6, <1>7

LEMMA ForkKeeps ==
    ASSUME StreamInv, Buffers!Fork
    PROVE  StreamInv'
<1>1. /\ base = MaxLog + 1 /\ base' \in {0} \cup durable
      /\ UNCHANGED <<log, big, durable, live, pending, pieces, cursor, seen, lost>>
    BY DEF Buffers!Fork, Buffers!Forked, Buffers!NoBase, Buffers!clientVars
<1>2. /\ log \in Seq(LogEntry) /\ Len(log) \in Nat /\ Len(log) <= MaxLog
      /\ MaxLog \in Nat /\ cursor \in [Clients -> Nat]
    BY StreamConstants, LenProperties DEF StreamInv, StreamTypes
<1>3. \A n \in durable : n \in 1..Len(log) /\ log[n].buffer = "durable"
    BY DEF StreamInv, HeldFacts, Held
<1>4. base' \in 0..Len(log) /\ base' # MaxLog + 1 /\ base' \in 0..MaxLog + 1
    BY <1>1, <1>2, <1>3
<1>5. StreamTypes'
    BY <1>1, <1>4 DEF StreamInv, StreamTypes
<1>6. HeldFacts'
    BY <1>1 DEF StreamInv, HeldFacts, Held, BigAfter
<1>7. ForkFacts'
    BY <1>1, <1>3 DEF ForkFacts
<1>8. ClientFacts'
    <2>1. ASSUME NEW c \in Clients, BranchOf[c] # "child"
          PROVE  /\ \A n : Meant(c, n)' <=> Meant(c, n)
                 /\ \A n : Meant(c, n) /\ Gone(c, n) => Gone(c, n)'
        BY <1>1, <2>1 DEF Meant, Gone, BigAfter
    <2>2. ASSUME NEW c \in Clients, BranchOf[c] = "child"
          PROVE  cursor[c] = 0 /\ seen[c] = {}
        BY <1>1, <2>2 DEF StreamInv, ClientFacts
    <2>3. SUFFICES ASSUME NEW c \in Clients
                   PROVE  /\ \A n \in seen'[c] : n \in 1..Len(log) /\ Meant(c, n)'
                          /\ \A n \in 1..Len(log) : Meant(c, n)' /\ n <= cursor[c] =>
                                n \in seen[c] \/ n <= lost[c] \/ Gone(c, n)'
        BY <1>1, <1>4 DEF StreamInv, ClientFacts
    <2>4. CASE BranchOf[c] = "child"
        <3>1. \A n \in 1..Len(log) : ~(n <= cursor[c])
            BY <1>2, <2>2, <2>4
        <3>2. QED
            BY <1>1, <2>2, <2>4, <3>1
    <2>5. CASE BranchOf[c] # "child"
        BY <1>1, <2>1, <2>5 DEF StreamInv, ClientFacts
    <2>6. QED
        BY <2>4, <2>5
<1>9. PieceFacts'
    BY <1>1 DEF StreamInv, PieceFacts, PieceAfter
<1>10. QED
    BY <1>5, <1>6, <1>7, <1>8, <1>9 DEF StreamInv

\* wait_events gives what is visible, and a notice of what was dropped: the cursor
\* goes to the newest number, over what it was not given.
LEMMA ReadKeeps ==
    ASSUME StreamInv, NEW c \in Clients, Buffers!Read(c)
    PROVE  StreamInv'
<1>1. PICK len \in Nat : len = Len(log) /\ DOMAIN log = 1..len
    BY LenProperties DEF StreamInv, StreamTypes
<1>2. PICK a \in Nat : a = cursor[c]
    BY DEF StreamInv, StreamTypes
<1>3. PICK nd, nl : /\ nd = Buffers!Notice(durable, Buffers!Made("durable"), a)
                    /\ nl = Buffers!Notice(live, Buffers!Made("live"), a)
    OBVIOUS
<1>4. /\ nd \in 0..len
      /\ \A d \in 1..len : \A m \in Nat :
            log[d].buffer = "durable" /\ d \notin durable /\ m <= d /\ a < m =>
                m <= nd \/ BigAfter(log, big, "durable", d)
    BY <1>1, <1>3, NoticeCovers DEF StreamInv, HeldFacts
<1>5. /\ nl \in 0..len
      /\ \A d \in 1..len : \A m \in Nat :
            log[d].buffer = "live" /\ d \notin live /\ m <= d /\ a < m =>
                m <= nl \/ BigAfter(log, big, "live", d)
    BY <1>1, <1>3, NoticeCovers DEF StreamInv, HeldFacts
<1>6. PICK new, given : /\ new = {n \in durable \cup live : n > a}
                        /\ given = {n \in new : Buffers!Visible(n, BranchOf[c])}
    OBVIOUS
<1>7. PICK g : g = Buffers!Max({nd, nl})
    OBVIOUS
<1>8. g \in 0..len /\ nd <= g /\ nl <= g
    <2>1. {nd, nl} \subseteq 0..len /\ {nd, nl} # {}
        BY <1>4, <1>5
    <2>2. g \in {nd, nl} /\ \A x \in {nd, nl} : x <= g
        BY <1>7, <2>1, MaxOf
    <2>3. QED
        BY <2>1, <2>2
<1>9. /\ durable \cup live \subseteq 1..len
      /\ a <= len /\ lost[c] \in Nat /\ lost[c] <= a
    BY <1>1, <1>2 DEF StreamInv, StreamTypes, HeldFacts, Held, ClientFacts
<1>10. PICK z : z = Buffers!NextCursor(c, given \cup {g})
    OBVIOUS
<1>11. z \in 0..len /\ a <= z
    <2>1. PICK R : R = {cursor[c]} \cup (given \cup {g}) \cup durable \cup live
        OBVIOUS
    <2>2. R \subseteq 0..len /\ a \in R
        BY <1>2, <1>6, <1>8, <1>9, <2>1
    <2>3. z = Buffers!Max(R)
        BY <1>10, <2>1 DEF Buffers!NextCursor
    <2>4. z \in R /\ \A x \in R : x <= z
        BY <2>2, <2>3, MaxOf
    <2>5. QED
        BY <2>2, <2>4
<1>12. g <= z
    <2>1. PICK R : R = {cursor[c]} \cup (given \cup {g}) \cup durable \cup live
        OBVIOUS
    <2>2. R \subseteq 0..len /\ g \in R
        BY <1>2, <1>6, <1>8, <1>9, <2>1
    <2>3. z = Buffers!Max(R)
        BY <1>10, <2>1 DEF Buffers!NextCursor
    <2>4. QED
        BY <2>2, <2>3, MaxOf
<1>13. PICK s : s = Buffers!Max({lost[c], g})
    OBVIOUS
<1>14. s \in Nat /\ lost[c] <= s /\ g <= s /\ s <= z
    <2>1. {lost[c], g} \subseteq 0..len /\ {lost[c], g} # {}
        BY <1>8, <1>9
    <2>2. s \in {lost[c], g} /\ \A x \in {lost[c], g} : x <= s
        BY <1>13, <2>1, MaxOf
    <2>3. lost[c] <= z
        BY <1>9, <1>11
    <2>4. QED
        BY <1>8, <1>9, <1>12, <2>2, <2>3
<1>15. /\ Buffers!Open(BranchOf[c])
       /\ seen' = [seen EXCEPT ![c] = seen[c] \cup given]
       /\ lost' = [lost EXCEPT ![c] = s]
       /\ cursor' = [cursor EXCEPT ![c] = z]
       /\ UNCHANGED <<log, big, durable, live, pending, pieces, base>>
    BY <1>2, <1>3, <1>6, <1>7, <1>10, <1>13 DEF Buffers!Read
<1>16. /\ cursor \in [Clients -> Nat] /\ lost \in [Clients -> Nat]
       /\ seen \in [Clients -> SUBSET Nat]
    BY DEF StreamInv, StreamTypes
<1>17. /\ seen'[c] = seen[c] \cup given /\ lost'[c] = s /\ cursor'[c] = z
       /\ \A d \in Clients \ {c} :
             seen'[d] = seen[d] /\ lost'[d] = lost[d] /\ cursor'[d] = cursor[d]
    BY <1>15, <1>16
<1>18. StreamTypes'
    <2>1. given \in SUBSET Nat /\ seen[c] \in SUBSET Nat /\ z \in Nat
        BY <1>6, <1>9, <1>11, <1>16
    <2>2. seen' \in [Clients -> SUBSET Nat]
        BY <1>15, <1>16, <2>1
    <2>3. lost' \in [Clients -> Nat] /\ cursor' \in [Clients -> Nat]
        BY <1>14, <1>15, <1>16, <2>1
    <2>4. QED
        BY <1>15, <2>2, <2>3 DEF StreamInv, StreamTypes
<1>19. HeldFacts' /\ ForkFacts' /\ PieceFacts'
    BY <1>15
    DEF StreamInv, HeldFacts, Held, BigAfter, ForkFacts, PieceFacts, PieceAfter
<1>20. \A d, n : (Meant(d, n)' <=> Meant(d, n)) /\ (Gone(d, n)' <=> Gone(d, n))
    BY <1>15 DEF Meant, Gone, BigAfter
<1>21. ASSUME NEW n \in given
       PROVE  n \in 1..len /\ Meant(c, n)
    <2>1. n \in 1..len /\ Buffers!Visible(n, BranchOf[c])
        BY <1>6, <1>9, <1>21
    <2>2. Buffers!Limit \in {0, base}
        BY DEF Buffers!Limit
    <2>3. n <= Buffers!Limit => n <= base
        BY <2>1, <2>2
    <2>4. QED
        BY <2>1, <2>3 DEF Buffers!Visible, Meant
<1>22. ASSUME NEW n \in 1..len, Meant(c, n), a < n
       PROVE  n \in given \/ n <= g \/ Gone(c, n)
    <2>1. nd \in Nat /\ nl \in Nat /\ g \in Nat
        BY <1>4, <1>5, <1>8
    <2>2. CASE n \in durable \cup live /\ Buffers!Visible(n, BranchOf[c])
        BY <1>6, <1>22, <2>2
    <2>3. CASE n \in durable \cup live /\ ~Buffers!Visible(n, BranchOf[c])
        <3>1. /\ BranchOf[c] = "child" /\ n <= base /\ Buffers!Limit # base
              /\ log[n].branch # BranchOf[c]
            BY <1>22, <2>3 DEF Meant, Buffers!Visible
        <3>2. base # MaxLog + 1 /\ base \notin durable
            BY <1>15, <3>1
            DEF Buffers!Open, Buffers!Forked, Buffers!NoBase, Buffers!Limit
        <3>3. base \in Nat /\ base # 0
            BY <1>22, <3>1, StreamConstants DEF StreamInv, StreamTypes
        <3>4. base \in 1..len /\ log[base].buffer = "durable"
            BY <1>1, <3>2, <3>3 DEF StreamInv, ForkFacts
        <3>5. n <= nd \/ BigAfter(log, big, "durable", base)
            BY <1>4, <1>22, <3>1, <3>2, <3>4
        <3>6. QED
            BY <1>8, <2>1, <3>1, <3>5 DEF Gone
    <2>4. CASE n \notin durable \cup live
        <3>1. log[n].buffer \in {"durable", "live"}
            <4>1. log[n] \in LogEntry
                BY <1>1, <1>22, ElementOfSeq DEF StreamInv, StreamTypes
            <4>2. QED
                BY <4>1 DEF LogEntry
        <3>2. n <= nd \/ n <= nl \/ BigAfter(log, big, log[n].buffer, n)
            BY <1>4, <1>5, <1>22, <2>4, <3>1
        <3>3. QED
            BY <1>8, <2>1, <3>2 DEF Gone
    <2>5. QED
        BY <2>2, <2>3, <2>4
<1>23. ClientFacts'
    <2>1. SUFFICES ASSUME NEW d \in Clients
                   PROVE  /\ cursor'[d] <= len /\ lost'[d] <= cursor'[d]
                          /\ BranchOf[d] = "child" /\ base = MaxLog + 1 =>
                                cursor'[d] = 0 /\ seen'[d] = {}
                          /\ \A n \in seen'[d] : n \in 1..len /\ Meant(d, n)
                          /\ \A n \in 1..len :
                                Meant(d, n) /\ n <= cursor'[d] =>
                                    n \in seen'[d] \/ n <= lost'[d] \/ Gone(d, n)
        BY <1>1, <1>15, <1>20 DEF ClientFacts
    <2>2. CASE d # c
        BY <1>1, <1>17, <2>2 DEF StreamInv, ClientFacts
    <2>3. CASE d = c
        <3>1. /\ \A n \in seen[c] : n \in 1..len /\ Meant(c, n)
              /\ \A n \in 1..len : Meant(c, n) /\ n <= a =>
                    n \in seen[c] \/ n <= lost[c] \/ Gone(c, n)
            BY <1>1, <1>2 DEF StreamInv, ClientFacts
        <3>2. ~(BranchOf[c] = "child" /\ base = MaxLog + 1)
            BY <1>15 DEF Buffers!Open, Buffers!Forked, Buffers!NoBase
        <3>3. \A n \in seen[c] \cup given : n \in 1..len /\ Meant(c, n)
            BY <1>21, <3>1
        <3>4. ASSUME NEW n \in 1..len, Meant(c, n)
              PROVE  n \in seen[c] \cup given \/ n <= s \/ Gone(c, n)
            <4>1. CASE n <= a
                BY <1>9, <1>14, <3>1, <3>4, <4>1
            <4>2. CASE a < n
                BY <1>8, <1>14, <1>22, <3>4, <4>2
            <4>3. QED
                BY <1>2, <4>1, <4>2
        <3>5. z <= len
            BY <1>11
        <3>6. QED
            BY <1>14, <1>17, <2>3, <3>2, <3>3, <3>4, <3>5
    <2>4. QED
        BY <2>2, <2>3
<1>24. QED
    BY <1>18, <1>19, <1>23 DEF StreamInv

\* Every operation of the event stream keeps its invariant.
LEMMA StreamNext ==
    ASSUME StreamInv, Buffers!Next
    PROVE  StreamInv'
<1>1. ASSUME NEW b \in Side,
             Buffers!AppendEvent(b) \/ Buffers!Project(b) \/ Buffers!AppendLive(b)
      PROVE  StreamInv'
    BY <1>1, EventsAreAppended, LiveKeeps
<1>2. ASSUME NEW b \in Side, NEW D \in SUBSET Side, Buffers!AppendDelta(b, D)
      PROVE  StreamInv'
    BY <1>2, DeltaKeeps
<1>3. Buffers!Due \subseteq SUBSET Side
    BY DEF Buffers!Due, Side
<1>4. CASE \E b \in Buffers!Branch :
              Buffers!AppendEvent(b) \/ Buffers!Project(b) \/ Buffers!AppendLive(b)
    BY <1>1, <1>4 DEF Side
<1>5. CASE \E b \in Buffers!Branch, D \in Buffers!Due :
              pieces[b] < MaxPieces /\ Buffers!AppendDelta(b, D)
    BY <1>2, <1>3, <1>5 DEF Side
<1>6. CASE \E D \in Buffers!Due : Buffers!FlushDue(D)
    BY <1>3, <1>6, DueIsFlushed
<1>7. CASE Buffers!Fork
    BY <1>7, ForkKeeps
<1>8. CASE \E c \in Clients : Buffers!Read(c)
    BY <1>8, ReadKeeps
<1>9. QED
    BY <1>4, <1>5, <1>6, <1>7, <1>8 DEF Buffers!Next

\* What the invariant says of the properties.
LEMMA StreamKeeps ==
    ASSUME StreamInv
    PROVE  /\ Buffers!TypeOK /\ Buffers!LossIsAnnounced
           /\ Buffers!BranchesStayApart /\ Buffers!PiecesInOrder
<1>1. PICK len \in Nat : len = Len(log) /\ DOMAIN log = 1..len /\ len <= MaxLog
    BY LenProperties DEF StreamInv, StreamTypes
<1>2. \A n \in 1..len : log[n] \in LogEntry
    BY <1>1, ElementOfSeq DEF StreamInv, StreamTypes
<1>3. \A c \in Clients : \A n : n \in Buffers!MeantFor(c) <=> n \in 1..len /\ Meant(c, n)
    BY <1>1 DEF Buffers!MeantFor, Meant
<1>4. Buffers!TypeOK
    <2>1. \A n \in 1..len :
              log[n].branch \in Side /\ log[n].buffer \in {"durable", "live"}
        BY <1>2 DEF LogEntry
    <2>2. durable \cup live \cup big \subseteq 1..len /\ durable \cap live = {}
        BY <1>1 DEF StreamInv, StreamTypes, HeldFacts, Held
    <2>3. /\ Buffers!Cardinality(durable) <= MaxEvents
          /\ Buffers!Cardinality(live) <= MaxEvents
        BY StreamCardinality DEF StreamInv, HeldFacts, Held
    <2>4. base \in 0..MaxLog + 1
        BY DEF StreamInv, StreamTypes
    <2>5. ASSUME NEW c \in Clients
          PROVE  cursor[c] \in 0..MaxLog /\ lost[c] <= cursor[c]
        <3>1. cursor[c] \in Nat /\ cursor[c] <= len /\ lost[c] <= cursor[c]
            BY <1>1 DEF StreamInv, StreamTypes, ClientFacts
        <3>2. QED
            BY <1>1, <3>1, StreamConstants
    <2>6. \A b \in Side : \A i \in DOMAIN pending[b] : pending[b][i] \in 1..pieces[b]
        BY DEF StreamInv, PieceFacts
    <2>7. QED
        BY <1>1, <2>1, <2>2, <2>3, <2>4, <2>5, <2>6
        DEF Buffers!TypeOK, Side, Buffers!NoBase
<1>5. Buffers!LossIsAnnounced
    <2>1. SUFFICES ASSUME NEW c \in Clients, NEW n \in Buffers!MeantFor(c),
                          n <= cursor[c]
                   PROVE  n \in seen[c] \/ n <= lost[c] \/ Buffers!Hidden(c, n)
        BY DEF Buffers!LossIsAnnounced
    <2>2. n \in 1..len /\ Meant(c, n)
        BY <1>3, <2>1
    <2>3. n \in seen[c] \/ n <= lost[c] \/ Gone(c, n)
        BY <1>1, <2>1, <2>2 DEF StreamInv, ClientFacts
    <2>4. ASSUME log[n].branch # BranchOf[c]
          PROVE  log[base].buffer = "durable"
        <3>1. BranchOf[c] = "child" /\ n <= base
            BY <2>2, <2>4 DEF Meant
        <3>2. base # MaxLog + 1
            BY <2>1, <2>2, <3>1 DEF StreamInv, ClientFacts
        <3>3. base # 0
            BY <2>2, <3>1
        <3>4. QED
            BY <3>2, <3>3 DEF StreamInv, ForkFacts
    <2>5. Gone(c, n) => Buffers!Hidden(c, n)
        BY <2>4 DEF Gone, BigAfter, Buffers!Hidden, Buffers!Emptied
    <2>6. QED
        BY <2>3, <2>5
<1>6. Buffers!BranchesStayApart
    BY <1>1, <1>3 DEF StreamInv, ClientFacts, Buffers!BranchesStayApart
<1>7. Buffers!PiecesInOrder
    BY <1>1 DEF StreamInv, PieceFacts, Buffers!PiecesInOrder
<1>8. QED
    BY <1>4, <1>5, <1>6, <1>7
-----------------------------------------------------------------------------
(* The composition.                                                        *)

SessionsInv == StartInv /\ TerminalInv /\ StreamInv /\ InputInv /\ BranchInv

\* Every part begins with its invariant.
LEMMA SessionsInit ==
    ASSUME Init
    PROVE  SessionsInv
BY StartInit, TerminalInit, StreamInit, InputsInit, BranchInit DEF Init, SessionsInv

\* A step is one of one part, and the others stay.
LEMMA SessionsNext ==
    ASSUME SessionsInv, [Next]_vars
    PROVE  SessionsInv'
<1>1. StartInv'
    <2>1. CASE Start!Next
        BY <2>1, StartNext DEF SessionsInv
    <2>2. CASE UNCHANGED startVars
        BY <2>2, StartStays DEF SessionsInv
    <2>3. QED
        BY <2>1, <2>2
        DEF Next, vars, StartStep, TerminalStep, EventsStep, InputsStep, BranchStep
<1>2. TerminalInv'
    <2>1. CASE Terminal!Next
        BY <2>1, TerminalNext DEF SessionsInv
    <2>2. CASE UNCHANGED terminalVars
        BY <2>2, TerminalStays DEF SessionsInv
    <2>3. QED
        BY <2>1, <2>2
        DEF Next, vars, StartStep, TerminalStep, EventsStep, InputsStep, BranchStep
<1>3. StreamInv'
    <2>1. CASE Buffers!Next
        BY <2>1, StreamNext DEF SessionsInv
    <2>2. CASE UNCHANGED eventsVars
        BY <2>2, StreamStays DEF SessionsInv
    <2>3. QED
        BY <2>1, <2>2
        DEF Next, vars, StartStep, TerminalStep, EventsStep, InputsStep, BranchStep
<1>4. InputInv'
    <2>1. CASE Inputs!Next
        BY <2>1, InputsNext DEF SessionsInv
    <2>2. CASE UNCHANGED inputsVars
        BY <2>2, InputsStay DEF SessionsInv
    <2>3. QED
        BY <2>1, <2>2
        DEF Next, vars, StartStep, TerminalStep, EventsStep, InputsStep, BranchStep
<1>5. BranchInv'
    <2>1. CASE Branching!Next
        BY <2>1, BranchNext DEF SessionsInv
    <2>2. CASE UNCHANGED branchVars
        BY <2>2, BranchStays DEF SessionsInv
    <2>3. QED
        BY <2>1, <2>2
        DEF Next, vars, StartStep, TerminalStep, EventsStep, InputsStep, BranchStep
<1>6. QED
    BY <1>1, <1>2, <1>3, <1>4, <1>5 DEF SessionsInv

\* The invariant of the parts holds in every behaviour.
THEOREM SessionsAlways == Spec => []SessionsInv
<1>1. Init => SessionsInv
    BY SessionsInit
<1>2. SessionsInv /\ [Next]_vars => SessionsInv'
    BY SessionsNext
<1>3. QED
    BY <1>1, <1>2, PTL DEF Spec

\* What a SessionRun and the service keep of its starts, ends, events, questions and
\* branches has the form the code gives it, for any number of them.
THEOREM SessionsAreTyped == Spec => []TypeOK
<1>1. SessionsInv => TypeOK
    BY StartKeeps, TerminalKeeps, StreamKeeps, InputsKeep, BranchKeeps
    DEF SessionsInv, TypeOK
<1>2. QED
    BY <1>1, SessionsAlways, PTL

\* A start request is answered only with a SessionRun made for it; one whose
\* repetitions do not overlap, and whose projection was neither collected nor lost,
\* starts at most one: for any number of requests, handlers and restarts.
THEOREM StartsAreNotRepeated == Spec => []RepeatedStartsOnce
<1>1. SessionsInv => RepeatedStartsOnce
    BY StartKeeps DEF SessionsInv, RepeatedStartsOnce
<1>2. QED
    BY <1>1, SessionsAlways, PTL

\* An event of the AgentRun's log is projected at most once and in its order, and an
\* activation is not shown to have ended by itself again while its end is in the
\* buffer, however many clients poll with ranges of the log they listed before.
THEOREM EndsAreShownOnce == Spec => []ShownOnceInOrder
<1>1. SessionsInv => ShownOnceInOrder
    BY TerminalKeeps DEF SessionsInv, ShownOnceInOrder
<1>2. QED
    BY <1>1, SessionsAlways, PTL

\* A client of wait_events was given every event of its branch up to its cursor, or
\* told of a loss that covers it, unless an event above the bound of bytes emptied
\* the buffer of that event or of its branch's base; it is given none of another
\* branch, and the pieces of a reply in their order: for buffers of any bound and any
\* number of clients.
THEOREM NoSilentLoss == Spec => []LossIsAnnounced
<1>1. SessionsInv => LossIsAnnounced
    BY StreamKeeps DEF SessionsInv, LossIsAnnounced
<1>2. QED
    BY <1>1, SessionsAlways, PTL

\* Who was told that the reply resolved the question gave the answer that its waiter
\* took, a repeated reply is confirmed, and what is shown of the question is true: for
\* any number of windows and inputs, with timeouts and cancels at any time.
THEOREM ToldAnswerIsTaken == Spec => []ToldIsTrue
<1>1. SessionsInv => ToldIsTrue
    BY InputsKeep DEF SessionsInv, ToldIsTrue
<1>2. QED
    BY <1>1, SessionsAlways, PTL

\* The binding of a failed run is closed, or a request that holds a copy taken before
\* the failure will close it before it answers; and some binding stays selected.
THEOREM FailedBranchIsClosed == Spec => []FailedIsClosed
<1>1. SessionsInv => FailedIsClosed
    BY BranchKeeps DEF SessionsInv, FailedIsClosed
<1>2. QED
    BY <1>1, SessionsAlways, PTL
=============================================================================
