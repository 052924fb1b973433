---------------------------- MODULE EnginesProofs ---------------------------
(***************************************************************************)
(* What is proved of AutomationRuns and Verification: that the runners in  *)
(* memory are those of the rows, that a run walks one way through its      *)
(* graph, and what the verdict on an address rests on.                     *)
(***************************************************************************)
EXTENDS AutomationRuns, Verification, FiniteSetTheorems, TLAPS

-----------------------------------------------------------------------------
(* AutomationRuns *)

AutoRows == [status : {"draft", "active", "paused", "deleted"}, def : Definitions]
Says(a) == IF autos[a].status = "active" THEN autos[a].def ELSE None

\* What a request that has written its row still has to do to the engine.
RequestSound(h) ==
    \/ reqs[h] = Idle
    \/ /\ reqs[h] \in RequestState
       /\ reqs[h].pc = "register" =>
            autos[reqs[h].auto].status = "active" /\ reqs[h].def = autos[reqs[h].auto].def
       /\ reqs[h].pc = "unregister" =>
            (reqs[h].then = "register" <=> autos[reqs[h].auto].status = "active")
       /\ reqs[h].pc = "delete" => runners[reqs[h].auto] = None

EngineInv ==
    /\ autos \in [Automations -> AutoRows]
    /\ runners \in [Automations -> Definitions \cup {None}]
    /\ reqs \in [Handlers -> RequestState \cup {Idle}]
    /\ \A h \in Handlers : RequestSound(h)
    /\ RunnersMatchRows

engineVars == <<autos, runners, reqs>>

LEMMA RequestFacts ==
    ASSUME EngineInv, NEW h \in Handlers
    PROVE  /\ reqs[h].pc = "register" =>
                reqs[h].auto \in Automations /\ reqs[h].def \in Definitions
           /\ reqs[h].pc = "unregister" =>
                reqs[h].auto \in Automations /\ reqs[h].then \in {"idle", "register"}
           /\ reqs[h].pc = "delete" => reqs[h].auto \in Automations
           /\ reqs[h].pc \in {"register", "unregister", "delete"} => reqs[h] # Idle
BY DEF EngineInv, RequestState, Idle

\* A request that begins when no other is under way finds engine and rows in agreement.
LEMMA QuietAgrees ==
    ASSUME EngineInv, \A g, h \in Handlers : g = h, NEW h \in Handlers, reqs[h] = Idle
    PROVE  \A a \in Automations : runners[a] = Says(a)
BY DEF EngineInv, RunnersMatchRows, Says

LEMMA EngineInvStep ==
    ASSUME EngineInv, [Next]_vars, \A g, h \in Handlers : g = h
    PROVE  EngineInv'
<1>1. CASE UNCHANGED engineVars
  BY <1>1 DEF engineVars, EngineInv, RequestSound, RunnersMatchRows
<1>2. ASSUME NEW h \in Handlers, NEW a \in Automations, ActivateAutomation(h, a) PROVE EngineInv'
  <2>1. PICK req : req = [pc |-> "register", auto |-> a, def |-> autos[a].def]
    OBVIOUS
  <2>2. /\ reqs[h] = Idle /\ reqs' = [reqs EXCEPT ![h] = req] /\ runners' = runners
        /\ autos' = [autos EXCEPT ![a].status = "active"]
    BY <1>2, <2>1 DEF ActivateAutomation, BeginRequest
  <2>3. autos' \in [Automations -> AutoRows] /\ autos'[a].status = "active" /\ autos'[a].def = autos[a].def
        /\ \A b \in Automations \ {a} : autos'[b] = autos[b]
    BY <2>2 DEF EngineInv, AutoRows
  <2>4. req \in RequestState /\ req # Idle /\ req.pc = "register" /\ req.auto = a /\ req.def = autos[a].def
    BY <2>1 DEF EngineInv, AutoRows, RequestState, Idle
  <2>5. reqs' \in [Handlers -> RequestState \cup {Idle}] /\ reqs'[h] = req
    BY <2>2, <2>4 DEF EngineInv
  <2>6. \A g \in Handlers : RequestSound(g)'
    BY <2>3, <2>4, <2>5 DEF RequestSound
  <2>7. RunnersMatchRows'
    BY <2>2, <2>3, <2>4, <2>5, QuietAgrees DEF RunnersMatchRows, Says
  <2> QED BY <2>2, <2>3, <2>5, <2>6, <2>7 DEF EngineInv
<1>3. ASSUME NEW h \in Handlers, NEW a \in Automations, PauseAutomation(h, a) PROVE EngineInv'
  <2>1. PICK req : req = [pc |-> "unregister", auto |-> a, then |-> "idle"]
    OBVIOUS
  <2>2. /\ reqs[h] = Idle /\ reqs' = [reqs EXCEPT ![h] = req] /\ runners' = runners
        /\ autos' = [autos EXCEPT ![a].status = "paused"]
    BY <1>3, <2>1 DEF PauseAutomation, BeginRequest
  <2>3. autos' \in [Automations -> AutoRows] /\ autos'[a].status = "paused"
        /\ \A b \in Automations \ {a} : autos'[b] = autos[b]
    BY <2>2 DEF EngineInv, AutoRows
  <2>4. req \in RequestState /\ req # Idle /\ req.pc = "unregister" /\ req.auto = a /\ req.then = "idle"
    BY <2>1 DEF RequestState, Idle
  <2>5. reqs' \in [Handlers -> RequestState \cup {Idle}] /\ reqs'[h] = req
    BY <2>2, <2>4 DEF EngineInv
  <2>6. \A g \in Handlers : RequestSound(g)'
    BY <2>3, <2>4, <2>5 DEF RequestSound
  <2>7. RunnersMatchRows'
    BY <2>2, <2>3, <2>4, <2>5, QuietAgrees DEF RunnersMatchRows, Says
  <2> QED BY <2>2, <2>3, <2>5, <2>6, <2>7 DEF EngineInv
<1>4. ASSUME NEW h \in Handlers, NEW a \in Automations, UpdateAutomation(h, a) PROVE EngineInv'
  <2>1. PICK req : req = [pc |-> "unregister", auto |-> a, then |-> "register"]
    OBVIOUS
  <2>2. PICK d \in Definitions :
          /\ reqs[h] = Idle /\ runners' = runners
          /\ reqs' = IF autos[a].status = "active" THEN [reqs EXCEPT ![h] = req] ELSE reqs
          /\ autos' = [autos EXCEPT ![a].def = d]
    BY <1>4, <2>1 DEF UpdateAutomation, BeginRequest
  <2>3. autos' \in [Automations -> AutoRows] /\ autos'[a].status = autos[a].status
        /\ \A b \in Automations \ {a} : autos'[b] = autos[b]
    BY <2>2 DEF EngineInv, AutoRows
  <2>4. req \in RequestState /\ req # Idle /\ req.pc = "unregister" /\ req.auto = a /\ req.then = "register"
    BY <2>1 DEF RequestState, Idle
  <2>5. reqs' \in [Handlers -> RequestState \cup {Idle}]
        /\ reqs'[h] = IF autos[a].status = "active" THEN req ELSE Idle
    BY <2>2, <2>4 DEF EngineInv
  <2>6. \A g \in Handlers : RequestSound(g)'
    BY <2>3, <2>4, <2>5 DEF RequestSound
  <2>7. RunnersMatchRows'
    BY <2>2, <2>3, <2>4, <2>5, QuietAgrees DEF RunnersMatchRows, Says
  <2> QED BY <2>2, <2>3, <2>5, <2>6, <2>7 DEF EngineInv
<1>5. ASSUME NEW h \in Handlers, NEW a \in Automations, DeleteAutomation(h, a) PROVE EngineInv'
  <2>1. PICK req : req = [pc |-> "delete", auto |-> a]
    OBVIOUS
  <2>2. /\ reqs[h] = Idle /\ reqs' = [reqs EXCEPT ![h] = req] /\ autos' = autos
        /\ runners' = [runners EXCEPT ![a] = None]
    BY <1>5, <2>1 DEF DeleteAutomation, BeginRequest
  <2>3. runners' \in [Automations -> Definitions \cup {None}] /\ runners'[a] = None
        /\ \A b \in Automations \ {a} : runners'[b] = runners[b]
    BY <2>2 DEF EngineInv
  <2>4. req \in RequestState /\ req # Idle /\ req.pc = "delete" /\ req.auto = a
    BY <2>1 DEF RequestState, Idle
  <2>5. reqs' \in [Handlers -> RequestState \cup {Idle}] /\ reqs'[h] = req
    BY <2>2, <2>4 DEF EngineInv
  <2>6. \A g \in Handlers : RequestSound(g)'
    BY <2>3, <2>4, <2>5 DEF RequestSound
  <2>7. RunnersMatchRows'
    BY <2>2, <2>3, <2>4, <2>5, QuietAgrees DEF RunnersMatchRows, Says
  <2> QED BY <2>2, <2>3, <2>5, <2>6, <2>7 DEF EngineInv
<1>6. ASSUME NEW h \in Handlers, RegisterWorkflow(h) PROVE EngineInv'
  <2>1. PICK a \in Automations, d \in Definitions :
          reqs[h].auto = a /\ reqs[h].def = d /\ reqs[h] # Idle /\ reqs[h].pc = "register"
    BY <1>6, RequestFacts DEF RegisterWorkflow
  <2>2. /\ reqs' = [reqs EXCEPT ![h] = Idle] /\ autos' = autos /\ runners' = [runners EXCEPT ![a] = d]
    BY <1>6, <2>1 DEF RegisterWorkflow, dbVars
  <2>3. autos[a].status = "active" /\ d = autos[a].def
    BY <2>1 DEF EngineInv, RequestSound
  <2>4. \A b \in Automations \ {a} : runners[b] = Says(b)
    BY <2>1 DEF EngineInv, RunnersMatchRows, Says
  <2>5. /\ runners' \in [Automations -> Definitions \cup {None}] /\ runners'[a] = d
        /\ \A b \in Automations \ {a} : runners'[b] = runners[b]
        /\ reqs' \in [Handlers -> RequestState \cup {Idle}] /\ reqs'[h] = Idle
    BY <2>2 DEF EngineInv
  <2>6. \A b \in Automations : runners'[b] = Says(b)'
    BY <2>2, <2>3, <2>4, <2>5 DEF Says
  <2> QED BY <2>2, <2>5, <2>6 DEF EngineInv, RequestSound, RunnersMatchRows, Says
<1>7. ASSUME NEW h \in Handlers, UnregisterWorkflow(h) PROVE EngineInv'
  <2>1. PICK a \in Automations, then \in {"idle", "register"} :
          reqs[h].auto = a /\ reqs[h].then = then /\ reqs[h] # Idle /\ reqs[h].pc = "unregister"
    BY <1>7, RequestFacts DEF UnregisterWorkflow
  <2>2. PICK req : req = [pc |-> "register", auto |-> a, def |-> autos[a].def]
    OBVIOUS
  <2>3. PICK next : next = IF then = "idle" THEN Idle ELSE req
    OBVIOUS
  <2>4. /\ reqs' = [reqs EXCEPT ![h] = next] /\ autos' = autos /\ runners' = [runners EXCEPT ![a] = None]
    BY <1>7, <2>1, <2>2, <2>3 DEF UnregisterWorkflow, dbVars
  <2>5. then = "register" <=> autos[a].status = "active"
    BY <2>1 DEF EngineInv, RequestSound
  <2>6. \A b \in Automations \ {a} : runners[b] = Says(b)
    BY <2>1 DEF EngineInv, RunnersMatchRows, Says
  <2>7. /\ req \in RequestState /\ req # Idle /\ req.pc = "register" /\ req.auto = a
        /\ req.def = autos[a].def
    BY <2>2 DEF EngineInv, AutoRows, RequestState, Idle
  <2>8. /\ runners' \in [Automations -> Definitions \cup {None}] /\ runners'[a] = None
        /\ \A b \in Automations \ {a} : runners'[b] = runners[b]
        /\ reqs' \in [Handlers -> RequestState \cup {Idle}] /\ reqs'[h] = next
    BY <2>3, <2>4, <2>7 DEF EngineInv
  <2>9. \A g \in Handlers : RequestSound(g)'
    BY <2>1, <2>3, <2>4, <2>5, <2>7, <2>8 DEF RequestSound
  <2>10. RunnersMatchRows'
    BY <2>1, <2>3, <2>4, <2>5, <2>6, <2>7, <2>8 DEF RunnersMatchRows, Says
  <2> QED BY <2>4, <2>8, <2>9, <2>10 DEF EngineInv
<1>8. ASSUME NEW h \in Handlers, DeleteRow(h) PROVE EngineInv'
  <2>1. PICK a \in Automations : reqs[h].auto = a /\ reqs[h] # Idle /\ reqs[h].pc = "delete"
    BY <1>8, RequestFacts DEF DeleteRow
  <2>2. /\ reqs' = [reqs EXCEPT ![h] = Idle] /\ runners' = runners
        /\ autos' = [autos EXCEPT ![a].status = "deleted"]
    BY <1>8, <2>1 DEF DeleteRow
  <2>3. runners[a] = None
    BY <2>1 DEF EngineInv, RequestSound
  <2>4. \A b \in Automations \ {a} : runners[b] = Says(b)
    BY <2>1 DEF EngineInv, RunnersMatchRows, Says
  <2>5. /\ autos' \in [Automations -> AutoRows] /\ autos'[a].status = "deleted"
        /\ \A b \in Automations \ {a} : autos'[b] = autos[b]
        /\ reqs' \in [Handlers -> RequestState \cup {Idle}] /\ reqs'[h] = Idle
    BY <2>2 DEF EngineInv, AutoRows
  <2>6. \A b \in Automations : runners'[b] = Says(b)'
    BY <2>2, <2>3, <2>4, <2>5 DEF Says
  <2> QED BY <2>2, <2>5, <2>6 DEF EngineInv, RequestSound, RunnersMatchRows, Says
<1>9. CASE CrashAndRestart
  <2>1. /\ autos' = autos /\ reqs' = [h \in Handlers |-> Idle]
        /\ runners' = [a \in Automations |-> Says(a)]
    BY <1>9 DEF CrashAndRestart, dbVars, Says
  <2>2. \A a \in Automations : Says(a) \in Definitions \cup {None}
    BY DEF EngineInv, AutoRows, Says
  <2>3. \A b \in Automations : runners'[b] = Says(b)'
    BY <2>1 DEF Says
  <2> QED BY <2>1, <2>2, <2>3 DEF EngineInv, RequestSound, RunnersMatchRows, Says
<1>10. ASSUME NEW e \in Walkers, Walk(e) PROVE UNCHANGED engineVars
  BY <1>10 DEF Walk, CheckEntry, CreateRun, CreateFails, ExecuteNode, NodeNotFound, SettleError,
               SettleResult, VisitNext, WalkEnds, dbVars, engineVars
<1>11. CASE (\E c \in AllContacts : ContactAdded(c) \/ TagEvent(c)) \/ ReadDue \/ ContinueNext
  <2>1. UNCHANGED engineVars
    BY <1>11 DEF ContactAdded, TagEvent, ReadDue, ContinueNext, dbVars, engineVars
  <2> QED BY <1>1, <2>1
<1>12. CASE \E r \in Runs : TimePasses(r) \/ \E e \in Execs : ProcessDue(e, r)
  <2>1. UNCHANGED engineVars
    BY <1>12 DEF TimePasses, ProcessDue, dbVars, engineVars
  <2> QED BY <1>1, <2>1
<1>13. CASE UNCHANGED vars
  <2>1. UNCHANGED engineVars
    BY <1>13 DEF vars, engineVars
  <2> QED BY <1>1, <2>1
<1> QED BY <1>1, <1>2, <1>3, <1>4, <1>5, <1>6, <1>7, <1>8, <1>9, <1>10, <1>11, <1>12, <1>13 DEF Next, Request

(***************************************************************************)
(* With one request at a time the engine runs the automations whose rows   *)
(* are active, with the definitions of the rows, for any number of         *)
(* automations, definitions, runs and restarts between the write of a row  *)
(* and the call of the engine (api_v2.go, RegisterWorkflow,                *)
(* UnregisterWorkflow). Two requests at a time can leave it otherwise.     *)
(***************************************************************************)
THEOREM RunnersAlwaysMatch ==
    ASSUME \A g, h \in Handlers : g = h
    PROVE  Spec => []RunnersMatchRows
<1>1. Init => EngineInv
  <2> SUFFICES ASSUME Init PROVE EngineInv
    OBVIOUS
  <2>1. autos \in [Automations -> AutoRows] /\ \A a \in Automations : autos[a].status = "draft"
    BY WorkflowAssumption DEF Init, AutoRows
  <2> QED BY <2>1 DEF Init, EngineInv, RequestSound, RunnersMatchRows
<1>2. EngineInv /\ [Next]_vars => EngineInv'
  BY EngineInvStep
<1>3. EngineInv => RunnersMatchRows
  BY DEF EngineInv
<1> QED BY <1>1, <1>2, <1>3, PTL DEF Spec

-----------------------------------------------------------------------------
(* AutomationRuns: the walk *)

Rows == [auto : Automations, contact : AllContacts, node : Nodes,
         status : {"active", "waiting", "completed", "failed"},
         next : {"none", "future", "past"}, errors : Nat]
Entering == [pc : {"check", "create"}, auto : Automations, def : Definitions, contact : AllContacts]
Walking ==
    [pc : {"exec", "settle", "next"}, def : Definitions, run : Runs, row : Rows,
     todo : Seq(Nodes), result : Branches \cup {"failed"}]

\* A run may come to a node: a trigger, or the target of an edge that it may follow.
Reach(r, n) ==
    \E d \in Definitions :
        /\ n \in Workflow[d].nodes
        /\ \/ Workflow[d].kind[n] = "trigger"
           \/ \E i \in 1..Len(Workflow[d].edges) :
                LET edge == Workflow[d].edges[i]
                IN  /\ edge.target = n
                    /\ edge.source \in visited[r]
                    /\ edge.handle # "" => <<edge.source, edge.handle>> \in branched[r]

\* A goroutine stands at a node where its run may come, and has only such nodes before it;
\* a node whose result it holds was executed, and a split's result is the split's branch.
WalkerSound(x) ==
    \/ x = Idle
    \/ x \in Entering
    \/ /\ x \in Walking
       /\ Reach(x.run, x.row.node)
       /\ \A i \in 1..Len(x.todo) : Reach(x.run, x.todo[i])
       /\ x.pc = "settle" => x.row.node \in visited[x.run]
       /\ x.pc = "settle" /\ x.result \in {"A", "B"} => x.result = SplitBranch[x.run]

RowSound(r, row) == row \in Rows /\ Reach(r, row.node)
CopySound(copy) == copy \in [run : Runs, row : Rows] /\ RowSound(copy.run, copy.row)

EngineTypes ==
    /\ autos \in [Automations -> AutoRows]
    /\ runners \in [Automations -> Definitions \cup {None}]
    /\ reqs \in [Handlers -> RequestState \cup {Idle}]

HistorySound ==
    /\ visited \in [Runs -> SUBSET Nodes]
    /\ branched \in [Runs -> SUBSET (Nodes \X Branches)]
    /\ \A r \in Runs : \A n \in visited[r] : Reach(r, n)
    /\ \A r \in Runs : \A n \in Nodes : \A b \in {"A", "B"} :
            <<n, b>> \in branched[r] => b = SplitBranch[r]

WalkInv ==
    /\ EngineTypes
    /\ events \subseteq AllContacts
    /\ runs \in [Runs -> Rows \cup {None}]
    /\ \A r \in Runs : \A row : runs[r] = row /\ row # None => RowSound(r, row)
    /\ DOMAIN execs = Walkers /\ \A e \in Walkers : \A x : execs[e] = x => WalkerSound(x)
    /\ backlog \in Seq([run : Runs, row : Rows])
    /\ \A i \in 1..Len(backlog) : \A copy : backlog[i] = copy => CopySound(copy)
    /\ HistorySound

HistoryGrows == \A r \in Runs : visited[r] \subseteq visited'[r] /\ branched[r] \subseteq branched'[r]

LEMMA ReachKept ==
    ASSUME HistoryGrows, NEW r \in Runs, NEW n, Reach(r, n) PROVE Reach(r, n)'
<1>1. visited[r] \subseteq visited'[r] /\ branched[r] \subseteq branched'[r]
  BY DEF HistoryGrows
<1>2. PICK d \in Definitions :
        /\ n \in Workflow[d].nodes
        /\ \/ Workflow[d].kind[n] = "trigger"
           \/ \E i \in 1..Len(Workflow[d].edges) :
                /\ Workflow[d].edges[i].target = n
                /\ Workflow[d].edges[i].source \in visited[r]
                /\ Workflow[d].edges[i].handle # ""
                     => <<Workflow[d].edges[i].source, Workflow[d].edges[i].handle>> \in branched[r]
  BY DEF Reach
<1>3. CASE Workflow[d].kind[n] = "trigger"
  BY <1>2, <1>3 DEF Reach
<1>4. CASE \E i \in 1..Len(Workflow[d].edges) :
             /\ Workflow[d].edges[i].target = n
             /\ Workflow[d].edges[i].source \in visited[r]
             /\ Workflow[d].edges[i].handle # ""
                  => <<Workflow[d].edges[i].source, Workflow[d].edges[i].handle>> \in branched[r]
  <2>1. PICK i \in 1..Len(Workflow[d].edges) :
             /\ Workflow[d].edges[i].target = n
             /\ Workflow[d].edges[i].source \in visited[r]
             /\ Workflow[d].edges[i].handle # ""
                  => <<Workflow[d].edges[i].source, Workflow[d].edges[i].handle>> \in branched[r]
    BY <1>4
  <2>2. /\ Workflow[d].edges[i].source \in visited'[r]
        /\ Workflow[d].edges[i].handle # ""
             => <<Workflow[d].edges[i].source, Workflow[d].edges[i].handle>> \in branched'[r]
    BY <1>1, <2>1
  <2> QED BY <1>2, <2>1, <2>2 DEF Reach
<1> QED BY <1>2, <1>3, <1>4

LEMMA SoundKept ==
    ASSUME HistoryGrows
    PROVE  /\ \A x : WalkerSound(x) => WalkerSound(x)'
           /\ \A r \in Runs : \A row : RowSound(r, row) => RowSound(r, row)'
           /\ \A copy : CopySound(copy) => CopySound(copy)'
<1>1. ASSUME NEW r \in Runs, NEW row, RowSound(r, row) PROVE RowSound(r, row)'
  BY <1>1, ReachKept DEF RowSound
<1>2. ASSUME NEW copy, CopySound(copy) PROVE CopySound(copy)'
  <2>1. copy.run \in Runs
    BY <1>2 DEF CopySound
  <2> QED BY <1>1, <1>2, <2>1 DEF CopySound
<1>3. ASSUME NEW x, WalkerSound(x) PROVE WalkerSound(x)'
  <2>1. CASE x = Idle \/ x \in Entering
    BY <2>1 DEF WalkerSound
  <2>2. CASE x \in Walking /\ Reach(x.run, x.row.node)
             /\ (\A i \in 1..Len(x.todo) : Reach(x.run, x.todo[i]))
             /\ (x.pc = "settle" => x.row.node \in visited[x.run])
             /\ (x.pc = "settle" /\ x.result \in {"A", "B"} => x.result = SplitBranch[x.run])
    <3>1. PICK run \in Runs : x.run = run
      BY <2>2 DEF Walking
    <3>2. visited[run] \subseteq visited'[run]
      BY DEF HistoryGrows
    <3>3. Reach(run, x.row.node)'
      BY <2>2, <3>1, ReachKept
    <3>4. \A i \in 1..Len(x.todo) : Reach(run, x.todo[i])'
      BY <2>2, <3>1, ReachKept
    <3> QED BY <2>2, <3>1, <3>2, <3>3, <3>4 DEF WalkerSound
  <2> QED BY <1>3, <2>1, <2>2 DEF WalkerSound
<1> QED BY <1>1, <1>2, <1>3

LEMMA EngineTypesStep == ASSUME EngineTypes, [Next]_vars PROVE EngineTypes'
<1>0. ASSUME NEW h \in Handlers
      PROVE  /\ reqs[h].pc = "register" =>
                   reqs[h].auto \in Automations /\ reqs[h].def \in Definitions
             /\ reqs[h].pc = "unregister" =>
                   reqs[h].auto \in Automations /\ reqs[h].then \in {"idle", "register"}
             /\ reqs[h].pc = "delete" => reqs[h].auto \in Automations
  BY DEF EngineTypes, RequestState, Idle
<1>1. CASE UNCHANGED engineVars
  BY <1>1 DEF engineVars, EngineTypes
<1>2. ASSUME NEW h \in Handlers, NEW a \in Automations, ActivateAutomation(h, a) PROVE EngineTypes'
  <2>1. PICK req : req = [pc |-> "register", auto |-> a, def |-> autos[a].def]
    OBVIOUS
  <2>2. /\ reqs' = [reqs EXCEPT ![h] = req] /\ runners' = runners
        /\ autos' = [autos EXCEPT ![a].status = "active"]
    BY <1>2, <2>1 DEF ActivateAutomation, BeginRequest
  <2>3. req \in RequestState
    BY <2>1 DEF EngineTypes, AutoRows, RequestState
  <2>4. autos' \in [Automations -> AutoRows]
    BY <2>2 DEF EngineTypes, AutoRows
  <2> QED BY <2>2, <2>3, <2>4 DEF EngineTypes
<1>3. ASSUME NEW h \in Handlers, NEW a \in Automations, PauseAutomation(h, a) PROVE EngineTypes'
  <2>1. PICK req : req = [pc |-> "unregister", auto |-> a, then |-> "idle"]
    OBVIOUS
  <2>2. /\ reqs' = [reqs EXCEPT ![h] = req] /\ runners' = runners
        /\ autos' = [autos EXCEPT ![a].status = "paused"]
    BY <1>3, <2>1 DEF PauseAutomation, BeginRequest
  <2>3. req \in RequestState
    BY <2>1 DEF RequestState
  <2>4. autos' \in [Automations -> AutoRows]
    BY <2>2 DEF EngineTypes, AutoRows
  <2> QED BY <2>2, <2>3, <2>4 DEF EngineTypes
<1>4. ASSUME NEW h \in Handlers, NEW a \in Automations, UpdateAutomation(h, a) PROVE EngineTypes'
  <2>1. PICK req : req = [pc |-> "unregister", auto |-> a, then |-> "register"]
    OBVIOUS
  <2>2. PICK d \in Definitions :
          /\ runners' = runners
          /\ reqs' = [reqs EXCEPT ![h] = req] \/ reqs' = reqs
          /\ autos' = [autos EXCEPT ![a].def = d]
    BY <1>4, <2>1 DEF UpdateAutomation, BeginRequest
  <2>3. req \in RequestState
    BY <2>1 DEF RequestState
  <2>4. autos' \in [Automations -> AutoRows]
    BY <2>2 DEF EngineTypes, AutoRows
  <2> QED BY <2>2, <2>3, <2>4 DEF EngineTypes
<1>5. ASSUME NEW h \in Handlers, NEW a \in Automations, DeleteAutomation(h, a) PROVE EngineTypes'
  <2>1. PICK req : req = [pc |-> "delete", auto |-> a]
    OBVIOUS
  <2>2. /\ reqs' = [reqs EXCEPT ![h] = req] /\ autos' = autos
        /\ runners' = [runners EXCEPT ![a] = None]
    BY <1>5, <2>1 DEF DeleteAutomation, BeginRequest
  <2>3. req \in RequestState
    BY <2>1 DEF RequestState
  <2> QED BY <2>2, <2>3 DEF EngineTypes
<1>6. ASSUME NEW h \in Handlers, RegisterWorkflow(h) PROVE EngineTypes'
  <2>1. PICK a \in Automations, d \in Definitions : reqs[h].auto = a /\ reqs[h].def = d
    BY <1>0, <1>6 DEF RegisterWorkflow
  <2>2. /\ reqs' = [reqs EXCEPT ![h] = Idle] /\ autos' = autos /\ runners' = [runners EXCEPT ![a] = d]
    BY <1>6, <2>1 DEF RegisterWorkflow, dbVars
  <2> QED BY <2>2 DEF EngineTypes
<1>7. ASSUME NEW h \in Handlers, UnregisterWorkflow(h) PROVE EngineTypes'
  <2>1. PICK a \in Automations, then \in {"idle", "register"} : reqs[h].auto = a /\ reqs[h].then = then
    BY <1>0, <1>7 DEF UnregisterWorkflow
  <2>2. PICK req : req = [pc |-> "register", auto |-> a, def |-> autos[a].def]
    OBVIOUS
  <2>3. /\ reqs' = [reqs EXCEPT ![h] = Idle] \/ reqs' = [reqs EXCEPT ![h] = req]
        /\ autos' = autos /\ runners' = [runners EXCEPT ![a] = None]
    BY <1>7, <2>1, <2>2 DEF UnregisterWorkflow, dbVars
  <2>4. req \in RequestState
    BY <2>2 DEF EngineTypes, AutoRows, RequestState
  <2> QED BY <2>3, <2>4 DEF EngineTypes
<1>8. ASSUME NEW h \in Handlers, DeleteRow(h) PROVE EngineTypes'
  <2>1. PICK a \in Automations : reqs[h].auto = a
    BY <1>0, <1>8 DEF DeleteRow
  <2>2. /\ reqs' = [reqs EXCEPT ![h] = Idle] /\ runners' = runners
        /\ autos' = [autos EXCEPT ![a].status = "deleted"]
    BY <1>8, <2>1 DEF DeleteRow
  <2>3. autos' \in [Automations -> AutoRows]
    BY <2>2 DEF EngineTypes, AutoRows
  <2> QED BY <2>2, <2>3 DEF EngineTypes
<1>9. CASE CrashAndRestart
  <2>1. /\ autos' = autos /\ reqs' = [h \in Handlers |-> Idle]
        /\ runners' = [a \in Automations |-> Says(a)]
    BY <1>9 DEF CrashAndRestart, dbVars, Says
  <2>2. \A a \in Automations : Says(a) \in Definitions \cup {None}
    BY DEF EngineTypes, AutoRows, Says
  <2> QED BY <2>1, <2>2 DEF EngineTypes
<1>10. ASSUME NEW e \in Walkers, Walk(e) PROVE UNCHANGED engineVars
  BY <1>10 DEF Walk, CheckEntry, CreateRun, CreateFails, ExecuteNode, NodeNotFound, SettleError,
               SettleResult, VisitNext, WalkEnds, dbVars, engineVars
<1>11. CASE (\E c \in AllContacts : ContactAdded(c) \/ TagEvent(c)) \/ ReadDue \/ ContinueNext
  <2>1. UNCHANGED engineVars
    BY <1>11 DEF ContactAdded, TagEvent, ReadDue, ContinueNext, dbVars, engineVars
  <2> QED BY <1>1, <2>1
<1>12. CASE \E r \in Runs : TimePasses(r) \/ \E e \in Execs : ProcessDue(e, r)
  <2>1. UNCHANGED engineVars
    BY <1>12 DEF TimePasses, ProcessDue, dbVars, engineVars
  <2> QED BY <1>1, <2>1
<1>13. CASE UNCHANGED vars
  <2>1. UNCHANGED engineVars
    BY <1>13 DEF vars, engineVars
  <2> QED BY <1>1, <2>1
<1> QED BY <1>1, <1>2, <1>3, <1>4, <1>5, <1>6, <1>7, <1>8, <1>9, <1>10, <1>11, <1>12, <1>13 DEF Next, Request

walkVars == <<runs, execs, backlog, visited, branched>>

\* A step of one goroutine that saves at most one row.
LEMMA WalkerStep ==
    ASSUME WalkInv, EngineTypes', NEW e \in Walkers, NEW x,
           execs' = [execs EXCEPT ![e] = x], WalkerSound(x)',
           HistoryGrows, HistorySound',
           backlog' = backlog, events' \subseteq AllContacts,
           runs' = runs \/ \E r \in Runs, row \in Rows :
                              runs' = [runs EXCEPT ![r] = row] /\ RowSound(r, row)
    PROVE  WalkInv'
<1>1. HistoryGrows
  OBVIOUS
<1>2. DOMAIN execs' = Walkers /\ \A f \in Walkers : \A v : execs'[f] = v => WalkerSound(v)'
  <2>1. DOMAIN execs' = Walkers /\ execs'[e] = x /\ \A f \in Walkers \ {e} : execs'[f] = execs[f]
    BY DEF WalkInv
  <2>2. \A f \in Walkers : \A v : execs[f] = v => WalkerSound(v)'
    BY <1>1, SoundKept DEF WalkInv
  <2> QED BY <2>1, <2>2
<1>3. runs' \in [Runs -> Rows \cup {None}]
      /\ \A s \in Runs : \A w : runs'[s] = w /\ w # None => RowSound(s, w)'
  <2>1. \A s \in Runs : \A w : RowSound(s, w) => RowSound(s, w)'
    BY <1>1, SoundKept
  <2>2. /\ runs \in [Runs -> Rows \cup {None}]
        /\ \A s \in Runs : \A w : runs[s] = w /\ w # None => RowSound(s, w)
    BY DEF WalkInv
  <2>3. CASE runs' = runs
    BY <2>1, <2>2, <2>3
  <2>4. ASSUME NEW r \in Runs, NEW row \in Rows, runs' = [runs EXCEPT ![r] = row], RowSound(r, row)
        PROVE  runs' \in [Runs -> Rows \cup {None}]
               /\ \A s \in Runs : \A w : runs'[s] = w /\ w # None => RowSound(s, w)'
    <3>1. runs' \in [Runs -> Rows \cup {None}] /\ runs'[r] = row
          /\ \A s \in Runs \ {r} : runs'[s] = runs[s]
      BY <2>2, <2>4
    <3> QED BY <2>1, <2>2, <2>4, <3>1
  <2> QED BY <2>3, <2>4
<1>4. /\ backlog' \in Seq([run : Runs, row : Rows])
      /\ \A i \in 1..Len(backlog') : \A copy : backlog'[i] = copy => CopySound(copy)'
  BY <1>1, SoundKept DEF WalkInv
<1> QED BY <1>2, <1>3, <1>4 DEF WalkInv, HistorySound

\* What a goroutine that walks has.
LEMMA WalkerFacts ==
    ASSUME WalkInv, NEW e \in Walkers, execs[e].pc \in {"exec", "settle", "next"}
    PROVE  /\ execs[e] \in Walking /\ Reach(execs[e].run, execs[e].row.node)
           /\ \A i \in 1..Len(execs[e].todo) : Reach(execs[e].run, execs[e].todo[i])
           /\ execs[e].pc = "settle" => execs[e].row.node \in visited[execs[e].run]
           /\ execs[e].pc = "settle" /\ execs[e].result \in {"A", "B"}
                => execs[e].result = SplitBranch[execs[e].run]
<1>1. WalkerSound(execs[e])
  BY DEF WalkInv
<1>2. execs[e] # Idle /\ execs[e] \notin Entering
  BY DEF Idle, Entering
<1> QED BY <1>1, <1>2 DEF WalkerSound

LEMMA HistoryUnchanged ==
    ASSUME WalkInv, UNCHANGED historyVars PROVE HistoryGrows /\ HistorySound'
<1>1. visited' = visited /\ branched' = branched
  BY DEF historyVars
<1>2. HistoryGrows
  BY <1>1 DEF HistoryGrows
<1> QED BY <1>1, <1>2, ReachKept DEF WalkInv, HistorySound

LEMMA EntryKeeps ==
    ASSUME WalkInv, EngineTypes', NEW e \in Walkers,
           CheckEntry(e) \/ CreateFails(e) \/ WalkEnds(e) PROVE WalkInv'
<1>1. /\ runs' = runs /\ backlog' = backlog /\ events' = events /\ UNCHANGED historyVars
  BY DEF CheckEntry, CreateFails, WalkEnds, dbVars
<1>2. events' \subseteq AllContacts
  BY <1>1 DEF WalkInv
<1>3. HistoryGrows /\ HistorySound'
  BY <1>1, HistoryUnchanged
<1>4. CASE execs' = [execs EXCEPT ![e] = Idle]
  <2>1. WalkerSound(Idle)'
    BY DEF WalkerSound
  <2> QED BY <1>1, <1>2, <1>3, <1>4, <2>1, WalkerStep
<1>5. CASE execs[e].pc = "check" /\ execs' = [execs EXCEPT ![e] = [@ EXCEPT !.pc = "create"]]
  <2>1. PICK x : x = execs[e]
    OBVIOUS
  <2>2. WalkerSound(x) /\ x.pc = "check"
    BY <1>5, <2>1 DEF WalkInv
  <2>3. x \in Entering
    BY <2>2 DEF WalkerSound, Idle, Walking
  <2>4. PICK y : y = [x EXCEPT !.pc = "create"]
    OBVIOUS
  <2>5. y \in Entering
    BY <2>3, <2>4 DEF Entering
  <2>6. execs' = [execs EXCEPT ![e] = y]
    BY <1>5, <2>1, <2>4
  <2>7. WalkerSound(y)'
    BY <2>5 DEF WalkerSound
  <2> QED BY <1>1, <1>2, <1>3, <2>6, <2>7, WalkerStep
<1> QED BY <1>4, <1>5 DEF CheckEntry, CreateFails, WalkEnds

LEMMA TriggerReached ==
    ASSUME NEW d \in Definitions, NEW n \in TriggerNodes(d), NEW r \in Runs
    PROVE  Reach(r, n) /\ n \in Nodes
BY DEF Reach, TriggerNodes, Nodes

LEMMA EmptyWalk == <<>> \in Seq(Nodes) /\ "" \in Branches \cup {"failed"}
BY DEF Branches

LEMMA CreateKeeps ==
    ASSUME WalkInv, EngineTypes', NEW e \in Walkers, CreateRun(e) PROVE WalkInv'
<1>1. PICK x : x = execs[e]
  OBVIOUS
<1>2. WalkerSound(x) /\ x.pc = "create"
  BY <1>1 DEF WalkInv, CreateRun
<1>3. x \in Entering
  BY <1>2 DEF WalkerSound, Idle, Walking
<1>4. PICK r \in Runs, n \in TriggerNodes(x.def) :
        LET row == [auto |-> x.auto, contact |-> x.contact, node |-> n,
                    status |-> "active", next |-> "none", errors |-> 0]
        IN  /\ runs' = [runs EXCEPT ![r] = row]
            /\ execs' = [execs EXCEPT ![e] = [pc |-> "exec", def |-> x.def, run |-> r,
                                              row |-> row, todo |-> <<>>, result |-> ""]]
  BY <1>1 DEF CreateRun
<1>5. PICK row : row = [auto |-> x.auto, contact |-> x.contact, node |-> n,
                        status |-> "active", next |-> "none", errors |-> 0]
  OBVIOUS
<1>6. PICK y : y = [pc |-> "exec", def |-> x.def, run |-> r, row |-> row, todo |-> <<>>, result |-> ""]
  OBVIOUS
<1>7. runs' = [runs EXCEPT ![r] = row] /\ execs' = [execs EXCEPT ![e] = y]
  BY <1>4, <1>5, <1>6
<1>8. x.def \in Definitions /\ x.auto \in Automations /\ x.contact \in AllContacts
  BY <1>3 DEF Entering
<1>9. Reach(r, n) /\ n \in Nodes
  BY <1>8, TriggerReached
<1>10. row \in Rows /\ row.node = n
  BY <1>5, <1>8, <1>9 DEF Rows
<1>11. RowSound(r, row)
  BY <1>9, <1>10 DEF RowSound
<1>12. y \in Walking /\ y.run = r /\ y.row = row /\ y.todo = <<>> /\ y.pc = "exec"
  BY <1>6, <1>8, <1>10, EmptyWalk DEF Walking
<1>13. UNCHANGED historyVars /\ backlog' = backlog /\ events' = events
  BY DEF CreateRun
<1>14. HistoryGrows /\ HistorySound'
  BY <1>13, HistoryUnchanged
<1>15. Reach(r, n)'
  BY <1>9, <1>14, ReachKept
<1>16. WalkerSound(y)'
  BY <1>10, <1>12, <1>15 DEF WalkerSound
<1>17. events' \subseteq AllContacts
  BY <1>13 DEF WalkInv
<1> QED BY <1>7, <1>10, <1>11, <1>13, <1>14, <1>16, <1>17, WalkerStep

LEMMA NodeNotFoundKeeps ==
    ASSUME WalkInv, EngineTypes', NEW e \in Walkers, NodeNotFound(e) PROVE WalkInv'
<1>1. PICK x : x = execs[e]
  OBVIOUS
<1>2. /\ x \in Walking /\ Reach(x.run, x.row.node)
      /\ \A i \in 1..Len(x.todo) : Reach(x.run, x.todo[i])
  BY <1>1, WalkerFacts DEF NodeNotFound
<1>3. PICK y : y = [x EXCEPT !.pc = "next"]
  OBVIOUS
<1>4. y \in Walking /\ y.run = x.run /\ y.row = x.row /\ y.todo = x.todo /\ y.pc = "next"
  BY <1>2, <1>3 DEF Walking
<1>5. /\ execs' = [execs EXCEPT ![e] = y] /\ runs' = runs /\ backlog' = backlog /\ events' = events
      /\ UNCHANGED historyVars
  BY <1>1, <1>3 DEF NodeNotFound, dbVars
<1>6. HistoryGrows /\ HistorySound'
  BY <1>5, HistoryUnchanged
<1>7. WalkerSound(y)
  BY <1>2, <1>4 DEF WalkerSound
<1>8. WalkerSound(y)'
  BY <1>6, <1>7, SoundKept
<1>9. events' \subseteq AllContacts
  BY <1>5 DEF WalkInv
<1> QED BY <1>5, <1>6, <1>8, <1>9, WalkerStep

LEMMA SettleErrorKeeps ==
    ASSUME WalkInv, EngineTypes', NEW e \in Walkers, SettleError(e) PROVE WalkInv'
<1>1. PICK x : x = execs[e]
  OBVIOUS
<1>2. /\ x \in Walking /\ Reach(x.run, x.row.node)
      /\ \A i \in 1..Len(x.todo) : Reach(x.run, x.todo[i])
  BY <1>1, WalkerFacts DEF SettleError
<1>3. PICK row : row = [x.row EXCEPT !.errors = x.row.errors + 1,
                                     !.status = IF x.row.errors + 1 >= 3 THEN "failed" ELSE @]
  OBVIOUS
<1>4. PICK run \in Runs, old \in Rows : x.run = run /\ x.row = old
  BY <1>2 DEF Walking
<1>5. row \in Rows /\ row.node = old.node
  <2>1. PICK errors \in Nat : errors = old.errors + 1
    BY <1>4 DEF Rows
  <2>2. PICK status \in {"active", "waiting", "completed", "failed"} :
          status = IF errors >= 3 THEN "failed" ELSE old.status
    BY <1>4 DEF Rows
  <2>3. row = [old EXCEPT !.errors = errors, !.status = status]
    BY <1>3, <1>4, <2>1, <2>2
  <2> QED BY <1>4, <2>3 DEF Rows
<1>6. PICK y : y = [x EXCEPT !.pc = "next", !.row = row]
  OBVIOUS
<1>7. y \in Walking /\ y.run = run /\ y.row = row /\ y.todo = x.todo /\ y.pc = "next"
  BY <1>2, <1>4, <1>5, <1>6 DEF Walking
<1>8. /\ execs' = [execs EXCEPT ![e] = y]
      /\ runs' = runs \/ runs' = [runs EXCEPT ![run] = row]
      /\ backlog' = backlog /\ events' = events /\ UNCHANGED historyVars
  BY <1>1, <1>3, <1>4, <1>6 DEF SettleError, Save
<1>9. HistoryGrows /\ HistorySound'
  BY <1>8, HistoryUnchanged
<1>10. WalkerSound(y) /\ RowSound(run, row)
  BY <1>2, <1>4, <1>5, <1>7 DEF WalkerSound, RowSound
<1>11. WalkerSound(y)'
  BY <1>9, <1>10, SoundKept
<1>12. events' \subseteq AllContacts
  BY <1>8 DEF WalkInv
<1> QED BY <1>5, <1>8, <1>9, <1>10, <1>11, <1>12, WalkerStep

LEMMA VisitNextKeeps ==
    ASSUME WalkInv, EngineTypes', NEW e \in Walkers, VisitNext(e) PROVE WalkInv'
<1>1. PICK x : x = execs[e]
  OBVIOUS
<1>2. /\ x \in Walking /\ Reach(x.run, x.row.node) /\ x.todo # <<>>
      /\ \A i \in 1..Len(x.todo) : Reach(x.run, x.todo[i])
  BY <1>1, WalkerFacts DEF VisitNext
<1>3. PICK run \in Runs, old \in Rows, todo \in Seq(Nodes) : x.run = run /\ x.row = old /\ x.todo = todo
  BY <1>2 DEF Walking
<1>4. /\ 1 \in 1..Len(todo) /\ Head(todo) = todo[1] /\ todo[1] \in Nodes /\ Tail(todo) \in Seq(Nodes)
      /\ \A i \in 1..Len(Tail(todo)) : i + 1 \in 1..Len(todo) /\ Tail(todo)[i] = todo[i + 1]
  BY <1>2, <1>3
<1>5. PICK row : row = [old EXCEPT !.node = todo[1]]
  OBVIOUS
<1>6. row \in Rows /\ row.node = todo[1]
  BY <1>4, <1>5 DEF Rows
<1>7. PICK rest \in Seq(Nodes) : rest = Tail(todo)
  BY <1>4
<1>8. PICK y : y = [x EXCEPT !.pc = "exec", !.row = row, !.todo = rest]
  OBVIOUS
<1>9. y \in Walking /\ y.run = run /\ y.row = row /\ y.todo = rest /\ y.pc = "exec"
  BY <1>2, <1>3, <1>6, <1>8 DEF Walking
<1>10. /\ execs' = [execs EXCEPT ![e] = y]
       /\ runs' = [runs EXCEPT ![run] = row]
       /\ backlog' = backlog /\ events' = events /\ UNCHANGED historyVars
  BY <1>1, <1>3, <1>4, <1>5, <1>7, <1>8 DEF VisitNext, Save
<1>11. HistoryGrows /\ HistorySound'
  BY <1>10, HistoryUnchanged
<1>12. WalkerSound(y) /\ RowSound(run, row)
  <2>1. Reach(run, row.node) /\ \A i \in 1..Len(rest) : Reach(run, rest[i])
    BY <1>2, <1>3, <1>4, <1>6, <1>7
  <2> QED BY <1>6, <1>9, <2>1 DEF WalkerSound, RowSound
<1>13. WalkerSound(y)'
  BY <1>11, <1>12, SoundKept
<1>14. events' \subseteq AllContacts
  BY <1>10 DEF WalkInv
<1> QED BY <1>6, <1>10, <1>11, <1>12, <1>13, <1>14, WalkerStep

\* Every target of an edge that is followed may be reached.
LEMMA FollowedReached ==
    ASSUME NEW d \in Definitions, NEW n, NEW branch, NEW r \in Runs,
           n \in visited'[r], <<n, branch>> \in branched'[r],
           NEW next \in NextNodes(d, EdgesFollowed(d, n, branch))
    PROVE  next \in Seq(Nodes) /\ \A k \in 1..Len(next) : Reach(r, next[k])'
<1>1. PICK taken : taken = EdgesFollowed(d, n, branch)
  OBVIOUS
<1>2. PICK edges : edges = Workflow[d].edges
  OBVIOUS
<1>3. edges \in Seq([source : Workflow[d].nodes, target : Workflow[d].nodes, handle : Branches])
  BY <1>2, WorkflowAssumption
<1>4. PICK order \in [1..Cardinality(taken) -> taken] :
        next = [k \in 1..Cardinality(taken) |-> edges[order[k]].target]
  BY <1>1, <1>2 DEF NextNodes
<1>5. ASSUME NEW i \in taken
      PROVE  i \in 1..Len(edges) /\ edges[i].target \in Workflow[d].nodes /\ Reach(r, edges[i].target)'
  <2>1. /\ i \in 1..Len(edges) /\ edges[i].source = n
        /\ edges[i].handle = "" \/ edges[i].handle = branch
    BY <1>1, <1>2 DEF EdgesFollowed
  <2>2. edges[i].target \in Workflow[d].nodes
    <3>1. PICK S : S = [source : Workflow[d].nodes, target : Workflow[d].nodes, handle : Branches]
      OBVIOUS
    <3>2. edges \in Seq(S)
      BY <1>3, <3>1
    <3>3. \A j \in 1..Len(edges) : edges[j] \in S
      BY <3>2
    <3>4. edges[i] \in S
      BY <2>1, <3>3
    <3> QED BY <3>1, <3>4
  <2> QED BY <1>2, <2>1, <2>2 DEF Reach
<1>6. \A i \in taken : edges[i].target \in Nodes
  BY <1>5 DEF Nodes
<1>7. IsFiniteSet(taken)
  <2>1. taken \subseteq 1..Len(edges) /\ Len(edges) \in Nat
    BY <1>3, <1>5
  <2>2. IsFiniteSet(1..Len(edges))
    BY <2>1, FS_Interval
  <2> QED BY <2>1, <2>2, FS_Subset
<1>8. Cardinality(taken) \in Nat
  BY <1>7, FS_CardinalityType
<1>9. \A k \in 1..Cardinality(taken) : order[k] \in taken /\ next[k] = edges[order[k]].target
  BY <1>4
<1>10. next \in [1..Cardinality(taken) -> Nodes]
  BY <1>4, <1>6
<1>11. next \in Seq(Nodes) /\ Len(next) = Cardinality(taken)
  BY <1>8, <1>10
<1> QED BY <1>5, <1>9, <1>11

LEMMA SettleResultKeeps ==
    ASSUME WalkInv, EngineTypes', NEW e \in Walkers, SettleResult(e) PROVE WalkInv'
<1>1. PICK x : x = execs[e]
  OBVIOUS
<1>2. /\ x \in Walking /\ Reach(x.run, x.row.node) /\ x.pc = "settle" /\ x.result # "failed"
      /\ \A i \in 1..Len(x.todo) : Reach(x.run, x.todo[i])
      /\ x.row.node \in visited[x.run]
      /\ x.result \in {"A", "B"} => x.result = SplitBranch[x.run]
  BY <1>1, WalkerFacts DEF SettleResult
<1>3. PICK run \in Runs, old \in Rows, todo \in Seq(Nodes), d \in Definitions :
        x.run = run /\ x.row = old /\ x.todo = todo /\ x.def = d
  BY <1>2 DEF Walking
<1>4. PICK n \in Nodes, result \in Branches : old.node = n /\ x.result = result
  BY <1>2, <1>3 DEF Walking, Rows
<1>5. PICK taken : taken = EdgesFollowed(d, n, result)
  OBVIOUS
<1>6. PICK done : done = [old EXCEPT !.status = "completed"]
  OBVIOUS
<1>7. done \in Rows /\ done.node = n
  BY <1>4, <1>6 DEF Rows
<1>8. /\ branched' = [branched EXCEPT ![run] = @ \cup {<<n, result>>}]
      /\ \/ /\ runs' = [runs EXCEPT ![run] = done]
            /\ execs' = [execs EXCEPT ![e] = [x EXCEPT !.pc = "next", !.row = done]]
         \/ /\ \E next \in NextNodes(d, taken) :
                  execs' = [execs EXCEPT ![e] = [x EXCEPT !.pc = "next", !.todo = next \o todo]]
            /\ runs' = runs
      /\ backlog' = backlog /\ events' = events /\ visited' = visited
  BY <1>1, <1>3, <1>4, <1>5, <1>6 DEF SettleResult, Save
<1>9. /\ visited \in [Runs -> SUBSET Nodes] /\ branched \in [Runs -> SUBSET (Nodes \X Branches)]
      /\ \A r \in Runs : \A m \in visited[r] : Reach(r, m)
      /\ \A r \in Runs : \A m \in Nodes : \A b \in {"A", "B"} : <<m, b>> \in branched[r] => b = SplitBranch[r]
  BY DEF WalkInv, HistorySound
<1>10. /\ branched' \in [Runs -> SUBSET (Nodes \X Branches)]
       /\ branched'[run] = branched[run] \cup {<<n, result>>}
       /\ \A r \in Runs \ {run} : branched'[r] = branched[r]
  <2>1. PICK P : P = Nodes \X Branches
    OBVIOUS
  <2>2. PICK new : new = branched[run] \cup {<<n, result>>}
    OBVIOUS
  <2>3. new \in SUBSET P
    BY <1>9, <2>1, <2>2
  <2>4. branched' = [branched EXCEPT ![run] = new] /\ branched \in [Runs -> SUBSET P]
    BY <1>8, <1>9, <2>1, <2>2
  <2>5. branched' \in [Runs -> SUBSET P] /\ branched'[run] = new
        /\ \A r \in Runs \ {run} : branched'[r] = branched[r]
    BY <2>3, <2>4
  <2> QED BY <2>1, <2>2, <2>5
<1>11. HistoryGrows
  BY <1>8, <1>10 DEF HistoryGrows
<1>12. HistorySound'
  <2>1. \A r \in Runs : \A m \in visited'[r] : Reach(r, m)'
    BY <1>8, <1>9, <1>11, ReachKept
  <2>2. \A r \in Runs : \A m \in Nodes : \A b \in {"A", "B"} : <<m, b>> \in branched'[r] => b = SplitBranch[r]
    <3> SUFFICES ASSUME NEW r \in Runs, NEW m \in Nodes, NEW b \in {"A", "B"}, <<m, b>> \in branched'[r]
                 PROVE  b = SplitBranch[r]
      OBVIOUS
    <3>1. <<m, b>> \in branched[r] \/ (r = run /\ <<m, b>> = <<n, result>>)
      BY <1>10
    <3>2. r = run /\ b = result => b = SplitBranch[r]
      BY <1>2, <1>3, <1>4
    <3> QED BY <1>9, <3>1, <3>2
  <2> QED BY <1>8, <1>9, <1>10, <2>1, <2>2 DEF HistorySound
<1>13. events' \subseteq AllContacts
  BY <1>8 DEF WalkInv
<1>14. Reach(run, n)' /\ \A i \in 1..Len(todo) : Reach(run, todo[i])'
  BY <1>2, <1>3, <1>4, <1>11, ReachKept
<1>15. CASE /\ runs' = [runs EXCEPT ![run] = done]
            /\ execs' = [execs EXCEPT ![e] = [x EXCEPT !.pc = "next", !.row = done]]
  <2>1. PICK y : y = [x EXCEPT !.pc = "next", !.row = done]
    OBVIOUS
  <2>2. y \in Walking /\ y.run = run /\ y.row = done /\ y.todo = todo /\ y.pc = "next"
    BY <1>2, <1>3, <1>7, <2>1 DEF Walking
  <2>3. WalkerSound(y)'
    BY <1>7, <1>14, <2>2 DEF WalkerSound
  <2>4. RowSound(run, done)
    BY <1>2, <1>3, <1>4, <1>7 DEF RowSound
  <2> QED BY <1>7, <1>8, <1>11, <1>12, <1>13, <1>15, <2>1, <2>3, <2>4, WalkerStep
<1>16. ASSUME NEW next \in NextNodes(d, taken), runs' = runs,
              execs' = [execs EXCEPT ![e] = [x EXCEPT !.pc = "next", !.todo = next \o todo]]
       PROVE  WalkInv'
  <2>1. next \in Seq(Nodes) /\ \A k \in 1..Len(next) : Reach(run, next[k])'
    <3>1. n \in visited'[run] /\ <<n, result>> \in branched'[run]
      BY <1>2, <1>3, <1>4, <1>8, <1>10
    <3> QED BY <1>5, <3>1, FollowedReached
  <2>2. PICK all \in Seq(Nodes) : all = next \o todo
    <3>1. next \in Seq(Nodes)
      BY <2>1
    <3>2. next \o todo \in Seq(Nodes)
      BY <3>1
    <3> QED BY <3>2
  <2>3. \A i \in 1..Len(all) : Reach(run, all[i])'
    <3> SUFFICES ASSUME NEW i \in 1..Len(all) PROVE Reach(run, all[i])'
      OBVIOUS
    <3>1. \/ i \in 1..Len(next) /\ all[i] = next[i]
          \/ i - Len(next) \in 1..Len(todo) /\ all[i] = todo[i - Len(next)]
      BY <2>1, <2>2
    <3> QED BY <1>14, <2>1, <3>1
  <2>4. PICK y : y = [x EXCEPT !.pc = "next", !.todo = all]
    OBVIOUS
  <2>5. y \in Walking /\ y.run = run /\ y.row = old /\ y.todo = all /\ y.pc = "next"
    BY <1>2, <1>3, <2>4 DEF Walking
  <2>6. WalkerSound(y)'
    BY <1>4, <1>14, <2>3, <2>5 DEF WalkerSound
  <2> QED BY <1>8, <1>11, <1>12, <1>13, <1>16, <2>2, <2>4, <2>6, WalkerStep
<1> QED BY <1>8, <1>15, <1>16

LEMMA ExecuteKeeps ==
    ASSUME WalkInv, EngineTypes', NEW e \in Walkers, ExecuteNode(e) PROVE WalkInv'
<1>1. PICK x : x = execs[e]
  OBVIOUS
<1>2. /\ x \in Walking /\ Reach(x.run, x.row.node)
      /\ \A i \in 1..Len(x.todo) : Reach(x.run, x.todo[i])
  BY <1>1, WalkerFacts DEF ExecuteNode
<1>3. PICK run \in Runs, old \in Rows, todo \in Seq(Nodes) : x.run = run /\ x.row = old /\ x.todo = todo
  BY <1>2 DEF Walking
<1>4. PICK n \in Nodes, c \in AllContacts : old.node = n /\ old.contact = c
  BY <1>3 DEF Rows
<1>5. PICK sort : sort = Workflow[x.def].kind[n]
  OBVIOUS
<1>6. /\ \/ sort = "delay" /\ Delay(e) /\ UNCHANGED <<tags, events, budget>>
         \/ sort = "tag" /\ AddTag(e, c) /\ UNCHANGED <<runs, budget>>
         \/ sort = "untag" /\ RemoveTag(e, c) /\ UNCHANGED <<runs, budget>>
         \/ sort \notin {"delay", "tag", "untag"} /\ OtherNode(e, sort) /\ UNCHANGED runs
      /\ visited' = [visited EXCEPT ![run] = @ \cup {n}]
      /\ backlog' = backlog /\ branched' = branched
  BY <1>1, <1>3, <1>4, <1>5 DEF ExecuteNode
<1>7. PICK row \in Rows, result \in Branches \cup {"failed"} :
        /\ row.node = n /\ execs' = [execs EXCEPT ![e] = [x EXCEPT !.pc = "settle", !.row = row, !.result = result]]
        /\ runs' = runs \/ runs' = [runs EXCEPT ![run] = row]
        /\ events' \subseteq AllContacts
        /\ result \in {"A", "B"} => result = SplitBranch[run]
  <2>1. events \subseteq AllContacts
    BY DEF WalkInv
  <2>2. {"", "failed"} \subseteq Branches \cup {"failed"} /\ "" \notin {"A", "B"} /\ "failed" \notin {"A", "B"}
    BY DEF Branches
  <2>3. CASE sort = "delay" /\ Delay(e) /\ UNCHANGED <<tags, events, budget>>
    <3>1. PICK next \in {"future", "past"} :
            LET row == [old EXCEPT !.status = "waiting", !.next = next]
            IN  Save(e, row) /\ Finish(e, row, "")
      BY <1>1, <1>3, <2>3 DEF Delay
    <3>2. PICK row : row = [old EXCEPT !.status = "waiting", !.next = next]
      OBVIOUS
    <3>3. Save(e, row) /\ Finish(e, row, "")
      BY <3>1, <3>2
    <3>4. row \in Rows /\ row.node = n
      BY <1>4, <3>2 DEF Rows
    <3>5. runs' = [runs EXCEPT ![run] = row]
      BY <1>1, <1>3, <3>3 DEF Save
    <3>6. execs' = [execs EXCEPT ![e] = [x EXCEPT !.pc = "settle", !.row = row, !.result = ""]]
      BY <1>1, <3>3 DEF Finish
    <3> QED BY <2>1, <2>2, <2>3, <3>4, <3>5, <3>6
  <2>4. CASE sort = "tag" /\ AddTag(e, c) /\ UNCHANGED <<runs, budget>>
    <3>1. events' \subseteq AllContacts
      BY <2>1, <2>4 DEF AddTag
    <3>2. PICK result \in {"", "failed"} : Finish(e, old, result)
      BY <1>1, <1>3, <2>4 DEF AddTag
    <3>3. execs' = [execs EXCEPT ![e] = [x EXCEPT !.pc = "settle", !.row = old, !.result = result]]
      BY <1>1, <3>2 DEF Finish
    <3> QED BY <1>4, <2>2, <2>4, <3>1, <3>3
  <2>5. CASE sort = "untag" /\ RemoveTag(e, c) /\ UNCHANGED <<runs, budget>>
    <3>1. events' \subseteq AllContacts
      BY <2>1, <2>5 DEF RemoveTag
    <3>2. Finish(e, old, "")
      BY <1>1, <1>3, <2>5 DEF RemoveTag
    <3>3. execs' = [execs EXCEPT ![e] = [x EXCEPT !.pc = "settle", !.row = old, !.result = ""]]
      BY <1>1, <3>2 DEF Finish
    <3> QED BY <1>4, <2>2, <2>5, <3>1, <3>3
  <2>6. CASE sort \notin {"delay", "tag", "untag"} /\ OtherNode(e, sort) /\ UNCHANGED runs
    <3>1. events' \subseteq AllContacts
      BY <2>1, <2>6 DEF OtherNode
    <3>2. PICK result \in BranchChoices(sort, run) \cup {"failed"} : Finish(e, old, result)
      BY <1>1, <1>3, <2>6 DEF OtherNode
    <3>3. execs' = [execs EXCEPT ![e] = [x EXCEPT !.pc = "settle", !.row = old, !.result = result]]
      BY <1>1, <3>2 DEF Finish
    <3>4. SplitBranch[run] \in {"A", "B"}
      BY SplitAssumption
    <3>5. result \in Branches \cup {"failed"} /\ (result \in {"A", "B"} => result = SplitBranch[run])
      BY <2>2, <3>4 DEF BranchChoices, Branches
    <3> QED BY <1>4, <2>6, <3>1, <3>3, <3>5
  <2> QED BY <1>6, <2>3, <2>4, <2>5, <2>6
<1>8. PICK y : y = [x EXCEPT !.pc = "settle", !.row = row, !.result = result]
  OBVIOUS
<1>9. /\ y \in Walking /\ y.run = run /\ y.row = row /\ y.todo = todo /\ y.pc = "settle"
      /\ y.result = result
  BY <1>2, <1>3, <1>8 DEF Walking
<1>10. /\ visited \in [Runs -> SUBSET Nodes] /\ branched \in [Runs -> SUBSET (Nodes \X Branches)]
       /\ \A r \in Runs : \A m \in visited[r] : Reach(r, m)
       /\ \A r \in Runs : \A m \in Nodes : \A b \in {"A", "B"} : <<m, b>> \in branched[r] => b = SplitBranch[r]
  BY DEF WalkInv, HistorySound
<1>11. /\ visited' \in [Runs -> SUBSET Nodes] /\ visited'[run] = visited[run] \cup {n}
       /\ \A r \in Runs \ {run} : visited'[r] = visited[r]
  BY <1>6, <1>10
<1>12. HistoryGrows
  BY <1>6, <1>11 DEF HistoryGrows
<1>13. Reach(run, n)' /\ \A i \in 1..Len(todo) : Reach(run, todo[i])'
  BY <1>2, <1>3, <1>4, <1>12, ReachKept
<1>14. \A r \in Runs : \A m \in visited'[r] : Reach(r, m)'
  <2>1. \A r \in Runs : \A m \in visited[r] : Reach(r, m)'
    BY <1>10, <1>12, ReachKept
  <2> QED BY <1>11, <1>13, <2>1
<1>15. HistorySound'
  BY <1>6, <1>10, <1>11, <1>14 DEF HistorySound
<1>16. WalkerSound(y)'
  BY <1>7, <1>9, <1>11, <1>13 DEF WalkerSound
<1>17. RowSound(run, row)
  BY <1>2, <1>3, <1>4, <1>7 DEF RowSound
<1> QED BY <1>6, <1>7, <1>8, <1>12, <1>15, <1>16, <1>17, WalkerStep

\* Goroutines are only replaced; the rows of the runs may grow old.
LEMMA WalkersReplaced ==
    ASSUME WalkInv, EngineTypes', UNCHANGED historyVars,
           DOMAIN execs' = Walkers,
           \A f \in Walkers : \A v : execs'[f] = v => v = execs[f] \/ WalkerSound(v),
           runs' = runs, backlog' = backlog, events' \subseteq AllContacts
    PROVE  WalkInv'
<1>1. HistoryGrows /\ HistorySound'
  BY HistoryUnchanged
<1>2. \A f \in Walkers : \A v : execs'[f] = v => WalkerSound(v)'
  <2> SUFFICES ASSUME NEW f \in Walkers, NEW v, execs'[f] = v PROVE WalkerSound(v)'
    OBVIOUS
  <2>1. WalkerSound(v)
    BY DEF WalkInv
  <2> QED BY <1>1, <2>1, SoundKept
<1>3. \A r \in Runs : \A row : runs'[r] = row /\ row # None => RowSound(r, row)'
  BY <1>1, SoundKept DEF WalkInv
<1>4. \A i \in 1..Len(backlog') : \A copy : backlog'[i] = copy => CopySound(copy)'
  BY <1>1, SoundKept DEF WalkInv
<1> QED BY <1>1, <1>2, <1>3, <1>4 DEF WalkInv

LEMMA EventsKeep ==
    ASSUME WalkInv, EngineTypes', NEW c \in AllContacts, ContactAdded(c) \/ TagEvent(c) PROVE WalkInv'
<1>1. PICK event \in Events :
        /\ TriggerEvent(event, c) /\ runs' = runs /\ backlog' = backlog /\ UNCHANGED historyVars
        /\ events' \subseteq events
  BY DEF ContactAdded, TagEvent, dbVars, Events
<1>2. PICK start \in [Matching(event) -> {e \in Execs : execs[e] = Idle}] :
        execs' = [e \in Walkers |->
               IF \E a \in Matching(event) : start[a] = e
               THEN LET a == CHOOSE x \in Matching(event) : start[x] = e
                    IN  [pc |-> "check", auto |-> a, def |-> runners[a], contact |-> c]
               ELSE execs[e]]
  BY <1>1 DEF TriggerEvent
<1>3. ASSUME NEW f \in Walkers, NEW v, execs'[f] = v PROVE v = execs[f] \/ WalkerSound(v)
  <2>1. CASE \E a \in Matching(event) : start[a] = f
    <3>1. PICK a : a = CHOOSE x \in Matching(event) : start[x] = f
      OBVIOUS
    <3>2. a \in Matching(event)
      BY <2>1, <3>1
    <3>3. a \in Automations /\ runners[a] \in Definitions
      BY <3>2 DEF Matching, WalkInv, EngineTypes
    <3>4. v = [pc |-> "check", auto |-> a, def |-> runners[a], contact |-> c]
      BY <1>2, <1>3, <2>1, <3>1
    <3>5. v \in Entering
      BY <3>3, <3>4 DEF Entering
    <3> QED BY <3>5 DEF WalkerSound
  <2>2. CASE ~\E a \in Matching(event) : start[a] = f
    BY <1>2, <1>3, <2>2
  <2> QED BY <2>1, <2>2
<1>4. DOMAIN execs' = Walkers
  BY <1>2
<1>5. events' \subseteq AllContacts
  BY <1>1 DEF WalkInv
<1> QED BY <1>1, <1>3, <1>4, <1>5, WalkersReplaced

\* A row that is continued is walked by the definition that the engine has.
LEMMA ContinuedSound ==
    ASSUME EngineTypes, NEW r \in Runs, NEW row, RowSound(r, row), runners[row.auto] # None
    PROVE  \A y : y = [pc |-> "exec", def |-> runners[row.auto], run |-> r,
                       row |-> row, todo |-> <<>>, result |-> ""] => WalkerSound(y)
<1>1. row \in Rows /\ Reach(r, row.node)
  BY DEF RowSound
<1>2. PICK d \in Definitions : runners[row.auto] = d
  BY <1>1 DEF EngineTypes, Rows
<1>3. ASSUME NEW y, y = [pc |-> "exec", def |-> runners[row.auto], run |-> r,
                         row |-> row, todo |-> <<>>, result |-> ""]
      PROVE  WalkerSound(y)
  <2>1. y \in Walking /\ y.run = r /\ y.row = row /\ y.todo = <<>> /\ y.pc = "exec"
    BY <1>1, <1>2, <1>3, EmptyWalk DEF Walking
  <2> QED BY <1>1, <2>1 DEF WalkerSound
<1> QED BY <1>3

LEMMA DueKeeps ==
    ASSUME WalkInv, EngineTypes', NEW e \in Walkers, NEW r \in Runs, ProcessDue(e, r) PROVE WalkInv'
<1>1. PICK row : row = runs[r]
  OBVIOUS
<1>2. runs[r] # None /\ runners[row.auto] # None
  BY <1>1 DEF ProcessDue, Due, Waiting
<1>3. RowSound(r, row)
  BY <1>1, <1>2 DEF WalkInv
<1>4. PICK y : y = [pc |-> "exec", def |-> runners[row.auto], run |-> r,
                    row |-> row, todo |-> <<>>, result |-> ""]
  OBVIOUS
<1>5. WalkerSound(y)
  BY <1>2, <1>3, <1>4, ContinuedSound DEF WalkInv
<1>6. /\ execs' = [execs EXCEPT ![e] = y] /\ runs' = runs /\ backlog' = backlog /\ events' = events
      /\ UNCHANGED historyVars
  BY <1>1, <1>4 DEF ProcessDue, ContinueRun, dbVars
<1>7. DOMAIN execs' = Walkers /\ \A f \in Walkers : \A v : execs'[f] = v => v = execs[f] \/ WalkerSound(v)
  BY <1>5, <1>6 DEF WalkInv
<1>8. events' \subseteq AllContacts
  BY <1>6 DEF WalkInv
<1> QED BY <1>6, <1>7, <1>8, WalkersReplaced

LEMMA ReadKeeps == ASSUME WalkInv, EngineTypes', ReadDue PROVE WalkInv'
<1>1. /\ runs' = runs /\ execs' = execs /\ events' = events /\ UNCHANGED historyVars
  BY DEF ReadDue, dbVars
<1>2. HistoryGrows /\ HistorySound'
  BY <1>1, HistoryUnchanged
<1>3. PICK size, due : size = Cardinality(due) /\ due = {r \in Runs : Due(r)}
  OBVIOUS
<1>4. PICK s \in [1..size -> due] :
        /\ Len(s) > 0
        /\ backlog' = [i \in DOMAIN s |-> [run |-> s[i], row |-> runs[s[i]]]]
  BY <1>3 DEF ReadDue
<1>5. ASSUME NEW i \in 1..size
      PROVE  \A copy : copy = [run |-> s[i], row |-> runs[s[i]]] =>
                copy \in [run : Runs, row : Rows] /\ CopySound(copy)
  <2>1. s[i] \in Runs /\ runs[s[i]] # None
    BY <1>3, <1>4, <1>5 DEF Due, Waiting
  <2>2. PICK r \in Runs : r = s[i]
    BY <2>1
  <2>3. PICK row : row = runs[r]
    OBVIOUS
  <2>4. row \in Rows /\ RowSound(r, row)
    BY <2>1, <2>2, <2>3 DEF WalkInv
  <2> QED BY <2>2, <2>3, <2>4 DEF CopySound
<1>6. size \in Nat
  <2>1. due \subseteq Runs /\ IsFiniteSet(Runs)
    BY <1>3, SizesAssumption
  <2>2. IsFiniteSet(due)
    BY <2>1, FS_Subset
  <2> QED BY <1>3, <2>2, FS_CardinalityType
<1>7. DOMAIN s = 1..size /\ DOMAIN backlog' = 1..size
      /\ \A i \in 1..size : backlog'[i] = [run |-> s[i], row |-> runs[s[i]]]
  BY <1>4
<1>8. PICK Copies : Copies = [run : Runs, row : Rows]
  OBVIOUS
<1>9. backlog' \in [1..size -> Copies]
  <2>1. \A i \in 1..size : [run |-> s[i], row |-> runs[s[i]]] \in Copies
    BY <1>5, <1>8
  <2>2. backlog' = [i \in 1..size |-> [run |-> s[i], row |-> runs[s[i]]]]
    BY <1>4, <1>7
  <2> QED BY <2>1, <2>2
<1>10. backlog' \in Seq(Copies) /\ Len(backlog') = size
  BY <1>6, <1>9
<1>11. \A i \in 1..size : \A copy : backlog'[i] = copy => CopySound(copy)
  BY <1>5, <1>7
<1>12. \A i \in 1..Len(backlog') : \A copy : backlog'[i] = copy => CopySound(copy)'
  BY <1>2, <1>10, <1>11, SoundKept
<1>13. \A f \in Walkers : \A v : execs[f] = v => WalkerSound(v)'
  BY <1>2, SoundKept DEF WalkInv
<1>14. \A r \in Runs : \A row : runs[r] = row /\ row # None => RowSound(r, row)'
  BY <1>2, SoundKept DEF WalkInv
<1>15. backlog' \in Seq([run : Runs, row : Rows])
  BY <1>8, <1>10
<1> QED BY <1>1, <1>2, <1>12, <1>13, <1>14, <1>15 DEF WalkInv

LEMMA ContinueKeeps == ASSUME WalkInv, EngineTypes', ContinueNext PROVE WalkInv'
<1>1. /\ runs' = runs /\ events' = events /\ UNCHANGED historyVars
      /\ backlog # <<>> /\ backlog' = Tail(backlog)
  BY DEF ContinueNext, dbVars
<1>2. HistoryGrows /\ HistorySound'
  BY <1>1, HistoryUnchanged
<1>3. PICK Copies : Copies = [run : Runs, row : Rows]
  OBVIOUS
<1>4. backlog \in Seq(Copies)
  BY <1>3 DEF WalkInv
<1>5. /\ backlog' \in Seq(Copies) /\ Head(backlog) = backlog[1] /\ 1 \in 1..Len(backlog)
      /\ \A i \in 1..Len(backlog') : i + 1 \in 1..Len(backlog) /\ backlog'[i] = backlog[i + 1]
  BY <1>1, <1>4
<1>6. PICK copy : copy = Head(backlog)
  OBVIOUS
<1>7. CopySound(copy)
  BY <1>5, <1>6 DEF WalkInv
<1>8. PICK r \in Runs, row \in Rows : copy.run = r /\ copy.row = row /\ RowSound(r, row)
  BY <1>7 DEF CopySound
<1>9. PICK y : y = [pc |-> "exec", def |-> runners[row.auto], run |-> r,
                    row |-> row, todo |-> <<>>, result |-> ""]
  OBVIOUS
<1>10. execs' = execs \/ (execs' = [execs EXCEPT ![MainExec] = y] /\ runners[row.auto] # None)
  BY <1>6, <1>8, <1>9 DEF ContinueNext, ContinueRun
<1>11. runners[row.auto] # None => WalkerSound(y)
  BY <1>8, <1>9, ContinuedSound DEF WalkInv
<1>12. DOMAIN execs' = Walkers /\ \A f \in Walkers : \A v : execs'[f] = v => v = execs[f] \/ WalkerSound(v)
  BY <1>10, <1>11 DEF WalkInv, Walkers
<1>13. \A f \in Walkers : \A v : execs'[f] = v => WalkerSound(v)'
  <2> SUFFICES ASSUME NEW f \in Walkers, NEW v, execs'[f] = v PROVE WalkerSound(v)'
    OBVIOUS
  <2>1. WalkerSound(v)
    BY <1>12 DEF WalkInv
  <2> QED BY <1>2, <2>1, SoundKept
<1>14. \A s \in Runs : \A w : runs[s] = w /\ w # None => RowSound(s, w)'
  BY <1>2, SoundKept DEF WalkInv
<1>15. \A i \in 1..Len(backlog) : \A v : backlog[i] = v => CopySound(v)'
  BY <1>2, SoundKept DEF WalkInv
<1>16. \A i \in 1..Len(backlog') : \A v : backlog'[i] = v => CopySound(v)'
  BY <1>5, <1>15
<1>17. backlog' \in Seq([run : Runs, row : Rows])
  BY <1>3, <1>5
<1> QED BY <1>1, <1>2, <1>12, <1>13, <1>14, <1>16, <1>17 DEF WalkInv

LEMMA TimeKeeps ==
    ASSUME WalkInv, EngineTypes', NEW r \in Runs, TimePasses(r) PROVE WalkInv'
<1>1. /\ backlog' = backlog /\ events' = events /\ UNCHANGED historyVars /\ runs[r] # None
      /\ runs' = [runs EXCEPT ![r].next = "past"]
      /\ execs' = [e \in Walkers |->
           IF execs[e].pc \in {"exec", "settle", "next"} /\ execs[e].run = r
           THEN [execs[e] EXCEPT !.row.next = IF @ = "future" THEN "past" ELSE @]
           ELSE execs[e]]
  BY DEF TimePasses, Waiting
<1>2. HistoryGrows /\ HistorySound'
  BY <1>1, HistoryUnchanged
<1>3. PICK old : old = runs[r]
  OBVIOUS
<1>4. old \in Rows /\ RowSound(r, old)
  BY <1>1, <1>3 DEF WalkInv
<1>5. PICK row : row = [old EXCEPT !.next = "past"]
  OBVIOUS
<1>6. row \in Rows /\ RowSound(r, row)
  <2>1. row \in Rows /\ row.node = old.node
    BY <1>4, <1>5 DEF Rows
  <2> QED BY <1>4, <2>1 DEF RowSound
<1>7. runs' = [runs EXCEPT ![r] = row]
  BY <1>1, <1>3, <1>5
<1>8. /\ runs' \in [Runs -> Rows \cup {None}]
      /\ \A s \in Runs : \A w : runs'[s] = w /\ w # None => RowSound(s, w)'
  <2>1. runs' \in [Runs -> Rows \cup {None}] /\ runs'[r] = row /\ \A s \in Runs \ {r} : runs'[s] = runs[s]
    BY <1>6, <1>7 DEF WalkInv
  <2>2. \A s \in Runs : \A w : RowSound(s, w) => RowSound(s, w)'
    BY <1>2, SoundKept
  <2> QED BY <1>6, <2>1, <2>2 DEF WalkInv
<1>9. ASSUME NEW f \in Walkers, NEW v, execs'[f] = v PROVE WalkerSound(v)'
  <2>1. PICK x : x = execs[f]
    OBVIOUS
  <2>2. WalkerSound(x)
    BY <2>1 DEF WalkInv
  <2>3. CASE x.pc \in {"exec", "settle", "next"} /\ x.run = r
    <3>1. PICK was : was = x.row
      OBVIOUS
    <3>2. x \in Walking /\ was \in Rows
      BY <2>2, <2>3, <3>1 DEF WalkerSound, Idle, Entering, Walking
    <3>3. PICK next \in {"none", "future", "past"} : next = IF was.next = "future" THEN "past" ELSE was.next
      BY <3>2 DEF Rows
    <3>4. PICK w : w = [was EXCEPT !.next = next]
      OBVIOUS
    <3>5. w \in Rows /\ w.node = was.node
      BY <3>2, <3>4 DEF Rows
    <3>6. v = [x EXCEPT !.row = w]
      <4>1. v = [x EXCEPT !.row.next = IF @ = "future" THEN "past" ELSE @]
        BY <1>1, <1>9, <2>1, <2>3
      <4> QED BY <3>1, <3>3, <3>4, <4>1
    <3>7. v \in Walking /\ v.row = w /\ v.run = x.run /\ v.todo = x.todo /\ v.pc = x.pc /\ v.result = x.result
      BY <3>2, <3>5, <3>6 DEF Walking
    <3>8. WalkerSound(v)
      BY <2>2, <2>3, <3>1, <3>2, <3>5, <3>7 DEF WalkerSound, Idle, Entering
    <3> QED BY <1>2, <3>8, SoundKept
  <2>4. CASE ~(x.pc \in {"exec", "settle", "next"} /\ x.run = r)
    <3>1. v = x
      BY <1>1, <1>9, <2>1, <2>4
    <3> QED BY <1>2, <2>2, <3>1, SoundKept
  <2> QED BY <2>3, <2>4
<1>10. \A i \in 1..Len(backlog') : \A copy : backlog'[i] = copy => CopySound(copy)'
  BY <1>1, <1>2, SoundKept DEF WalkInv
<1>11. DOMAIN execs' = Walkers
  BY <1>1
<1> QED BY <1>1, <1>2, <1>8, <1>9, <1>10, <1>11 DEF WalkInv

LEMMA WalkInvStep == ASSUME WalkInv, [Next]_vars PROVE WalkInv'
<1>1. EngineTypes'
  BY EngineTypesStep DEF WalkInv
<1>2. CASE UNCHANGED walkVars /\ events' = events
  <2>1. UNCHANGED historyVars /\ runs' = runs /\ backlog' = backlog /\ execs' = execs
    BY <1>2 DEF walkVars, historyVars
  <2>2. DOMAIN execs' = Walkers /\ \A f \in Walkers : \A v : execs'[f] = v => v = execs[f] \/ WalkerSound(v)
    BY <2>1 DEF WalkInv
  <2>3. events' \subseteq AllContacts
    BY <1>2 DEF WalkInv
  <2> QED BY <1>1, <2>1, <2>2, <2>3, WalkersReplaced
<1>3. ASSUME NEW h \in Handlers, Request(h) PROVE WalkInv'
  <2>1. UNCHANGED walkVars /\ events' = events
    BY <1>3 DEF Request, ActivateAutomation, PauseAutomation, UpdateAutomation, DeleteAutomation,
                RegisterWorkflow, UnregisterWorkflow, DeleteRow, BeginRequest, dbVars, historyVars, walkVars
  <2> QED BY <1>2, <2>1
<1>4. ASSUME NEW e \in Walkers, Walk(e) PROVE WalkInv'
  BY <1>1, <1>4, EntryKeeps, CreateKeeps, ExecuteKeeps, NodeNotFoundKeeps, SettleErrorKeeps,
     SettleResultKeeps, VisitNextKeeps DEF Walk
<1>5. ASSUME NEW r \in Runs, TimePasses(r) \/ \E e \in Execs : ProcessDue(e, r) PROVE WalkInv'
  <2>1. Execs \subseteq Walkers
    BY DEF Walkers
  <2> QED BY <1>1, <1>5, <2>1, TimeKeeps, DueKeeps
<1>6. CASE CrashAndRestart
  <2>1. /\ execs' = [e \in Walkers |-> Idle] /\ backlog' = <<>> /\ events' = {} /\ runs' = runs
        /\ UNCHANGED historyVars
    BY <1>6 DEF CrashAndRestart, dbVars
  <2>2. HistoryGrows /\ HistorySound'
    BY <2>1, HistoryUnchanged
  <2>3. \A s \in Runs : \A w : runs[s] = w /\ w # None => RowSound(s, w)'
    BY <2>2, SoundKept DEF WalkInv
  <2>4. DOMAIN execs' = Walkers /\ \A f \in Walkers : \A v : execs'[f] = v => WalkerSound(v)'
    BY <2>1 DEF WalkerSound
  <2>5. backlog' \in Seq([run : Runs, row : Rows]) /\ Len(backlog') = 0
    BY <2>1
  <2>6. events' \subseteq AllContacts /\ runs' \in [Runs -> Rows \cup {None}]
    BY <2>1 DEF WalkInv
  <2> QED BY <1>1, <2>1, <2>2, <2>3, <2>4, <2>5, <2>6 DEF WalkInv
<1>7. CASE UNCHANGED vars
  <2>1. UNCHANGED walkVars /\ events' = events
    BY <1>7 DEF vars, walkVars
  <2> QED BY <1>2, <2>1
<1> QED BY <1>1, <1>3, <1>4, <1>5, <1>6, <1>7, EventsKeep, ReadKeeps, ContinueKeeps DEF Next

(***************************************************************************)
(* A run executes only triggers and nodes to which an edge leads by the    *)
(* branch that was chosen, and a split sends it down one branch for good:  *)
(* for any workflows, any number of automations, runs, goroutines and      *)
(* requests at a time, through restarts, new definitions of a workflow and *)
(* copies of a row that two schedulers hold (executeFromNode,              *)
(* processDelayedActions, ProcessDelayedActions).                          *)
(***************************************************************************)
THEOREM WalkAlwaysSound == Spec => []WalkSound
<1>1. Init => WalkInv
  <2> SUFFICES ASSUME Init PROVE WalkInv
    OBVIOUS
  <2>1. EngineTypes
    BY WorkflowAssumption DEF Init, EngineTypes, AutoRows
  <2>2. HistorySound
    BY DEF Init, HistorySound
  <2>3. runs \in [Runs -> Rows \cup {None}] /\ \A r \in Runs : runs[r] = None
    BY DEF Init
  <2>5. DOMAIN execs = Walkers /\ \A e \in Walkers : \A x : execs[e] = x => WalkerSound(x)
    BY DEF Init, WalkerSound
  <2>6. backlog = <<>> /\ events = {}
    BY DEF Init
  <2>7. backlog \in Seq([run : Runs, row : Rows]) /\ Len(backlog) = 0
    BY <2>6
  <2> QED BY <2>1, <2>2, <2>3, <2>5, <2>6, <2>7 DEF WalkInv
<1>2. WalkInv /\ [Next]_vars => WalkInv'
  BY WalkInvStep
<1>3. WalkInv => WalkSound
  <2> SUFFICES ASSUME WalkInv PROVE WalkSound
    OBVIOUS
  <2>1. WalkFollowsEdges
    BY DEF WalkInv, HistorySound, WalkFollowsEdges, Reach
  <2>2. SplitIsStable
    <3> SUFFICES ASSUME NEW r \in Runs, NEW n \in Nodes, <<n, "A">> \in branched[r], <<n, "B">> \in branched[r]
                 PROVE  FALSE
      BY DEF SplitIsStable
    <3>1. "A" = SplitBranch[r] /\ "B" = SplitBranch[r]
      BY DEF WalkInv, HistorySound
    <3> QED BY <3>1
  <2> QED BY <2>1, <2>2 DEF WalkSound
<1> QED BY <1>1, <1>2, <1>3, PTL DEF Spec

-----------------------------------------------------------------------------
(* Verification *)

AnyResult == [reach : Reaches, score : Int, catchAll : BOOLEAN, connect : BOOLEAN]
AnyCheck ==
    [pc : {"ready", "talk", "reacher", "done", "left"}, way : Nat,
     call : {"direct", "local", "second"}, res : AnyResult, kept : AnyResult]

Vouched(a) == heard[a] \cap {"accepted", "vouched"} # {}
TakesAll(a) == "catchAll" \in heard[a]

\* Before a verification begins nothing is known; while it talks nobody has said that the
\* domain takes everything, and what is kept for a second opinion was safe for a reason;
\* what it ends with is safe for a reason, and so is what has been saved.
CheckSound(a) ==
    /\ check[a].pc = "ready" => ~TakesAll(a) /\ ~contact[a].valid
    /\ check[a].pc \in {"talk", "reacher"} =>
         /\ ~TakesAll(a) /\ ~contact[a].valid
         /\ check[a].call = "second" /\ check[a].kept.reach = "safe" => Vouched(a)
    /\ check[a].pc = "done" =>
         /\ ~contact[a].valid
         /\ check[a].res.reach = "safe" => Vouched(a) /\ ~TakesAll(a)
    /\ contact[a].valid => Vouched(a) /\ ~TakesAll(a)

VerificationInv ==
    /\ check \in [Addresses -> AnyCheck]
    /\ heard \in [Addresses -> SUBSET {"accepted", "vouched", "catchAll"}]
    /\ contact \in [Addresses -> [valid : BOOLEAN, score : Int]]
    /\ \A a \in Addresses : CheckSound(a)

LEMMA VerificationInvInit == VerificationInit => VerificationInv
<1> SUFFICES ASSUME VerificationInit PROVE VerificationInv
  OBVIOUS
<1>1. NoResult \in AnyResult
  BY DEF NoResult, AnyResult, Reaches
<1>2. Ready \in AnyCheck /\ Ready.pc = "ready"
  BY <1>1 DEF Ready, AnyCheck
<1>3. NotSaved \in [valid : BOOLEAN, score : Int] /\ ~NotSaved.valid
  BY DEF NotSaved
<1> QED BY <1>2, <1>3 DEF VerificationInit, VerificationInv, CheckSound, TakesAll

LEMMA LargerIsInteger ==
    ASSUME NEW m \in Int, NEW n \in Int PROVE Max({m, n}) \in Int
<1>1. \E x \in {m, n} : \A y \in {m, n} : x >= y
  OBVIOUS
<1> QED BY <1>1 DEF Max

LEMMA MappedSound ==
    ASSUME NEW a, NEW o \in Answers, Sensible(o)
    PROVE  /\ Mapped(a, o) \in AnyResult
           /\ Mapped(a, o).reach = o.reach /\ Mapped(a, o).catchAll = o.catchAll
           /\ o.reach = "safe" => ~o.catchAll
<1>1. o.reach \in {"safe", "risky", "invalid", "unknown"} /\ o.catchAll \in BOOLEAN /\ o.connect \in BOOLEAN
  BY DEF Answers
<1>2. Base(o.reach) \in Int
  BY <1>1 DEF Base
<1> DEFINE s == IF kind[a] = "disposable" THEN Max({Base(o.reach), 80}) ELSE Base(o.reach)
           t == IF o.catchAll THEN Max({s, 40}) ELSE s
<1>3. s \in Int
  BY <1>2, LargerIsInteger
<1>4. t \in Int
  <2> HIDE DEF s
  <2> QED BY <1>3, LargerIsInteger
<1>5. Mapped(a, o) = [reach |-> o.reach, score |-> t, catchAll |-> o.catchAll, connect |-> o.connect]
  BY DEF Mapped
<1> HIDE DEF t
<1> QED BY <1>1, <1>4, <1>5 DEF AnyResult, Reaches, Sensible

\* Whatever a call returns, what comes of it is safe only for a reason.
LEMMA ReturnSound ==
    ASSUME VerificationInv, NEW a \in Addresses, NEW r \in AnyResult, Returns(a, r),
           check[a].pc \in {"talk", "reacher"}, UNCHANGED contact,
           heard' \in [Addresses -> SUBSET {"accepted", "vouched", "catchAll"}],
           heard[a] \subseteq heard'[a],
           \A b \in Addresses \ {a} : heard'[b] = heard[b],
           r.reach = "safe" => Vouched(a)' /\ ~r.catchAll,
           TakesAll(a)' => r.catchAll
    PROVE  VerificationInv'
<1>1. PICK c \in AnyCheck : c = check[a]
  BY DEF VerificationInv
<1>2. /\ c.res \in AnyResult /\ c.kept \in AnyResult
      /\ c.call \in {"direct", "local", "second"} /\ c.way \in Nat
  BY <1>1 DEF AnyCheck
<1>3. ~contact[a].valid /\ (c.call = "second" /\ c.kept.reach = "safe" => Vouched(a))
  BY <1>1 DEF VerificationInv, CheckSound
<1> DEFINE risky == [c.kept EXCEPT !.catchAll = TRUE, !.reach = "risky", !.score = 50]
           again == [c EXCEPT !.pc = "reacher", !.call = "second", !.res = r, !.kept = r]
           told == [c EXCEPT !.pc = "done", !.res = r]
           marked == [c EXCEPT !.pc = "done", !.res = risky]
           confirmed == [c EXCEPT !.pc = "done", !.res = c.kept]
<1>4. risky \in AnyResult /\ risky.reach = "risky"
  <2>1. PICK w \in Reaches : w = "risky"
    BY DEF Reaches
  <2>2. PICK n \in Int : n = 50
    OBVIOUS
  <2>3. PICK k \in AnyResult : k = c.kept
    BY <1>2
  <2> DEFINE h == [k EXCEPT !.catchAll = TRUE, !.reach = w, !.score = n]
  <2>4. h \in AnyResult /\ h.reach = w
    BY DEF AnyResult
  <2> QED BY <2>1, <2>2, <2>3, <2>4
<1>5. PICK next :
        /\ check' = [check EXCEPT ![a] = next]
        /\ \/ next = again /\ c.call = "local" /\ ~r.catchAll
           \/ next = marked /\ r.catchAll
           \/ next = confirmed /\ c.call = "second" /\ ~r.catchAll
           \/ next = told
  <2> DEFINE asks == c.call = "local" /\ HasReacher /\ r.connect /\ ~r.catchAll /\ ~options.skipCatchAll
  <2>1. CASE asks
    <3>1. Continues(a, again)
      BY <1>1, <2>1 DEF Returns
    <3> QED BY <2>1, <3>1 DEF Continues
  <2>2. CASE ~asks /\ c.call = "second"
    <3>1. Continues(a, IF r.catchAll THEN marked ELSE confirmed)
      <4>1. Continues(a, [c EXCEPT !.pc = "done", !.res = IF r.catchAll THEN risky ELSE c.kept])
        BY <1>1, <2>2 DEF Returns
      <4> HIDE DEF risky
      <4> QED BY <4>1
    <3> HIDE DEF marked, confirmed
    <3> QED BY <2>2, <3>1 DEF Continues
  <2>3. CASE ~asks /\ c.call # "second"
    <3>1. Continues(a, told)
      BY <1>1, <2>3 DEF Returns
    <3> QED BY <3>1 DEF Continues
  <2> QED BY <2>1, <2>2, <2>3
<1> HIDE DEF risky
<1>6. /\ next \in AnyCheck
      /\ \/ next.pc = "reacher" /\ next.call = "second" /\ next.kept = r /\ ~r.catchAll
         \/ next.pc = "done" /\ next.res = risky
         \/ next.pc = "done" /\ next.res = c.kept /\ c.call = "second" /\ ~r.catchAll
         \/ next.pc = "done" /\ next.res = r
  <2>1. again \in AnyCheck /\ again.pc = "reacher" /\ again.call = "second" /\ again.kept = r
    BY <1>1, <1>2 DEF AnyCheck
  <2>2. told \in AnyCheck /\ told.pc = "done" /\ told.res = r
    BY <1>1, <1>2 DEF AnyCheck
  <2>3. marked \in AnyCheck /\ marked.pc = "done" /\ marked.res = risky
    BY <1>1, <1>2, <1>4 DEF AnyCheck
  <2>4. confirmed \in AnyCheck /\ confirmed.pc = "done" /\ confirmed.res = c.kept
    BY <1>1, <1>2 DEF AnyCheck
  <2> HIDE DEF again, told, marked, confirmed
  <2> QED BY <1>5, <2>1, <2>2, <2>3, <2>4
<1>7. check' \in [Addresses -> AnyCheck] /\ check'[a] = next
      /\ \A b \in Addresses \ {a} : check'[b] = check[b]
  BY <1>5, <1>6 DEF VerificationInv
<1>8. Vouched(a) => Vouched(a)'
  BY DEF Vouched
<1>9. CheckSound(a)'
  BY <1>3, <1>4, <1>6, <1>7, <1>8 DEF CheckSound
<1>10. \A b \in Addresses \ {a} : CheckSound(b)'
  BY <1>7 DEF VerificationInv, CheckSound, Vouched, TakesAll
<1> QED BY <1>7, <1>9, <1>10 DEF VerificationInv

LEMMA ProgressSound ==
    ASSUME VerificationInv, NEW a \in Addresses, NEW next \in AnyCheck, Continues(a, next),
           check[a].pc # "done", UNCHANGED contact,
           heard' \in [Addresses -> SUBSET {"accepted", "vouched", "catchAll"}],
           heard[a] \subseteq heard'[a],
           \A b \in Addresses \ {a} : heard'[b] = heard[b],
           ~contact[a].valid,
           next.pc \in {"talk", "reacher"} =>
             /\ ~TakesAll(a)'
             /\ next.call = "second" /\ next.kept.reach = "safe" => Vouched(a),
           next.pc = "done" => next.res.reach # "safe",
           next.pc \notin {"ready", "left"}
    PROVE  VerificationInv'
<1>1. check' \in [Addresses -> AnyCheck] /\ check'[a] = next
      /\ \A b \in Addresses \ {a} : check'[b] = check[b]
  BY DEF VerificationInv, Continues
<1>2. Vouched(a) => Vouched(a)'
  BY DEF Vouched
<1>3. CheckSound(a)'
  BY <1>1, <1>2 DEF CheckSound, AnyCheck
<1>4. \A b \in Addresses \ {a} : CheckSound(b)'
  BY <1>1 DEF VerificationInv, CheckSound, Vouched, TakesAll
<1> QED BY <1>1, <1>3, <1>4 DEF VerificationInv

LEMMA HearsFacts ==
    ASSUME VerificationInv, NEW a \in Addresses, NEW what, Hears(a, what)
    PROVE  /\ heard' \in [Addresses -> SUBSET {"accepted", "vouched", "catchAll"}]
           /\ heard[a] \subseteq heard'[a]
           /\ \A b \in Addresses \ {a} : heard'[b] = heard[b]
           /\ TakesAll(a)' <=> TakesAll(a) \/ what = "catchAll"
           /\ what \in {"accepted", "vouched"} => Vouched(a)'
<1> DEFINE more == heard[a] \cup ({what} \cap {"accepted", "vouched", "catchAll"})
<1>1. heard' = [heard EXCEPT ![a] = more]
  BY DEF Hears
<1>2. heard'[a] = more /\ \A b \in Addresses \ {a} : heard'[b] = heard[b]
  BY <1>1 DEF VerificationInv
<1>3. more \in SUBSET {"accepted", "vouched", "catchAll"}
  BY DEF VerificationInv
<1>4. heard' \in [Addresses -> SUBSET {"accepted", "vouched", "catchAll"}]
  <2> HIDE DEF more
  <2> QED BY <1>1, <1>3 DEF VerificationInv
<1> QED BY <1>2, <1>4 DEF TakesAll, Vouched

LEMMA BeginsSound ==
    ASSUME VerificationInv, NEW a \in Addresses, VerifyEmail(a) PROVE VerificationInv'
<1>1. ~TakesAll(a) /\ ~contact[a].valid /\ check[a].pc = "ready"
  BY DEF VerifyEmail, At, VerificationInv, CheckSound
<1>2. UNCHANGED <<heard, contact>>
  BY DEF VerifyEmail
<1> DEFINE bad == [NoResult EXCEPT !.reach = "invalid"]
           first == IF kind[a] = "disposable"
                      THEN [NoResult EXCEPT !.reach = "risky", !.score = 80] ELSE NoResult
           nowhere == [first EXCEPT !.reach = "invalid"]
           direct == HasReacher /\ (kind[a] = "hard" \/ options.only)
           refused == [Ready EXCEPT !.pc = "done", !.res = bad]
           lost == [Ready EXCEPT !.pc = "done", !.res = nowhere]
           asked == [Ready EXCEPT !.pc = "reacher", !.call = "direct", !.res = first]
           called == [Ready EXCEPT !.pc = "talk", !.call = "local", !.res = first]
<1>3. PICK none \in AnyResult : none = NoResult
  <2>1. NoResult \in AnyResult
    BY DEF NoResult, AnyResult, Reaches
  <2> QED BY <2>1
<1>4. bad \in AnyResult /\ bad.reach = "invalid"
  <2>1. PICK w \in Reaches : w = "invalid"
    BY DEF Reaches
  <2> DEFINE h == [none EXCEPT !.reach = w]
  <2>2. h \in AnyResult /\ h.reach = w
    BY DEF AnyResult
  <2> QED BY <1>3, <2>1, <2>2
<1>5. first \in AnyResult /\ nowhere \in AnyResult /\ nowhere.reach = "invalid"
  <2>1. PICK w \in Reaches, x \in Reaches : w = "risky" /\ x = "invalid"
    BY DEF Reaches
  <2>2. PICK n \in Int : n = 80
    OBVIOUS
  <2> DEFINE h == [none EXCEPT !.reach = w, !.score = n]
  <2>3. h \in AnyResult
    BY DEF AnyResult
  <2>4. first \in AnyResult
    BY <1>3, <2>1, <2>2, <2>3
  <2>5. PICK f \in AnyResult : f = first
    BY <2>4
  <2> DEFINE g == [f EXCEPT !.reach = x]
  <2>6. g \in AnyResult /\ g.reach = x
    BY DEF AnyResult
  <2> HIDE DEF first
  <2> QED BY <2>1, <2>4, <2>5, <2>6
<1>6. /\ refused \in AnyCheck /\ refused.pc = "done" /\ refused.res.reach = "invalid"
      /\ lost \in AnyCheck /\ lost.pc = "done" /\ lost.res.reach = "invalid"
      /\ asked \in AnyCheck /\ asked.pc = "reacher" /\ asked.call = "direct"
      /\ called \in AnyCheck /\ called.pc = "talk" /\ called.call = "local"
  <2> HIDE DEF bad, first, nowhere
  <2>1. PICK r \in AnyCheck : r = Ready
    BY <1>3 DEF Ready, AnyCheck
  <2> HIDE DEF refused, lost, asked, called
  <2>2. refused \in AnyCheck /\ refused.pc = "done" /\ refused.res = bad
    BY <1>4, <2>1 DEF AnyCheck, refused
  <2>3. lost \in AnyCheck /\ lost.pc = "done" /\ lost.res = nowhere
    BY <1>5, <2>1 DEF AnyCheck, lost
  <2>4. asked \in AnyCheck /\ asked.pc = "reacher" /\ asked.call = "direct"
    BY <1>5, <2>1 DEF AnyCheck, asked
  <2>5. called \in AnyCheck /\ called.pc = "talk" /\ called.call = "local"
    BY <1>5, <2>1 DEF AnyCheck, called
  <2> QED BY <1>4, <1>5, <2>2, <2>3, <2>4, <2>5
<1>7. Continues(a, refused) \/ Continues(a, lost) \/ Continues(a, asked) \/ Continues(a, called)
  <2>1. \/ Continues(a, refused) \/ Continues(a, lost)
        \/ Continues(a, [Ready EXCEPT !.pc = IF direct THEN "reacher" ELSE "talk",
                                 !.call = IF direct THEN "direct" ELSE "local", !.res = first])
    BY DEF VerifyEmail
  <2> HIDE DEF refused, lost, first
  <2>2. CASE direct
    BY <2>1, <2>2
  <2>3. CASE ~direct
    BY <2>1, <2>3
  <2> QED BY <2>2, <2>3
<1>8. PICK next \in AnyCheck :
        /\ Continues(a, next)
        /\ \/ next.pc = "done" /\ next.res.reach = "invalid"
           \/ next.pc \in {"talk", "reacher"} /\ next.call # "second"
  <2> HIDE DEF refused, lost, asked, called
  <2> QED BY <1>6, <1>7
<1>9. heard' \in [Addresses -> SUBSET {"accepted", "vouched", "catchAll"}] /\ ~TakesAll(a)'
  BY <1>1, <1>2 DEF VerificationInv, TakesAll
<1> QED BY <1>1, <1>2, <1>8, <1>9, ProgressSound

\* What holds while a verification talks with a server.
LEMMA TalkFacts ==
    ASSUME VerificationInv, NEW a \in Addresses, check[a].pc \in {"talk", "reacher"}
    PROVE  /\ check[a] \in AnyCheck /\ check[a].res \in AnyResult /\ check[a].way \in Nat
           /\ ~TakesAll(a) /\ ~contact[a].valid
           /\ check[a].call = "second" /\ check[a].kept.reach = "safe" => Vouched(a)
BY DEF VerificationInv, CheckSound, AnyCheck

LEMMA AttemptSound ==
    ASSUME VerificationInv, NEW a \in Addresses, Attempt(a) PROVE VerificationInv'
<1>1. PICK c \in AnyCheck : c = check[a]
  BY DEF VerificationInv
<1>2. c.pc = "talk" /\ c.res \in AnyResult /\ c.way \in Nat /\ UNCHANGED contact
  BY <1>1, TalkFacts DEF Attempt, At
<1>3. PICK q \in AnyResult : q = c.res
  BY <1>2
<1> DEFINE r(f) == [c.res EXCEPT !.connect = Connected(f), !.catchAll = f = "catchAll"]
<1>4. PICK f \in {"accepted", "refused", "blocked", "deferred", "failed", "catchAll"} :
        /\ Hears(a, f)
        /\ \/ /\ Passes(f)
              /\ Returns(a, IF f = "catchAll" THEN [r(f) EXCEPT !.reach = "risky", !.score = 50]
                            ELSE [r(f) EXCEPT !.reach = "safe", !.score = 0])
           \/ /\ ~Passes(f)
              /\ Returns(a, [r(f) EXCEPT !.reach = "invalid", !.score = 100])
           \/ /\ ~Passes(f)
              /\ Continues(a, [c EXCEPT !.way = c.way + 1, !.res = r(f)])
  <2>1. PICK f \in Findings(MayProbe(options.ways[c.way])) :
          /\ Hears(a, f)
          /\ \/ /\ Passes(f)
                /\ Returns(a, IF f = "catchAll" THEN [r(f) EXCEPT !.reach = "risky", !.score = 50]
                              ELSE [r(f) EXCEPT !.reach = "safe", !.score = 0])
             \/ /\ ~Passes(f) /\ f \in {"refused", "blocked"}
                /\ Returns(a, [r(f) EXCEPT !.reach = "invalid", !.score = 100])
             \/ /\ ~Passes(f) /\ f \in {"deferred", "failed"}
                /\ Continues(a, [c EXCEPT !.way = c.way + 1, !.res = r(f)])
    BY <1>1 DEF Attempt
  <2> HIDE DEF r
  <2>2. f \in {"accepted", "refused", "blocked", "deferred", "failed", "catchAll"}
    BY DEF Findings
  <2> QED BY <2>1, <2>2
<1>5. PICK m \in BOOLEAN, n \in BOOLEAN : m = Connected(f) /\ n = (f = "catchAll")
  <2>1. Connected(f) \in BOOLEAN /\ (f = "catchAll") \in BOOLEAN
    BY DEF Connected
  <2> QED BY <2>1
<1> DEFINE x == [q EXCEPT !.connect = m, !.catchAll = n]
<1>6. x \in AnyResult /\ (x.catchAll <=> n)
  BY DEF AnyResult
<1>7. PICK y \in AnyResult : y = r(f) /\ (y.catchAll <=> f = "catchAll")
  BY <1>3, <1>5, <1>6
<1>8. /\ heard' \in [Addresses -> SUBSET {"accepted", "vouched", "catchAll"}]
      /\ heard[a] \subseteq heard'[a]
      /\ \A b \in Addresses \ {a} : heard'[b] = heard[b]
      /\ TakesAll(a)' <=> f = "catchAll"
      /\ f = "accepted" => Vouched(a)'
  BY <1>1, <1>2, <1>4, HearsFacts, TalkFacts
<1> HIDE DEF r
<1> HIDE DEF x
<1>9. ASSUME NEW w \in Reaches, NEW n1 \in Int, Returns(a, [y EXCEPT !.reach = w, !.score = n1]),
             w = "safe" => f = "accepted"
      PROVE  VerificationInv'
  <2> DEFINE z == [y EXCEPT !.reach = w, !.score = n1]
  <2>1. z \in AnyResult /\ z.reach = w /\ (z.catchAll <=> f = "catchAll")
    BY <1>7 DEF AnyResult
  <2>2. Returns(a, z)
    BY <1>9
  <2> HIDE DEF z
  <2>3. check[a].pc \in {"talk", "reacher"}
    BY <1>1, <1>2
  <2> QED BY <1>2, <1>8, <1>9, <2>1, <2>2, <2>3, ReturnSound
<1>10. PICK safe \in Reaches, risky \in Reaches, invalid \in Reaches :
          safe = "safe" /\ risky = "risky" /\ invalid = "invalid"
  BY DEF Reaches
<1>11. PICK n0 \in Int, n50 \in Int, n100 \in Int : n0 = 0 /\ n50 = 50 /\ n100 = 100
  OBVIOUS
<1>12. CASE /\ Passes(f)
            /\ Returns(a, IF f = "catchAll" THEN [r(f) EXCEPT !.reach = "risky", !.score = 50]
                          ELSE [r(f) EXCEPT !.reach = "safe", !.score = 0])
  <2>1. CASE f = "catchAll"
    <3>1. Returns(a, [y EXCEPT !.reach = risky, !.score = n50])
      BY <1>7, <1>10, <1>11, <1>12, <2>1
    <3> QED BY <1>9, <1>10, <3>1
  <2>2. CASE f # "catchAll"
    <3>1. Returns(a, [y EXCEPT !.reach = safe, !.score = n0])
      BY <1>7, <1>10, <1>11, <1>12, <2>2
    <3>2. f = "accepted"
      BY <1>12, <2>2 DEF Passes
    <3> QED BY <1>9, <1>10, <3>1, <3>2
  <2> QED BY <2>1, <2>2
<1>13. CASE Returns(a, [r(f) EXCEPT !.reach = "invalid", !.score = 100])
  <2>1. Returns(a, [y EXCEPT !.reach = invalid, !.score = n100])
    BY <1>7, <1>10, <1>11, <1>13
  <2> QED BY <1>9, <1>10, <2>1
<1>14. CASE ~Passes(f) /\ Continues(a, [c EXCEPT !.way = c.way + 1, !.res = r(f)])
  <2>0. PICK w \in Nat : w = c.way + 1
    BY <1>2
  <2> DEFINE next == [c EXCEPT !.way = w, !.res = y]
  <2>1. next \in AnyCheck /\ next.pc = "talk" /\ next.call = c.call /\ next.kept = c.kept
    BY <1>2 DEF AnyCheck
  <2>2. Continues(a, next)
    BY <1>7, <1>14, <2>0
  <2>3. ~TakesAll(a)'
    BY <1>8, <1>14 DEF Passes
  <2>4. next.call = "second" /\ next.kept.reach = "safe" => Vouched(a)
    BY <1>1, <1>2, <2>1, TalkFacts
  <2>5. check[a].pc # "done" /\ ~contact[a].valid
    BY <1>1, <1>2, TalkFacts
  <2> HIDE DEF next
  <2> QED BY <1>2, <1>8, <2>1, <2>2, <2>3, <2>4, <2>5, ProgressSound
<1> QED BY <1>4, <1>12, <1>13, <1>14

\* A result that is not safe, when nothing new has been heard.
LEMMA ForgoesSound ==
    ASSUME VerificationInv, NEW a \in Addresses, check[a].pc \in {"talk", "reacher"},
           NEW r \in AnyResult, r.reach # "safe", Returns(a, r), UNCHANGED <<heard, contact>>
    PROVE  VerificationInv'
<1>1. /\ heard' \in [Addresses -> SUBSET {"accepted", "vouched", "catchAll"}]
      /\ \A b \in Addresses : heard'[b] = heard[b]
  BY DEF VerificationInv
<1>2. ~TakesAll(a)'
  BY <1>1, TalkFacts DEF TakesAll
<1> QED BY <1>1, <1>2, ReturnSound

\* A verification that turns to the other service, when nothing new has been heard.
LEMMA TurnsSound ==
    ASSUME VerificationInv, NEW a \in Addresses, check[a].pc \in {"talk", "reacher"},
           NEW next \in AnyCheck, Continues(a, next), UNCHANGED <<heard, contact>>,
           next.pc \in {"talk", "reacher"}, next.call = check[a].call, next.kept = check[a].kept
    PROVE  VerificationInv'
<1>1. /\ heard' \in [Addresses -> SUBSET {"accepted", "vouched", "catchAll"}]
      /\ \A b \in Addresses : heard'[b] = heard[b]
  BY DEF VerificationInv
<1>2. ~TakesAll(a)'
  BY <1>1, TalkFacts DEF TakesAll
<1> QED BY <1>1, <1>2, TalkFacts, ProgressSound

LEMMA GiveUpSound ==
    ASSUME VerificationInv, NEW a \in Addresses, GiveUp(a) PROVE VerificationInv'
<1>1. PICK c \in AnyCheck : c = check[a]
  BY DEF VerificationInv
<1>2. c.pc = "talk" /\ c.res \in AnyResult /\ UNCHANGED <<heard, contact>>
  BY <1>1, TalkFacts DEF GiveUp, At
<1>3. PICK w \in Reaches, n \in Int, q \in AnyResult : w = "unknown" /\ n = 50 /\ q = c.res
  <2>1. "unknown" \in Reaches /\ 50 \in Int
    BY DEF Reaches
  <2> QED BY <1>2, <2>1
<1> DEFINE r == [q EXCEPT !.reach = w, !.score = n]
           next == [c EXCEPT !.pc = "reacher"]
<1>4. r \in AnyResult /\ r.reach = w
  BY DEF AnyResult
<1>5. next \in AnyCheck /\ next.pc = "reacher" /\ next.call = c.call /\ next.kept = c.kept
  BY DEF AnyCheck
<1>6. Continues(a, next) \/ Returns(a, r)
  BY <1>1, <1>3 DEF GiveUp
<1> HIDE DEF r, next
<1>7. CASE Continues(a, next)
  BY <1>1, <1>2, <1>5, <1>7, TurnsSound
<1>8. CASE Returns(a, r)
  BY <1>1, <1>2, <1>3, <1>4, <1>8, ForgoesSound
<1> QED BY <1>6, <1>7, <1>8

LEMMA AnswerSound ==
    ASSUME VerificationInv, NEW a \in Addresses, ReacherAnswers(a) PROVE VerificationInv'
<1>1. check[a].pc \in {"talk", "reacher"} /\ UNCHANGED contact
  BY DEF ReacherAnswers, At
<1>2. PICK o \in Answers :
        /\ Sensible(o)
        /\ Hears(a, IF o.catchAll THEN "catchAll" ELSE IF o.reach = "safe" THEN "vouched" ELSE "other")
        /\ Returns(a, Mapped(a, o))
  BY DEF ReacherAnswers
<1>3. PICK r \in AnyResult : r = Mapped(a, o) /\ r.reach = o.reach /\ r.catchAll = o.catchAll
                           /\ (r.reach = "safe" => ~r.catchAll)
  BY <1>2, MappedSound
<1>4. PICK what : what = IF o.catchAll THEN "catchAll" ELSE IF o.reach = "safe" THEN "vouched" ELSE "other"
  OBVIOUS
<1>5. /\ heard' \in [Addresses -> SUBSET {"accepted", "vouched", "catchAll"}]
      /\ heard[a] \subseteq heard'[a]
      /\ \A b \in Addresses \ {a} : heard'[b] = heard[b]
      /\ TakesAll(a)' <=> what = "catchAll"
      /\ what = "vouched" => Vouched(a)'
  BY <1>1, <1>2, <1>4, HearsFacts, TalkFacts
<1>6. r.reach = "safe" => Vouched(a)' /\ ~r.catchAll
  BY <1>3, <1>4, <1>5
<1>7. TakesAll(a)' => r.catchAll
  BY <1>3, <1>4, <1>5
<1> QED BY <1>1, <1>2, <1>3, <1>5, <1>6, <1>7, ReturnSound

LEMMA SilenceSound ==
    ASSUME VerificationInv, NEW a \in Addresses, ReacherFails(a) \/ ReacherUnreadable(a)
    PROVE  VerificationInv'
<1>1. PICK c \in AnyCheck : c = check[a]
  BY DEF VerificationInv
<1>2. c.pc = "reacher" /\ c.res \in AnyResult /\ UNCHANGED <<heard, contact>>
  BY <1>1, TalkFacts DEF ReacherFails, ReacherUnreadable, At
<1>3. PICK w \in Reaches, q \in AnyResult : w = "unknown" /\ q = c.res
  <2>1. "unknown" \in Reaches
    BY DEF Reaches
  <2> QED BY <1>2, <2>1
<1> DEFINE r == [q EXCEPT !.reach = w]
           next == [c EXCEPT !.pc = "talk", !.way = 1]
<1>4. r \in AnyResult /\ r.reach = w
  BY DEF AnyResult
<1>5. next \in AnyCheck /\ next.pc = "talk" /\ next.call = c.call /\ next.kept = c.kept
  BY DEF AnyCheck
<1>6. Continues(a, next) \/ Returns(a, r)
  BY <1>1, <1>3 DEF ReacherFails, ReacherUnreadable
<1> HIDE DEF r, next
<1>7. CASE Continues(a, next)
  BY <1>1, <1>2, <1>5, <1>7, TurnsSound
<1>8. CASE Returns(a, r)
  BY <1>1, <1>2, <1>3, <1>4, <1>8, ForgoesSound
<1> QED BY <1>6, <1>7, <1>8

LEMMA LeaveSound ==
    ASSUME VerificationInv, NEW a \in Addresses, Leave(a) PROVE VerificationInv'
<1>1. PICK c \in AnyCheck : c = check[a] /\ c.pc = "done"
  BY DEF VerificationInv, Leave, At
<1>2. PICK none \in AnyResult : none = NoResult
  <2>1. NoResult \in AnyResult
    BY DEF NoResult, AnyResult, Reaches
  <2> QED BY <2>1
<1>3. PICK ready \in AnyCheck : ready = Ready
  <2>1. Ready \in AnyCheck
    BY <1>2 DEF Ready, AnyCheck
  <2> QED BY <2>1
<1> DEFINE next == [ready EXCEPT !.pc = "left"]
<1>4. next \in AnyCheck /\ next.pc = "left"
  BY DEF AnyCheck
<1>5. Continues(a, next) /\ UNCHANGED heard
  BY <1>3 DEF Leave
<1> HIDE DEF next
<1>6. /\ check' \in [Addresses -> AnyCheck] /\ check'[a].pc = "left"
      /\ \A b \in Addresses \ {a} : check'[b] = check[b]
  BY <1>4, <1>5 DEF VerificationInv, Continues
<1>7. PICK saved \in [valid : BOOLEAN, score : Int] :
        /\ saved.valid <=> c.res.reach = "safe"
        /\ contact' = contact \/ contact' = [contact EXCEPT ![a] = saved]
  <2>1. PICK m \in BOOLEAN, n \in Int : (m <=> c.res.reach = "safe") /\ n = c.res.score
    BY DEF AnyCheck, AnyResult
  <2>2. PICK v : v = [valid |-> m, score |-> n]
    OBVIOUS
  <2>3. v \in [valid : BOOLEAN, score : Int] /\ (v.valid <=> m)
    BY <2>2
  <2>4. contact' = contact \/ contact' = [contact EXCEPT ![a] = [valid |-> c.res.reach = "safe", score |-> c.res.score]]
    BY <1>1 DEF Leave
  <2>5. [valid |-> c.res.reach = "safe", score |-> c.res.score] = v
    BY <2>1, <2>2
  <2> QED BY <2>1, <2>3, <2>4, <2>5
<1>8. /\ contact' \in [Addresses -> [valid : BOOLEAN, score : Int]]
      /\ contact'[a] \in {contact[a], saved}
      /\ \A b \in Addresses \ {a} : contact'[b] = contact[b]
  BY <1>7 DEF VerificationInv
<1>9. CheckSound(a)'
  <2>1. ~contact[a].valid /\ (c.res.reach = "safe" => Vouched(a) /\ ~TakesAll(a))
    BY <1>1 DEF VerificationInv, CheckSound
  <2> QED BY <1>5, <1>6, <1>7, <1>8, <2>1 DEF CheckSound, Vouched, TakesAll
<1>10. \A b \in Addresses \ {a} : CheckSound(b)'
  BY <1>5, <1>6, <1>8 DEF VerificationInv, CheckSound, Vouched, TakesAll
<1>11. heard' \in [Addresses -> SUBSET {"accepted", "vouched", "catchAll"}]
  BY <1>5 DEF VerificationInv
<1> QED BY <1>6, <1>8, <1>9, <1>10, <1>11 DEF VerificationInv

(***************************************************************************)
(* For any number of addresses, ways, answers and failures of either       *)
(* service, an address is called safe, and a contact valid, only when it   *)
(* was accepted or vouched for and nobody has said that the domain takes   *)
(* everything (verifier.go).                                               *)
(***************************************************************************)
THEOREM SafeAlwaysAccepted == VerificationSpec => []SafeMeansAccepted
<1>1. VerificationInv /\ [VerificationNext]_verificationVars => VerificationInv'
  <2> SUFFICES ASSUME VerificationInv, [VerificationNext]_verificationVars PROVE VerificationInv'
    OBVIOUS
  <2>1. CASE UNCHANGED verificationVars
    BY <2>1 DEF verificationVars, VerificationInv, CheckSound, Vouched, TakesAll
  <2>2. CASE VerificationNext
    BY <2>2, BeginsSound, AttemptSound, GiveUpSound, AnswerSound, SilenceSound, LeaveSound
       DEF VerificationNext, VerificationStep
  <2> QED BY <2>1, <2>2
<1>2. VerificationInv => SafeMeansAccepted
  BY DEF VerificationInv, CheckSound, SafeMeansAccepted, Vouched, TakesAll
<1> QED BY <1>1, <1>2, VerificationInvInit, PTL DEF VerificationSpec
=============================================================================
