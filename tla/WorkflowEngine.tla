--------------------------- MODULE WorkflowEngine ---------------------------
(***************************************************************************)
(* Workflows that a POST sets running: the cached answer to "does anything *)
(* listen?", the choice of a workflow, its nodes put in order, and their   *)
(* execution on the caller's thread (a record that names its workflow) or  *)
(* on a thread of its own.                                                 *)
(*                                                                         *)
(* Every POST fires the event "created"; a workflow's trigger is that or   *)
(* another one.  The nodes of the workflows are those of one drawing that  *)
(* an editor may redraw while it is being read; a node's key is its type.  *)
(***************************************************************************)
EXTENDS Integers, Sequences, FiniteSets, SequencesExt

CONSTANTS WProcs,       \* requests in flight
          Flows,        \* rows of Workflow
          WTenants,
          FileEvents,   \* tenants whose event is in the configuration file
          MaxT, TTL, MaxAsk,   \* the clock, kTenantEventsTtl, the longest hasEvent
          MaxPosts, MaxEdits,  \* bounds on records posted and on edits
          MaxNodes,     \* nodes, and edges, of a sample
          WFails        \* calls of the client may fail

(* "none" is no workflow; kTenantEventsTtl is positive.                    *)
ASSUME WorkflowAssumption ==
    /\ MaxT \in Nat /\ TTL \in Nat \ {0} /\ MaxAsk \in Nat /\ MaxNodes \in Nat
    /\ "none" \notin Flows /\ WFails \in BOOLEAN

(* The steps the engine registers that call the client.  "mystery" is a    *)
(* type nobody registered.                                                 *)
ClientSteps == {"create", "get", "list", "update", "delete", "count"}

VARIABLES flows,    \* the Workflow rows
          drawing,  \* nodes, edges and the stop node's relation
          wcache,   \* tenant_events_ and tenants_with_workflows_
          wclock,
          posts,    \* the requests
          wruns,    \* the workflow run each of them started
          posted, edited,
          sample,   \* a drawing on its own, of any shape
          since     \* per workflow: published since when, MaxT + 1 for a draft

wfVars == <<flows, drawing, wcache, wclock, posts, wruns, posted, edited, sample, since>>

NoRun == [pc |-> "none", flow |-> "none", nodes |-> <<>>, edges |-> <<>>, at |-> 1, ran |-> {},
          effects |-> <<>>, named |-> FALSE]
NoPost == [pc |-> "idle", tenant |-> "none", form |-> "", named |-> "", asked |-> 0,
           found |-> {}, failed |-> FALSE, heard |-> FALSE, reply |-> "none", effects |-> <<>>, written |-> FALSE,
           value |-> "", seen |-> {}]

Published == {f \in Flows : flows[f].published}
FlowRows == [tenant : WTenants, trigger : {"created", "other"}, form : {"", "x"}, published : BOOLEAN]
Drawings ==
    {[keys |-> <<"stop", "page", "create">>, edges |-> << <<"create", "page">> >>, is |-> "not empty"],
     [keys |-> <<"page", "create">>, edges |-> << <<"page", "create">>, <<"create", "page">> >>,
      is |-> "not empty"],
     [keys |-> <<"mystery", "stop", "page">>, edges |-> <<>>, is |-> "sounds like"]}

(* Sequences of node keys, repeated ones too and new ones numbered as they *)
(* come, and of edges, some of which name a node that is not there.        *)
Samples ==
    [keys : {s \in UNION {[1..n -> 1..MaxNodes] : n \in 0..MaxNodes} :
                \A i \in DOMAIN s : s[i] = 1 \/ \E j \in 1..(i - 1) : s[j] >= s[i] - 1},
     edges : UNION {[1..n -> (1..MaxNodes) \X (1..MaxNodes + 1)] : n \in 0..MaxNodes}]

InitWorkflow ==
    /\ sample \in Samples
    /\ flows \in [Flows -> {r \in FlowRows : r.tenant \notin FileEvents}]
    /\ drawing \in Drawings
    /\ wcache = [loaded |-> FALSE, at |-> 0, events |-> {}, tenants |-> {}, failed |-> FALSE]
    /\ wclock = 0
    /\ posts = [p \in WProcs |-> NoPost]
    /\ wruns = [p \in WProcs |-> NoRun]
    /\ posted = 0 /\ edited = 0
    /\ since = [f \in Flows |-> IF flows[f].published THEN 0 ELSE MaxT + 1]

(***************************************************************************)
(* The order of the nodes                                                  *)
(***************************************************************************)
Known(keys, e) == {e[1], e[2]} \subseteq ToSet(keys)

(* The known edges into a node.                                            *)
Into(keys, edges, k) == {i \in DOMAIN edges : Known(keys, edges[i]) /\ edges[i][2] = k}

(* `ordered` and `ready` are one queue, told apart by how many were taken. *)
Sorts(keys) == [seeded : Nat, queue : Seq(ToSet(keys)), taken : Nat, at : Nat, indegree : [ToSet(keys) -> Int]]

Unsorted(keys, edges) ==
    [seeded |-> 0, queue |-> <<>>, taken |-> 0, at |-> 1,
     indegree |-> [k \in ToSet(keys) |-> Cardinality(Into(keys, edges, k))]]

(* A key that no edge leads to is ready.                                   *)
SeedKey(keys, s) ==
    LET key == keys[s.seeded + 1] IN
    [seeded |-> s.seeded + 1, taken |-> s.taken, at |-> s.at, indegree |-> s.indegree,
     queue |-> IF s.indegree[key] = 0 THEN Append(s.queue, key) ELSE s.queue]

(* An edge of the node in front: its target waits for one less, and is     *)
(* ready when it waits for none.                                           *)
FollowEdge(edges, s) ==
    LET next == edges[s.at][2] IN
    [seeded |-> s.seeded, taken |-> s.taken, at |-> s.at + 1,
     indegree |-> [s.indegree EXCEPT ![next] = @ - 1],
     queue |-> IF s.indegree[next] = 1 THEN Append(s.queue, next) ELSE s.queue]

(* The edge of another node, and the next node in front.                   *)
PassEdge(s) == [seeded |-> s.seeded, taken |-> s.taken, at |-> s.at + 1, indegree |-> s.indegree, queue |-> s.queue]
TakeNode(s) == [seeded |-> s.seeded, taken |-> s.taken + 1, at |-> 1, indegree |-> s.indegree, queue |-> s.queue]

(* One turn of the loops, over the keys, the ready nodes and their edges.  *)
After(keys, edges, s) ==
    CASE s.seeded < Len(keys) -> SeedKey(keys, s)
      [] s.seeded >= Len(keys) /\ s.taken >= Len(s.queue) -> s
      [] s.seeded >= Len(keys) /\ s.taken < Len(s.queue) ->
            IF s.at > Len(edges) THEN TakeNode(s)
            ELSE IF Known(keys, edges[s.at]) /\ edges[s.at][1] = s.queue[s.taken + 1]
            THEN FollowEdge(edges, s)
            ELSE PassEdge(s)

Turn(keys, edges) == [s \in Sorts(keys) |-> After(keys, edges, s)]

Sorting(keys, edges) ==
    LET turn[n \in Nat] == IF n = 0 THEN Unsorted(keys, edges) ELSE Turn(keys, edges)[turn[n - 1]]
    IN turn

(* A turn for every key, and for every node one for each edge and one more *)
(* to take it.                                                             *)
Turns(keys, edges) == Len(keys) + Len(keys) * (Len(edges) + 1)

(* The given order when the sort does not place every node.                *)
topologicalOrder(keys, edges) ==
    LET ordered == Sorting(keys, edges)[Turns(keys, edges)].queue
    IN IF Len(ordered) # Len(keys) THEN keys ELSE ordered

(***************************************************************************)
(* hasEvent                                                                *)
(***************************************************************************)
Post(p, r) == posts' = [posts EXCEPT ![p] = r]
Run(p, r) == wruns' = [wruns EXCEPT ![p] = r]

(* Wrong: an answer that was loaded once is trusted for ever.              *)
FreshForEver(now) == wcache.loaded

Fresh(now) == wcache.loaded /\ now - wcache.at < TTL

(* POST: hasEvent is asked before the record is written, and again by      *)
(* dispatchAsync.  An event of the file needs no cache.                    *)
ask(p, r) ==
    Post(p, [r EXCEPT !.asked = wclock,
                      !.pc = IF Fresh(wclock) THEN "answer" ELSE "list"])

PostRecord(p, tenant, form, named, value) ==
    /\ posts[p].pc = "idle" /\ wruns[p].pc = "none" /\ posted < MaxPosts
    /\ posted' = posted + 1
    /\ LET r == [NoPost EXCEPT !.tenant = tenant, !.form = form, !.named = named, !.value = value,
                               !.seen = Published]
       IN IF tenant \in FileEvents THEN Post(p, [r EXCEPT !.pc = "write", !.heard = TRUE]) ELSE ask(p, r)
    /\ UNCHANGED <<sample, flows, drawing, wcache, wclock, wruns, edited, since>>

(* refreshTenantEvents, outside the lock: the list call.                   *)
ListTriggers(p) ==
    /\ posts[p].pc = "list"
    /\ \/ Post(p, [posts[p] EXCEPT !.pc = "store", !.found = Published])
       \/ WFails /\ Post(p, [posts[p] EXCEPT !.pc = "store", !.found = {}, !.failed = TRUE])
    /\ UNCHANGED <<sample, flows, drawing, wcache, wclock, wruns, posted, edited, since>>

(* Under the lock: whatever was found is the cache for the next TTL.       *)
StoreTriggers(p) ==
    /\ posts[p].pc = "store"
    /\ LET found == posts[p].found IN
       wcache' = [loaded |-> TRUE, at |-> wclock, failed |-> posts[p].failed,
                  events |-> {flows[f].tenant : f \in {g \in found : flows[g].trigger = "created"}},
                  tenants |-> {flows[f].tenant : f \in found}]
    /\ Post(p, [posts[p] EXCEPT !.pc = "answer", !.found = {}, !.failed = FALSE])
    /\ UNCHANGED <<sample, flows, drawing, wclock, wruns, posted, edited, since>>

Listens(tenant) == tenant \in wcache.events \/ tenant \in wcache.tenants

(* Before the write a TRUE wraps the reply, a FALSE does not; after it a   *)
(* TRUE starts the thread.  "written" tells the two apart.                 *)
AnswerBefore(p) ==
    /\ posts[p].pc = "answer" /\ ~posts[p].written
    /\ Post(p, [posts[p] EXCEPT !.pc = "write", !.asked = 0, !.heard = Listens(posts[p].tenant)])
    /\ UNCHANGED <<sample, flows, drawing, wcache, wclock, wruns, posted, edited, since>>

AnswerAfter(p) ==
    /\ posts[p].pc = "answer" /\ posts[p].written
    /\ Post(p, [posts[p] EXCEPT !.pc = "done", !.asked = 0])
    /\ IF Listens(posts[p].tenant) THEN Run(p, [NoRun EXCEPT !.pc = "choose"])
       ELSE UNCHANGED wruns
    /\ UNCHANGED <<sample, flows, drawing, wcache, wclock, posted, edited, since>>

(***************************************************************************)
(* The write and its reply                                                 *)
(***************************************************************************)
(* The reply of a POST that nothing listens to is sent as it is; the named *)
(* workflow is run before the reply, a subscribed one after it.            *)
WriteRow(p) ==
    /\ posts[p].pc = "write"
    /\ LET r == [posts[p] EXCEPT !.written = TRUE, !.heard = FALSE]
           heard == posts[p].heard
       IN \/ WFails /\ Post(p, [posts[p] EXCEPT !.pc = "done", !.reply = "error"]) /\ UNCHANGED wruns
          \/ ~heard /\ Post(p, [r EXCEPT !.pc = "done", !.reply = "ok"]) /\ UNCHANGED wruns
          \/ /\ heard /\ r.named = "" /\ r.tenant \in FileEvents
             /\ Post(p, [r EXCEPT !.pc = "done", !.reply = "ok"])
             /\ Run(p, [NoRun EXCEPT !.pc = "file"])
          \/ /\ heard /\ r.named = "" /\ r.tenant \notin FileEvents
             /\ ask(p, [r EXCEPT !.reply = "ok"]) /\ UNCHANGED wruns
          \/ /\ heard /\ r.named # ""
             /\ Post(p, [r EXCEPT !.pc = "wait"]) /\ Run(p, [NoRun EXCEPT !.pc = "choose", !.named = TRUE])
    /\ UNCHANGED <<sample, flows, drawing, wcache, wclock, posted, edited, since>>

(***************************************************************************)
(* Loading                                                                 *)
(***************************************************************************)
Of(tenant) == {f \in Flows : flows[f].tenant = tenant /\ flows[f].trigger = "created"}

(* The published workflow for this very form, else one for any form.       *)
bestForForm(rows, form) ==
    LET live == rows \cap Published
        exact == {f \in live : flows[f].form # "" /\ flows[f].form = form}
    IN IF exact # {} THEN exact ELSE {f \in live : flows[f].form = ""}

(* firstPublished of the rows with that id or name.                        *)
namedWorkflow(tenant, named) == {f \in Of(tenant) \cap Published : f = named}

(* A run that ends hands its effects to the waiting request; what it threw *)
(* is logged.                                                              *)
Ends(p, effects) ==
    /\ Run(p, NoRun)
    /\ IF wruns[p].named
       THEN Post(p, [posts[p] EXCEPT !.pc = "done", !.reply = "ok", !.effects = effects])
       ELSE UNCHANGED posts

Fails(p) == Ends(p, <<>>)

(* loadTenantWorkflow and loadTenantWorkflowNamed; a failed list finds     *)
(* nothing.                                                                *)
ChooseWorkflow(p) ==
    /\ wruns[p].pc = "choose"
    /\ LET rows == IF wruns[p].named THEN namedWorkflow(posts[p].tenant, posts[p].named)
                   ELSE bestForForm(Of(posts[p].tenant), posts[p].form)
       IN \/ (rows = {} \/ WFails) /\ Ends(p, <<>>)
          \/ \E f \in rows : Run(p, [wruns[p] EXCEPT !.pc = "nodes", !.flow = f]) /\ UNCHANGED posts
    /\ UNCHANGED <<sample, flows, drawing, wcache, wclock, posted, edited, since>>

(* loadNodes: the nodes of a file run in the order they have there.        *)
LoadFile(p) ==
    /\ wruns[p].pc = "file"
    /\ \/ Run(p, [wruns[p] EXCEPT !.pc = "step", !.nodes = drawing.keys]) /\ UNCHANGED posts
       \/ WFails /\ Fails(p)
    /\ UNCHANGED <<sample, flows, drawing, wcache, wclock, posted, edited, since>>

(* buildWorkflow: the node rows, then parameters and edges.                *)
ReadNodes(p) ==
    /\ wruns[p].pc = "nodes"
    /\ \/ Run(p, [wruns[p] EXCEPT !.pc = "edges", !.nodes = drawing.keys]) /\ UNCHANGED posts
       \/ WFails /\ Ends(p, <<>>)
    /\ UNCHANGED <<sample, flows, drawing, wcache, wclock, posted, edited, since>>

(* Edge rows that cannot be read are no edges.                             *)
ReadEdges(p) ==
    /\ wruns[p].pc = "edges"
    /\ \E edges \in {drawing.edges} \cup IF WFails THEN {<<>>} ELSE {} :
          Run(p, [wruns[p] EXCEPT !.pc = "step", !.nodes = topologicalOrder(@, edges), !.edges = edges])
    /\ UNCHANGED <<sample, flows, drawing, wcache, wclock, posts, posted, edited, since>>

(***************************************************************************)
(* Execution                                                               *)
(***************************************************************************)
compareHolds(is, value, other) ==
    CASE is = "empty" -> value = ""
      [] is = "not empty" -> value # ""
      [] is = "equals" -> value = other
      [] is = "does not equal" -> value # other
      [] OTHER -> FALSE

Next1(r, effects) == [r EXCEPT !.at = @ + 1, !.ran = @ \cup {r.nodes[r.at]}, !.effects = effects]

(* A step that throws ends the run.                                        *)
StepThrows(p) == Fails(p)

(* executeNodes: an unknown type is skipped, a stop ends the run with what *)
(* it has, a step writes or records an effect.                             *)
ExecuteStep(p) ==
    /\ wruns[p].pc = "step" /\ wruns[p].at <= Len(wruns[p].nodes)
    /\ LET r == wruns[p]
           type == r.nodes[r.at]
           go(effects) == Run(p, Next1(r, effects)) /\ UNCHANGED posts
       IN CASE type = "page" -> go(Append(r.effects, "page"))
            [] type \in ClientSteps -> go(r.effects) \/ (WFails /\ StepThrows(p))
            [] type = "stop" -> IF compareHolds(drawing.is, posts[p].value, "x") THEN go(r.effects)
                                ELSE Ends(p, r.effects)
            [] OTHER -> go(r.effects)
    /\ UNCHANGED <<sample, flows, drawing, wcache, wclock, posted, edited, since>>

FinishRun(p) ==
    /\ wruns[p].pc = "step" /\ wruns[p].at > Len(wruns[p].nodes)
    /\ Ends(p, wruns[p].effects)
    /\ UNCHANGED <<sample, flows, drawing, wcache, wclock, posted, edited, since>>

FinishPost(p) ==
    /\ posts[p].pc = "done" /\ wruns[p].pc = "none"
    /\ Post(p, NoPost)
    /\ UNCHANGED <<sample, flows, drawing, wcache, wclock, wruns, posted, edited, since>>

(***************************************************************************)
(* The editor and the clock                                                *)
(***************************************************************************)
Publish(f) ==
    /\ edited < MaxEdits /\ ~flows[f].published
    /\ flows' = [flows EXCEPT ![f].published = TRUE]
    /\ since' = [since EXCEPT ![f] = wclock]
    /\ posts' = [p \in WProcs |-> [posts[p] EXCEPT !.seen = IF posts[p].pc = "idle" THEN {} ELSE @ \cup {f}]]
    /\ edited' = edited + 1
    /\ UNCHANGED <<sample, drawing, wcache, wclock, wruns, posted>>

Unpublish(f) ==
    /\ edited < MaxEdits /\ flows[f].published
    /\ flows' = [flows EXCEPT ![f].published = FALSE]
    /\ since' = [since EXCEPT ![f] = MaxT + 1]
    /\ edited' = edited + 1
    /\ UNCHANGED <<sample, drawing, wcache, wclock, posts, wruns, posted>>

Redraw(edges) ==
    /\ edited < MaxEdits /\ drawing.edges # edges
    /\ drawing' = [drawing EXCEPT !.edges = edges]
    /\ edited' = edited + 1
    /\ UNCHANGED <<sample, flows, wcache, wclock, posts, wruns, posted, since>>

Asking(p) == posts[p].pc \in {"list", "store", "answer"}

(* Nothing in a run reads the clock, so it stands still meanwhile.         *)
TickWf ==
    /\ wclock < MaxT /\ \A p \in WProcs : wruns[p].pc = "none"
    /\ \A p \in WProcs : Asking(p) => wclock < posts[p].asked + MaxAsk
    /\ wclock' = wclock + 1
    /\ UNCHANGED <<sample, flows, drawing, wcache, posts, wruns, posted, edited, since>>

PostStep(p) ==
    \/ ListTriggers(p) \/ StoreTriggers(p) \/ AnswerBefore(p) \/ AnswerAfter(p) \/ WriteRow(p)
    \/ FinishPost(p)
RunStep(p) == ChooseWorkflow(p) \/ LoadFile(p) \/ ReadNodes(p) \/ ReadEdges(p) \/ ExecuteStep(p) \/ FinishRun(p)

NextWorkflow ==
    \/ \E p \in WProcs : PostStep(p) \/ RunStep(p)
    \/ \E p \in WProcs, t \in WTenants, n \in {""} \cup Flows, v \in {"", "x"} : PostRecord(p, t, v, n, v)
    \/ \E f \in Flows : Publish(f) \/ Unpublish(f)
    \/ Redraw(<< <<"create", "page">> >>)
    \/ TickWf

(* Handlers and detached threads are threads: each goes on.                *)
FairWorkflow ==
    \A p \in WProcs :
        /\ WF_wfVars(posts[p].pc # "idle" /\ PostStep(p))
        /\ WF_wfVars(wruns[p].pc # "none" /\ RunStep(p))

SpecWorkflow == InitWorkflow /\ [][NextWorkflow]_wfVars /\ FairWorkflow

-----------------------------------------------------------------------------
(* The state is well formed.                                               *)
TypeOKWorkflow ==
    /\ \A f \in Flows : flows[f].published <=> since[f] <= wclock
    /\ wcache.events \subseteq wcache.tenants
    /\ \A p \in WProcs : posts[p].pc = "wait" <=> wruns[p].pc # "none" /\ wruns[p].named

Distinct(keys) == \A i, j \in DOMAIN keys : keys[i] = keys[j] => i = j

(* Some nodes all wait for one another: each has an edge from one of them. *)
Cyclic(keys, edges) ==
    \E W \in (SUBSET ToSet(keys)) \ {{}} : \A k \in W : \E j \in W : \E i \in DOMAIN edges : edges[i] = <<j, k>>

(* A rearrangement of the keys, which, where the keys are distinct, has    *)
(* every node behind the ones its edges come from, or is the given order.  *)
SoundOrder(keys, edges, order) ==
    /\ Len(order) = Len(keys)
    /\ \E place \in [DOMAIN order -> DOMAIN keys] :
          \A i \in DOMAIN order :
             order[i] = keys[place[i]] /\ \A j \in DOMAIN order : place[i] = place[j] => i = j
    /\ Distinct(keys) =>
          IF Cyclic(keys, edges) THEN order = keys
          ELSE \A i, j \in DOMAIN order :
                  (\E e \in DOMAIN edges : edges[e] = <<order[i], order[j]>>) => i < j

(* The order is a rearrangement of the keys.  Where the keys are distinct  *)
(* it follows every edge if it can: without a cycle among known nodes.     *)
OrderIsSound == SoundOrder(sample.keys, sample.edges, topologicalOrder(sample.keys, sample.edges))

(* hasEvent misses a published workflow only if it was published within    *)
(* the cache's life and two calls of hasEvent (the one that filled the     *)
(* cache and this one), or the refresh behind the cache failed.            *)
MissesAreRecent ==
    [][\A p \in WProcs :
          posts[p].pc = "answer" /\ posts'[p].pc # "answer" /\ ~Listens(posts[p].tenant) /\ ~wcache.failed =>
             \A f \in Published : flows[f].tenant = posts[p].tenant =>
                since[f] > wclock - TTL - 2 * MaxAsk]_wfVars

(* What runs for a record is a workflow of its tenant that answers to its  *)
(* event, was published at some moment since the request began and, unless *)
(* it was named, is not another form's.                                    *)
RunsWereChosen ==
    \A p \in WProcs : wruns[p].flow \in Flows =>
        LET f == flows[wruns[p].flow] IN
        /\ f.tenant = posts[p].tenant /\ f.trigger = "created" /\ wruns[p].flow \in posts[p].seen
        /\ ~wruns[p].named => f.form \in {"", posts[p].form}

(* With an acyclic drawing a node runs only after the ones its edges come  *)
(* from have run, whatever failed before it.                               *)
PredecessorsRanFirst ==
    \A p \in WProcs :
        LET r == wruns[p] IN
        \A e \in ToSet(r.edges) :
           e[1] \in ToSet(r.nodes) /\ e[2] \in r.ran => e[1] \in r.ran \/ Cyclic(r.nodes, r.edges)

(* A record that was written is answered with success: a workflow that     *)
(* fails never turns it into an error.                                     *)
SubmissionsSucceed == \A p \in WProcs : posts[p].written => posts[p].reply # "error"

(* Effects come back only from a run that reached its end or a stop, never *)
(* from one that threw.                                                    *)
EffectsAreOfWholeRuns ==
    [][\A p \in WProcs : posts'[p].effects # posts[p].effects /\ posts'[p].effects # <<>> =>
          \/ wruns[p].at > Len(wruns[p].nodes)
          \/ wruns[p].nodes[wruns[p].at] = "stop"]_wfVars

(* Every request is answered and every run ends.                           *)
PostsAndRunsEnd ==
    \A p \in WProcs : posts[p].pc # "idle" ~> posts[p].pc = "idle"

(* The workflow engine under posts and an editor: a published workflow is  *)
(* missed only for the life of the cache and two lookups, what runs is of  *)
(* the record's tenant, event and form, its nodes run after the ones their *)
(* edges come from, effects come only from runs that did not throw, and a  *)
(* record that was written is answered with success whatever becomes of    *)
(* its run.                                                                *)
RunsAreSound ==
    /\ [](/\ TypeOKWorkflow
          /\ OrderIsSound
          /\ RunsWereChosen
          /\ PredecessorsRanFirst
          /\ SubmissionsSucceed)
    /\ MissesAreRecent
    /\ EffectsAreOfWholeRuns
=============================================================================
