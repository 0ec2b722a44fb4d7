---------------------------- MODULE EntityStore ----------------------------
(***************************************************************************)
(* The typed operations of Client that work on the process-wide            *)
(* InMemoryStore: pages and workflows with their unique names, installed   *)
(* packages with their batches, and the component trees of pages.  Each    *)
(* call is one step: the store has no lock and its callers are sequential. *)
(*                                                                         *)
(* Ids are the counters they are made from.  Of a record only what other   *)
(* state refers to is kept; a list of ids that is only searched, sorted    *)
(* and erased from is the number of times each id is in it.  Names, orders *)
(* and versions the validators refuse are the values Bad and BadNumber.    *)
(***************************************************************************)
EXTENDS Naturals

CONSTANTS Names,      \* page paths, workflow names and package ids
          MaxNamed,   \* bound on pages and on workflows created
          MaxComps,   \* bound on components created
          EUsers      \* users created through Client::createUser

NoName == "none"
Bad == "bad"
BadNumber == 9

ASSUME EntityAssumption == MaxNamed \in Nat /\ MaxComps \in Nat /\ {NoName, Bad} \cap Names = {}

None == 0
Kinds == {"page", "workflow"}
NamedIds == 1..MaxNamed
CompIds == 1..MaxComps
Orders == {0, 1}

VARIABLES named,       \* pages and workflows: id -> its path or name
          nameIndex,   \* page_paths and workflow_names
          nameCount,   \* page_counter and workflow_counter
          packs,       \* packages: packageId -> version, and package_keys, which agree on ids
          packKeys,
          comps,       \* components: id -> page, parent and order
          compCount,   \* component_counter
          byPage,      \* components_by_page
          byParent,    \* components_by_parent
          madeUsers,   \* rows of User behind the adapter
          elast        \* the last call and its result

entityVars == <<named, nameIndex, nameCount, packs, packKeys, comps, compCount, byPage, byParent,
                madeUsers, elast>>
namedVars == <<named, nameIndex, nameCount>>
packVars == <<packs, packKeys>>
compVars == <<comps, compCount, byPage, byParent>>

NoneListed == [c \in CompIds |-> 0]
NoComp == [page |-> None, parent |-> None, order |-> 0]
Answers(op, ok) == elast' = [op |-> op, ok |-> ok]

InitEntities ==
    /\ named = [k \in Kinds |-> [i \in NamedIds |-> NoName]]
    /\ nameIndex = [k \in Kinds |-> [n \in Names |-> None]]
    /\ nameCount = [k \in Kinds |-> 0]
    /\ packs = [n \in Names |-> None] /\ packKeys = {}
    /\ comps = [c \in CompIds |-> NoComp] /\ compCount = 0
    /\ byPage = [i \in NamedIds |-> NoneListed] /\ byParent = [c \in CompIds |-> NoneListed]
    /\ madeUsers = {}
    /\ elast = [op |-> "none", ok |-> TRUE]

(***************************************************************************)
(* Pages and workflows                                                     *)
(***************************************************************************)
CreateNamed(kind, n) ==
    LET id == nameCount[kind] + 1
        ok == n # Bad /\ nameIndex[kind][n] = None
    IN
    /\ id <= MaxNamed
    /\ IF ok
       THEN /\ named' = [named EXCEPT ![kind][id] = n]
            /\ nameIndex' = [nameIndex EXCEPT ![kind][n] = id]
            /\ nameCount' = [nameCount EXCEPT ![kind] = id]
       ELSE UNCHANGED namedVars
    /\ Answers("create", ok)
    /\ UNCHANGED <<packVars, compVars, madeUsers>>

CreatePage(n) == CreateNamed("page", n)
CreateWorkflow(n) == CreateNamed("workflow", n)

(* erase(old), then insert(new): the two may be the same name.             *)
Renamed(kind, id, n) ==
    /\ nameIndex' = [nameIndex EXCEPT ![kind] =
          [m \in Names |-> CASE m = n -> id [] m = named[kind][id] /\ m # n -> None [] OTHER -> @[m]]]
    /\ named' = [named EXCEPT ![kind][id] = n]

Rename(kind, id, n, restOk) ==
    LET taken == n # Bad /\ nameIndex[kind][n] \notin {None, id}
        ok == named[kind][id] # NoName /\ n # Bad /\ ~taken
    IN
    /\ IF ok THEN Renamed(kind, id, n) ELSE UNCHANGED <<named, nameIndex>>
    /\ Answers("rename", ok /\ restOk)
    /\ UNCHANGED <<nameCount, packVars, compVars, madeUsers>>

(* The path is applied before the title and the level are checked: restOk  *)
(* is FALSE where they are refused.                                        *)
UpdatePage(id, n, restOk) == Rename("page", id, n, restOk)
UpdateWorkflow(id, n) == Rename("workflow", id, n, TRUE)

RemoveNamed(kind, id) ==
    LET ok == named[kind][id] # NoName IN
    /\ IF ok
       THEN /\ nameIndex' = [nameIndex EXCEPT ![kind][named[kind][id]] = None]
            /\ named' = [named EXCEPT ![kind][id] = NoName]
       ELSE UNCHANGED <<named, nameIndex>>
    /\ Answers("remove", ok)
    /\ UNCHANGED <<nameCount, packVars, compVars, madeUsers>>

(* The components of a page are not touched.                               *)
DeletePage(id) == RemoveNamed("page", id)
DeleteWorkflow(id) == RemoveNamed("workflow", id)

(***************************************************************************)
(* Packages.  A batch is a sequence of two items.                          *)
(***************************************************************************)
Store(keys, rows) == packKeys' = keys /\ packs' = rows
RestUnchanged == UNCHANGED <<namedVars, compVars, madeUsers>>

(* Wrong: a failing batch returns at once.                                 *)
BatchCreateKeeps(first, second) ==
    LET firstOk == first # Bad /\ first \notin packKeys
        secondOk == second # Bad /\ second \notin packKeys \cup {first}
    IN
    /\ IF firstOk
       THEN LET new == IF secondOk THEN {first, second} ELSE {first} IN
            Store(packKeys \cup new, [n \in Names |-> IF n \in new THEN 1 ELSE packs[n]])
       ELSE UNCHANGED packVars
    /\ Answers("batchCreate", firstOk /\ secondOk)
    /\ RestUnchanged

(* A failing item removes those created before it.                         *)
BatchCreate(first, second) ==
    LET firstOk == first # Bad /\ first \notin packKeys
        secondOk == second # Bad /\ second \notin packKeys \cup {first}
    IN
    /\ IF firstOk /\ secondOk
       THEN Store(packKeys \cup {first, second},
                  [n \in Names |-> IF n \in {first, second} THEN 1 ELSE packs[n]])
       ELSE UNCHANGED packVars
    /\ Answers("batchCreate", firstOk /\ secondOk)
    /\ RestUnchanged

(* create: one item.                                                       *)
CreatePackage(n) ==
    LET ok == n # Bad /\ n \notin packKeys IN
    /\ IF ok THEN Store(packKeys \cup {n}, [packs EXCEPT ![n] = 1]) ELSE UNCHANGED packVars
    /\ Answers("createPackage", ok)
    /\ RestUnchanged

(* update: a version that is no semver is refused before anything changes. *)
UpdatePackage(n, version) ==
    LET ok == packs[n] # None /\ version # BadNumber IN
    /\ IF ok THEN Store(packKeys, [packs EXCEPT ![n] = version]) ELSE UNCHANGED packVars
    /\ Answers("updatePackage", ok)
    /\ RestUnchanged

(* Updates stop at the first failure and keep what they did.               *)
BatchUpdate(first, second) ==
    LET hit(n) == packs[n] # None
        done == IF ~hit(first) THEN {} ELSE {first} \cup {n \in {second} : hit(n)}
    IN
    /\ Store(packKeys, [n \in Names |-> IF n \in done THEN 2 ELSE packs[n]])
    /\ Answers("batchUpdate", hit(first) /\ hit(second))
    /\ RestUnchanged

DeletePackage(n) ==
    LET ok == packs[n] # None IN
    /\ IF ok THEN Store(packKeys \ {n}, [packs EXCEPT ![n] = None]) ELSE UNCHANGED packVars
    /\ Answers("deletePackage", ok)
    /\ RestUnchanged

(* Deletions stop at the first failure and keep what they did.             *)
BatchDelete(first, second) ==
    LET hit(n) == packs[n] # None
        ok == hit(first) /\ hit(second) /\ first # second
        gone == IF ~hit(first) THEN {} ELSE {first} \cup {n \in {second} : hit(n)}
    IN
    /\ Store(packKeys \ gone, [n \in Names |-> IF n \in gone THEN None ELSE packs[n]])
    /\ Answers("batchDelete", ok)
    /\ RestUnchanged

(***************************************************************************)
(* Component trees                                                         *)
(***************************************************************************)
Exists(c) == c # None /\ comps[c].page # None
With(list, c) == [list EXCEPT ![c] = @ + 1]
Without(list, gone) == [d \in CompIds |-> IF d \in gone THEN 0 ELSE list[d]]
Children(c) == {d \in CompIds : byParent[c][d] > 0}
UserRest == UNCHANGED <<namedVars, packVars, madeUsers>>

(* The components reached from c by components_by_parent, c included: they *)
(* are in every set with c that the children of its members do not leave.  *)
Subtree(c) ==
    {d \in CompIds : \A S \in SUBSET CompIds :
        c \in S /\ (\A e \in S : Children(e) \subseteq S) => d \in S}

hasDescendant(ancestor, candidate) ==
    \E child \in Children(ancestor) : candidate \in Subtree(child)

CreateComponent(page, parent, order) ==
    LET id == compCount + 1
        ok == /\ order # BadNumber
              /\ named["page"][page] # NoName
              /\ parent # None => Exists(parent) /\ comps[parent].page = page
    IN
    /\ id <= MaxComps
    /\ IF ok
       THEN /\ compCount' = id
            /\ comps' = [comps EXCEPT ![id] = [page |-> page, parent |-> parent, order |-> order]]
            /\ byPage' = [byPage EXCEPT ![page] = With(@, id)]
            /\ byParent' = IF parent = None THEN byParent
                           ELSE [byParent EXCEPT ![parent] = With(@, id)]
       ELSE UNCHANGED compVars
    /\ Answers("createComponent", ok)
    /\ UserRest

(* cascadeDeleteComponent: the children first, each out of both lists.     *)
DeleteComponent(c) ==
    LET gone == Subtree(c) IN
    /\ IF Exists(c)
       THEN /\ comps' = [d \in CompIds |-> IF d \in gone THEN NoComp ELSE comps[d]]
            /\ byPage' = [i \in NamedIds |-> Without(byPage[i], {d \in gone : comps[d].page = i})]
            /\ byParent' = [p \in CompIds |->
                  IF p \in gone THEN NoneListed ELSE Without(byParent[p], {d \in gone : comps[d].parent = p})]
       ELSE UNCHANGED <<comps, byPage, byParent>>
    /\ Answers("deleteComponent", Exists(c))
    /\ UNCHANGED compCount /\ UserRest

(* Both lists of parents, and the component's own field.                   *)
Reparent(c, parent, order) ==
    LET old == comps[c].parent
        left == IF old = None THEN byParent ELSE [byParent EXCEPT ![old] = Without(@, {c})]
    IN
    /\ byParent' = IF parent = None THEN left ELSE [left EXCEPT ![parent] = With(@, c)]
    /\ comps' = [comps EXCEPT ![c].parent = parent, ![c].order = order]

MayAdopt(c, parent) ==
    /\ parent # c /\ Exists(parent) /\ comps[parent].page = comps[c].page
    /\ ~hasDescendant(c, parent)

(* The order is applied before the parent is checked, and stays.           *)
UpdateComponent(c, order, parent) ==
    LET orderOk == Exists(c) /\ order # BadNumber
        ok == orderOk /\ (parent # None => MayAdopt(c, parent))
    IN
    /\ IF ok /\ parent # None THEN Reparent(c, parent, order)
       ELSE IF orderOk THEN comps' = [comps EXCEPT ![c].order = order] /\ UNCHANGED byParent
       ELSE UNCHANGED <<comps, byParent>>
    /\ Answers("updateComponent", ok)
    /\ UNCHANGED <<compCount, byPage>> /\ UserRest

(* move: an empty parent makes the component a root.                       *)
MoveComponent(c, parent, order) ==
    LET ok == order # BadNumber /\ Exists(c) /\ (parent # None => MayAdopt(c, parent)) IN
    /\ IF ok THEN Reparent(c, parent, order) ELSE UNCHANGED <<comps, byParent>>
    /\ Answers("moveComponent", ok)
    /\ UNCHANGED <<compCount, byPage>> /\ UserRest

(* reorder: every update is checked before the first is applied.           *)
Reorder(c, d, order) ==
    LET ok == Exists(c) /\ Exists(d) /\ order # BadNumber /\ comps[c].parent = comps[d].parent IN
    /\ comps' = IF ok THEN [comps EXCEPT ![c].order = 0, ![d].order = order] ELSE comps
    /\ Answers("reorder", ok)
    /\ UNCHANGED <<compCount, byPage, byParent>> /\ UserRest

(***************************************************************************)
(* Users live behind the adapter, sessions look for theirs in the store's  *)
(* users, which no operation fills.                                        *)
(***************************************************************************)
CreateUser(u) ==
    /\ u \notin madeUsers
    /\ madeUsers' = madeUsers \cup {u}
    /\ Answers("createUser", TRUE)
    /\ UNCHANGED <<namedVars, packVars, compVars>>

StoreUsers == {}

CreateSession(u) ==
    /\ u \in madeUsers
    /\ Answers("createSession", u \in StoreUsers)
    /\ UNCHANGED <<namedVars, packVars, compVars, madeUsers>>

NextNamed ==
    \/ \E n \in Names \cup {Bad} : CreatePage(n) \/ CreateWorkflow(n)
    \/ \E id \in NamedIds, n \in Names \cup {Bad} :
          UpdatePage(id, n, TRUE) \/ UpdatePage(id, n, FALSE) \/ UpdateWorkflow(id, n)
    \/ \E id \in NamedIds : DeletePage(id) \/ DeleteWorkflow(id)

NextPackages ==
    \/ \E n \in Names \cup {Bad} : CreatePackage(n)
    \/ \E n \in Names : DeletePackage(n) \/ \E v \in {2, BadNumber} : UpdatePackage(n, v)
    \/ \E n, m \in Names \cup {Bad} : BatchCreate(n, m)
    \/ \E n, m \in Names : BatchUpdate(n, m) \/ BatchDelete(n, m)

NextTrees ==
    \/ \E n \in Names : CreatePage(n)
    \/ \E id \in NamedIds : DeletePage(id)
    \/ \E page \in NamedIds, parent \in CompIds \cup {None}, o \in Orders : CreateComponent(page, parent, o)
    \/ \E c \in CompIds : DeleteComponent(c)
    \/ \E c \in CompIds, parent \in CompIds \cup {None}, o \in Orders :
          UpdateComponent(c, o, parent) \/ MoveComponent(c, parent, o)
    \/ \E c, d \in CompIds, o \in Orders : Reorder(c, d, o)
    \/ \E page \in NamedIds : CreateComponent(page, None, BadNumber)
    \/ \E c \in CompIds :
          UpdateComponent(c, BadNumber, None) \/ MoveComponent(c, None, BadNumber) \/ Reorder(c, c, BadNumber)

NextUsers == \E u \in EUsers : CreateUser(u) \/ CreateSession(u)

NextEntities == NextNamed \/ NextPackages \/ NextTrees \/ NextUsers

SpecEntities == InitEntities /\ [][NextEntities]_entityVars

-----------------------------------------------------------------------------
(* The state is well formed; the two package maps have the same ids.       *)
TypeOKEntities ==
    /\ named \in [Kinds -> [NamedIds -> Names \cup {NoName}]]
    /\ nameIndex \in [Kinds -> [Names -> NamedIds \cup {None}]]
    /\ packKeys = {n \in Names : packs[n] # None}
    /\ \A c \in CompIds : comps[c].page \in NamedIds \cup {None}
    /\ elast.ok \in BOOLEAN

(* A path or name leads to the record that has it, and to no other, after  *)
(* any sequence of creations, renames (failed ones too) and deletions.     *)
IndexesAgree ==
    \A k \in Kinds, n \in Names, id \in NamedIds : nameIndex[k][n] = id <=> named[k][id] = n

(* Each component is listed once under its page and once under its parent, *)
(* and the lists hold nothing else: components.at() never throws.          *)
ListsAgree ==
    \A c \in CompIds :
        /\ \A i \in NamedIds : byPage[i][c] = IF comps[c].page = i THEN 1 ELSE 0
        /\ \A p \in CompIds : byParent[p][c] = IF Exists(c) /\ comps[c].parent = p THEN 1 ELSE 0

(* buildTree, from the roots of a page, terminates and returns every       *)
(* component of the page: no cycle and no parent on another page.          *)
TreesAreComplete ==
    \A i \in NamedIds :
        UNION {Subtree(c) : c \in {d \in CompIds : comps[d].page = i /\ comps[d].parent = None}}
          = {c \in CompIds : comps[c].page = i}

(* A call that answers an error leaves packages and component trees as     *)
(* they were; batches of updates and deletions and the name of a page are  *)
(* the exceptions, and a refused update may keep its new order.            *)
RefusedChangesNothing ==
    [][~elast'.ok => /\ elast'.op \notin {"batchUpdate", "batchDelete"} => UNCHANGED packVars
                     /\ UNCHANGED <<byPage, byParent>>
                     /\ elast'.op # "updateComponent" => UNCHANGED comps]_entityVars

(* The in-memory entities after any sequence of calls: each index agrees   *)
(* with the rows, the lists with the components, buildTree returns every   *)
(* component of a page and meets no cycle, and a refused call leaves       *)
(* packages and trees as they were, but for the exceptions                 *)
(* RefusedChangesNothing names.                                            *)
EntitiesAgree ==
    /\ [](/\ TypeOKEntities
          /\ IndexesAgree
          /\ ListsAgree
          /\ TreesAreComplete)
    /\ RefusedChangesNothing
=============================================================================
