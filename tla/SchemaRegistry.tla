--------------------------- MODULE SchemaRegistry ---------------------------
(***************************************************************************)
(* The migration registry: a JSON file with a queue of migrations that     *)
(* every schema request loads, changes and writes back.  There is no lock: *)
(* opening the file for writing empties it, the content follows, and a     *)
(* reader of a file that does not parse goes on with an empty registry.    *)
(***************************************************************************)
EXTENDS Integers, FiniteSets

CONSTANTS Migrations, RegistryProcs, MaxSchemaRequests

ASSUME RegistryAssumption == MaxSchemaRequests \in Nat /\ "all" \notin Migrations

VARIABLES gfile,      \* the registry as last written
          gtorn,      \* the file does not parse
          gproc, gdone, gprisma

registryVars == <<gfile, gtorn, gproc, gdone, gprisma>>

Statuses == {"absent", "pending", "approved", "rejected"}
Empty == [m \in Migrations |-> "absent"]
NoRequest == [pc |-> "idle"]
SchemaRequest ==
    [pc : {"load", "open", "write"}, action : {"scan", "approve", "reject", "generate"}, id : Migrations \cup {"all"},
     view : [Migrations -> Statuses],
     blind : BOOLEAN,      \* it loaded a file that did not parse
     alone : BOOLEAN]      \* nobody else wrote since it loaded

(* The registry in memory and on disk, and where each request stands.      *)
TypeOKRegistry ==
    /\ gfile \in [Migrations -> Statuses] /\ gtorn \in BOOLEAN
    /\ gproc \in [RegistryProcs -> SchemaRequest \cup {NoRequest}]
    /\ gdone \in 0..MaxSchemaRequests /\ gprisma \subseteq Migrations

InitRegistry ==
    /\ gfile = Empty /\ gtorn = FALSE
    /\ gproc = [p \in RegistryProcs |-> NoRequest]
    /\ gdone = 0 /\ gprisma = {}

handleSchema(p, action, id) ==
    /\ gproc[p] = NoRequest /\ gdone < MaxSchemaRequests
    /\ action # "approve" => id # "all"
    /\ gdone' = gdone + 1
    /\ gproc' = [gproc EXCEPT ![p] = [pc |-> "load", action |-> action, id |-> id, view |-> Empty,
                                      blind |-> FALSE, alone |-> TRUE]]
    /\ UNCHANGED <<gfile, gtorn, gprisma>>

load_registry == IF gtorn THEN Empty ELSE gfile

Loaded(p, view) ==
    gproc' = [gproc EXCEPT ![p].pc = "open", ![p].view = view, ![p].blind = gtorn]
Replied(p) == gproc' = [gproc EXCEPT ![p] = NoRequest]

(* The packages are only counted; the registry is saved as it was loaded,  *)
(* unless there is no packages directory.                                  *)
handle_scan(p) ==
    /\ gproc[p].pc = "load" /\ gproc[p].action = "scan"
    /\ Loaded(p, load_registry) \/ Replied(p)
    /\ UNCHANGED <<gfile, gtorn, gdone, gprisma>>

(* One pending migration or all of them; a single one that is not there is *)
(* 404 and nothing is saved.                                               *)
handle_approve(p) ==
    /\ gproc[p].pc = "load" /\ gproc[p].action = "approve"
    /\ LET hits == {m \in Migrations : load_registry[m] = "pending" /\ gproc[p].id \in {m, "all"}}
       IN IF hits = {} /\ gproc[p].id # "all" THEN Replied(p)
          ELSE Loaded(p, [m \in Migrations |-> IF m \in hits THEN "approved" ELSE load_registry[m]])
    /\ UNCHANGED <<gfile, gtorn, gdone, gprisma>>

handle_reject(p) ==
    /\ gproc[p].pc = "load" /\ gproc[p].action = "reject"
    /\ IF load_registry[gproc[p].id] # "pending" THEN Replied(p)
       ELSE Loaded(p, [load_registry EXCEPT ![gproc[p].id] = "rejected"])
    /\ UNCHANGED <<gfile, gtorn, gdone, gprisma>>

(* The Prisma models of the approved migrations, if there are any.         *)
handle_generate(p) ==
    /\ gproc[p].pc = "load" /\ gproc[p].action = "generate"
    /\ LET approved == {m \in Migrations : load_registry[m] = "approved"}
       IN gprisma' = IF approved = {} THEN gprisma ELSE approved
    /\ Replied(p)
    /\ UNCHANGED <<gfile, gtorn, gdone>>

(* Everybody who has loaded the file and not written it.                   *)
Interrupted(q, p) == q # p /\ gproc[q].pc \in {"open", "write"}

(* Opening empties the file.  A file that cannot be opened is not noticed: *)
(* the request is answered with success.                                   *)
save_registry(p) ==
    /\ gproc[p].pc = "open"
    /\ \/ /\ gtorn' = TRUE
          /\ gproc' = [q \in RegistryProcs |->
                         IF q = p THEN [gproc[p] EXCEPT !.pc = "write"]
                         ELSE IF Interrupted(q, p) THEN [gproc[q] EXCEPT !.alone = FALSE] ELSE gproc[q]]
       \/ Replied(p) /\ UNCHANGED gtorn
    /\ UNCHANGED <<gfile, gdone, gprisma>>

WriteRegistry(p) ==
    /\ gproc[p].pc = "write"
    /\ gfile' = gproc[p].view /\ gtorn' = FALSE
    /\ gproc' = [q \in RegistryProcs |->
                   IF q = p THEN NoRequest
                   ELSE IF Interrupted(q, p) THEN [gproc[q] EXCEPT !.alone = FALSE] ELSE gproc[q]]
    /\ UNCHANGED <<gdone, gprisma>>

(* The web application queues a migration; a restart loses what is under   *)
(* way.                                                                    *)
QueueMigration(m) ==
    /\ ~gtorn /\ gfile[m] = "absent" /\ \A p \in RegistryProcs : gproc[p] = NoRequest
    /\ gfile' = [gfile EXCEPT ![m] = "pending"]
    /\ UNCHANGED <<gtorn, gproc, gdone, gprisma>>

RegistryRestart ==
    /\ \E p \in RegistryProcs : gproc[p] # NoRequest
    /\ gproc' = [p \in RegistryProcs |-> NoRequest]
    /\ UNCHANGED <<gfile, gtorn, gdone, gprisma>>

NextRegistry ==
    \/ \E p \in RegistryProcs :
          \/ \E a \in {"scan", "approve", "reject", "generate"}, id \in Migrations \cup {"all"} : handleSchema(p, a, id)
          \/ handle_scan(p) \/ handle_approve(p) \/ handle_reject(p) \/ handle_generate(p)
          \/ save_registry(p) \/ WriteRegistry(p)
    \/ \E m \in Migrations : QueueMigration(m)
    \/ RegistryRestart

SpecRegistry == InitRegistry /\ [][NextRegistry]_registryVars

(***************************************************************************)
(* Properties                                                              *)
(***************************************************************************)
(* A migration once decided stays decided and none disappears, whatever    *)
(* requests follow; a decision is undone, or the queue lost, only by a     *)
(* request that overlapped another's write or found the file torn.         *)
DecisionsStick ==
    [][\A p \in RegistryProcs : WriteRegistry(p) /\ gproc[p].alone /\ ~gproc[p].blind =>
          \A m \in Migrations :
             gfile'[m] = gfile[m] \/ (gfile[m] = "pending" /\ gfile'[m] \in {"approved", "rejected"})]_registryVars

(* The generated models are of migrations somebody approved: nothing still *)
(* pending or rejected gets a table, also when requests overlap.           *)
OnlyApprovedIsGenerated ==
    [][\A m \in gprisma' \ gprisma : gfile[m] = "approved" /\ ~gtorn]_registryVars
=============================================================================
