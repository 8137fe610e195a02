------------------------------- MODULE TreeTool -------------------------------
(***************************************************************************)
(* The command line tool of the tree, over one pool file: TreeTool::run,   *)
(* TreePool, the construction of TreeRoot with its schema, TreeObject, and *)
(* the insertions and lookups of Tree.  Each run of the tool is a process  *)
(* of its own, which creates the pool or opens it, inserts, looks up, and  *)
(* carries out the requests of a file; it can die at any time.             *)
(*                                                                         *)
(* What the command line and the request file say is chosen as the tool    *)
(* gets to it.                                                             *)
(***************************************************************************)
EXTENDS TreeLookup

CONSTANT MaxRequests  \* bound: the requests of a request file

ASSUME RequestsAssumption == MaxRequests \in Nat

VARIABLES file,    \* whether the pool file exists
          root,    \* its root object: none, zeroed by libpmemobj, or constructed
          schema_, \* whether TreeRoot::schema_ holds the schema
          proc,    \* where the tool stands
          left,    \* the requests of the file it has still to read
          out,     \* the data printed by the last lookup
          result,  \* how the last run of the tool ended
          given,   \* history: the keys and data this run was told to insert
          tried    \* history: those of all runs

tree == vars
poolfile == <<file, root, schema_>>
toolvars == <<poolfile, proc, left, out, result, given, tried>>
allvars == <<tree, toolvars>>

-----------------------------------------------------------------------------
ToolInit == /\ Init
            /\ file = "absent"
            /\ root = "none"
            /\ schema_ = FALSE
            /\ proc = "none"
            /\ left = 0
            /\ out = {}
            /\ result = "none"
            /\ given = {} /\ tried = {}

(* The process ends, normally or by an exception that leaves run(). *)
End(r) == proc' = "none" /\ left' = 0 /\ result' = r
Goto(p) == proc' = p /\ UNCHANGED <<left, result>>

Start(create, requests) ==
    /\ proc = "none"
    /\ proc' = IF create THEN "create" ELSE "open"
    /\ left' = requests
    /\ result' = "none"
    /\ given' = {}
    /\ UNCHANGED <<tree, poolfile, out, tried>>

(* Slip: the file that exists is made anew. *)
CreateAnew ==
    /\ proc = "create"
    /\ file' = "present" /\ root' = "none" /\ schema_' = FALSE
    /\ Goto("construct")
    /\ UNCHANGED <<tree, out, given, tried>>

(* TreePool(path, size, schema): pmemobj_create makes the file... *)
Create ==
    /\ proc = "create"
    /\ IF file = "absent" THEN file' = "present" /\ Goto("construct")
                          ELSE UNCHANGED file /\ End("PersistentCreateError")
    /\ UNCHANGED <<tree, root, schema_, out, given, tried>>

(* ...and pmemobj_root_construct the root, with TreeRoot::Constructor,     *)
(* which allocates the schema.  What it answers is not looked at.          *)
ConstructRoot ==
    /\ proc = "construct"
    /\ Goto("root")
    /\ \/ root' = "constructed" /\ schema_' = TRUE /\ node_' = 0
       \/ UNCHANGED <<root, schema_, node_>>
    /\ UNCHANGED <<file, heap, pc, call, this, key, building, reply, history,
                   out, given, tried>>

(* Slip: the pool that exists is given a new root. *)
OpenConstructing ==
    /\ proc = "open"
    /\ IF file = "present" THEN Goto("construct") ELSE End("PersistentOpenError")
    /\ UNCHANGED <<tree, poolfile, out, given, tried>>

(* TreePool(path). *)
Open ==
    /\ proc = "open"
    /\ IF file = "present" THEN Goto("root") ELSE End("PersistentOpenError")
    /\ UNCHANGED <<tree, poolfile, out, given, tried>>

(* pool->root() has libpmemobj make a root of zeros if there is none.      *)
(* valid() is only logged: TreeObject then follows schema_ of any root,    *)
(* and if that is null the process ends there.                             *)
GetRoot ==
    /\ proc = "root"
    /\ root' = IF root = "none" THEN "zeroed" ELSE root
    /\ IF schema_ THEN Goto("insert") ELSE End("died")
    /\ UNCHANGED <<tree, file, schema_, out, given, tried>>

PathOf(in) == [n \in 1..Len(Schema) |-> in[Schema[n]]]

(* --insert --key --data, if given: TreeObject::addNode. *)
InsertArgument(in, d) ==
    /\ proc = "insert" /\ AddNode(in, d)
    /\ Goto("inserting")
    /\ given' = given \union {<<in, d>>}
    /\ tried' = IF IsInsertKey(in) THEN tried \union {<<PathOf(in), d>>} ELSE tried
    /\ UNCHANGED <<poolfile, out>>
NoInsert ==
    /\ proc = "insert"
    /\ Goto("lookup")
    /\ UNCHANGED <<tree, poolfile, out, given, tried>>
Inserting ==
    /\ proc = "inserting" /\ Step
    /\ UNCHANGED toolvars
(* Slip: what addNode threw is not noticed. *)
InsertedAnyhow ==
    /\ proc = "inserting" /\ pc = "idle"
    /\ Goto("lookup")
    /\ UNCHANGED <<tree, poolfile, out, given, tried>>
Inserted ==
    /\ proc = "inserting" /\ pc = "idle"
    /\ IF reply = "ok" THEN Goto("lookup") ELSE End(reply)
    /\ UNCHANGED <<tree, poolfile, out, given, tried>>

(* The data a lookup prints: those of the nodes it found that are leaves. *)
Printed(request) ==
    {DatumOf(n) : n \in {m \in Range(lookup(node_, request)) : leaf(m)}}

(* --lookup, if given. *)
LookupArgument(request) ==
    /\ proc = "lookup"
    /\ out' = Printed(request)
    /\ Goto("requests")
    /\ UNCHANGED <<tree, poolfile, given, tried>>
NoLookup ==
    /\ proc = "lookup"
    /\ Goto("requests")
    /\ UNCHANGED <<tree, poolfile, out, given, tried>>

(* Slip: the list of requests does not get shorter. *)
LookupRequestAgain(request) ==
    /\ proc = "requests" /\ left > 0
    /\ out' = Printed(request)
    /\ UNCHANGED <<tree, poolfile, proc, left, result, given, tried>>

(* The requests of the file.  A lookup takes its key from the request; an  *)
(* insertion asks the parser, which has come to the end of the file, for   *)
(* one more value, and the parser throws.                                  *)
LookupRequest(request) ==
    /\ proc = "requests" /\ left > 0
    /\ left' = left - 1
    /\ out' = Printed(request)
    /\ UNCHANGED <<tree, poolfile, proc, result, given, tried>>
InsertRequest(in, d) ==
    /\ proc = "requests" /\ left > 0
    /\ given' = given \union {<<in, d>>}
    /\ End("ParserError")
    /\ UNCHANGED <<tree, poolfile, out, tried>>
(* Any other operation is passed over. *)
OtherRequest ==
    /\ proc = "requests" /\ left > 0
    /\ left' = left - 1
    /\ UNCHANGED <<tree, poolfile, proc, out, result, given, tried>>
EndOfRequests ==
    /\ proc = "requests" /\ left = 0
    /\ End("ok")
    /\ UNCHANGED <<tree, poolfile, out, given, tried>>

(* The process dies. *)
Die ==
    /\ proc # "none"
    /\ Restart
    /\ End("died")
    /\ UNCHANGED <<poolfile, out, given, tried>>

ToolStep == \/ Create \/ ConstructRoot \/ Open \/ GetRoot
            \/ NoInsert \/ Inserting \/ Inserted
            \/ NoLookup \/ OtherRequest \/ EndOfRequests
            \/ \E in \in Dict, d \in Datum : InsertArgument(in, d) \/ InsertRequest(in, d)
            \/ \E in \in Dict : LookupArgument(in) \/ LookupRequest(in)

ToolNext == \/ \E create \in BOOLEAN, requests \in 0..MaxRequests : Start(create, requests)
            \/ ToolStep
            \/ Die

(* The one thread of the tool is scheduled until it ends. *)
ToolSpec == ToolInit /\ [][ToolNext]_allvars /\ WF_allvars(ToolStep)

-----------------------------------------------------------------------------
(***************************************************************************)
(* Properties.                                                             *)
(***************************************************************************)
ToolTypeOK ==
    /\ TypeOK
    /\ file \in {"absent", "present"}
    /\ root \in {"none", "zeroed", "constructed"}
    /\ schema_ = (root = "constructed")
    /\ file = "absent" => root = "none"
    /\ proc \in {"none", "create", "construct", "open", "root", "insert", "inserting",
                 "lookup", "requests"}
    /\ pc # "idle" => proc = "inserting"
    /\ left \in 0..MaxRequests
    /\ out \subseteq Datum
    /\ result \in {"none", "ok", "died", "PersistentCreateError", "PersistentOpenError",
                   "ParserError", "UserError", "LeafExistsError", "AllocationError",
                   "AssertionFailed"}

(* A lookup of any later run of the tool prints the datum of every         *)
(* insertion that returned and agrees with the request, and prints no      *)
(* datum that nobody gave for a key that agrees.                           *)
PrintedAreStored ==
    \A request \in Dict :
        LET printed == Printed(request) IN
        /\ \A a \in acked : Agrees(a[1], request) => a[2] \in printed
        /\ \A d \in printed : \E t \in tried : t[2] = d /\ Agrees(t[1], request)

(* A run that ends with "ok" has stored everything it was told to insert,  *)
(* with the datum it was told (TreeTool.cc:152-168, 222-256).              *)
OkIsTrue ==
    /\ ToolTypeOK
    /\ result = "ok" => \A g \in given : /\ IsInsertKey(g[1])
                                         /\ PathOf(g[1]) \in Stored
                                         /\ Content[PathOf(g[1])] = g[2]

(* Once a run has got past the root of a pool, every later run does: the   *)
(* file opens and its root is complete, whatever runs create, die and fail *)
(* in between (TreeTool.cc:129-148; PersistentPool.cc:89-102).  A pool     *)
(* whose creation was interrupted or found no memory is never got past.    *)
OpenedPoolsStayUsable ==
    [](proc = "insert" => [](/\ proc = "root" => schema_
                             /\ result # "PersistentOpenError"))

(* Every run of the tool ends. *)
EveryRunEnds == proc # "none" ~> proc = "none"

(* TreeTool.cc:102 and 228-236: a request file may ask for insertions.  A  *)
(* run whose insertions all have a key that the schema accepts is not      *)
(* ended by an error of the parser.                                        *)
InsertRequestsAreDone ==
    (\A g \in given : IsInsertKey(g[1])) => result # "ParserError"
=============================================================================
