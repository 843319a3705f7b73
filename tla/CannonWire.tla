----------------------------- MODULE CannonWire -----------------------------
(***************************************************************************)
(* The generated code of the three services: the backend of the proxy     *)
(* (Cannon), the proxy (Cannon_Service) and the server that runs alone    *)
(* (Node, also called Cannon).  Per struct its fields, per method the     *)
(* stub of the client and the entry of the processor, and per service the *)
(* stubs and the entries it has.  Pargs and presult are what a client     *)
(* writes and reads, args and result what a processor does.               *)
(***************************************************************************)
EXTENDS ThriftStruct, FiniteSets

\* cannon_proxy/cannon: the backend
Item            == Struct(<<Field(1, I32), Field(2, Double)>>)
Response        == Struct(<<Field(1, I32), Field(2, ListOf(Item))>>)
KV              == Struct(<<Field(1, I64), Field(2, Double)>>)
GetPargs        == Struct(<<Field(1, ListOf(I64)), Field(2, I32)>>)
GetArgs         == Struct(<<Field(1, ListOf(I64)), Field(2, I32)>>)
GetResult       == Optional(<<Field(0, Response)>>)
GetPresult      == Optional(<<Field(0, Response)>>)
InsertPargs     == Struct(<<Field(1, ListOf(KV)), Field(2, I32)>>)
\* Mutant: the processor was generated before insert had a data_version.
InsertArgs_Older == Struct(<<Field(1, ListOf(KV))>>)
InsertArgs      == Struct(<<Field(1, ListOf(KV)), Field(2, I32)>>)
InsertResult    == Optional(<<Field(0, Bool)>>)
InsertPresult   == Optional(<<Field(0, Bool)>>)
ClearDataPargs  == Struct(<<Field(1, I32)>>)
ClearDataArgs   == Struct(<<Field(1, I32)>>)
ClearDataResult == Optional(<<Field(0, Bool)>>)
ClearDataPresult == Optional(<<Field(0, Bool)>>)

\* cannon_proxy: the proxy
ProxyRequest    == Struct(<<Field(1, ListOf(I64))>>)
ProxyItem       == Struct(<<Field(1, I32), Field(2, Double)>>)
ProxyResponse   == Struct(<<Field(1, I32), Field(2, ListOf(ProxyItem))>>)
VersionPargs    == Struct(<<>>)
VersionArgs     == Struct(<<>>)
VersionResult   == Optional(<<Field(0, String)>>)
VersionPresult  == Optional(<<Field(0, String)>>)
ReloadPargs     == Struct(<<Field(1, ListOf(String))>>)
ReloadArgs      == Struct(<<Field(1, ListOf(String))>>)
ReloadResult    == Optional(<<Field(0, Bool)>>)
ReloadPresult   == Optional(<<Field(0, Bool)>>)
ProxyGetPargs   == Struct(<<Field(1, ProxyRequest)>>)
ProxyGetArgs    == Struct(<<Field(1, ProxyRequest)>>)
ProxyGetResult  == Optional(<<Field(0, ProxyResponse)>>)
ProxyGetPresult == Optional(<<Field(0, ProxyResponse)>>)

\* cannon: the server that runs alone; the keys and the values are packed in a string
NodeRequest     == Struct(<<Field(1, String)>>)
NodeResponse    == Struct(<<Field(1, I32), Field(2, ListOf(I32)), Field(3, String)>>)
NodeGetPargs    == Struct(<<Field(1, NodeRequest)>>)
NodeGetArgs     == Struct(<<Field(1, NodeRequest)>>)
NodeGetResult   == Optional(<<Field(0, NodeResponse)>>)
NodeGetPresult  == Optional(<<Field(0, NodeResponse)>>)

-----------------------------------------------------------------------------
\* A method as its client calls it, and as the processor of a service runs it.
Stub(name, pargs, presult) == [name |-> name, pargs |-> pargs, presult |-> presult]
Entry(name, args, result)  == [name |-> name, args |-> args, result |-> result]

ClientGet          == Stub("get", GetPargs, GetPresult)
ClientInsert       == Stub("insert", InsertPargs, InsertPresult)
ClientClearData    == Stub("clear_data", ClearDataPargs, ClearDataPresult)
CannonClient       == {ClientGet, ClientInsert, ClientClearData}

ProcessGet         == Entry("get", GetArgs, GetResult)
ProcessInsert      == Entry("insert", InsertArgs, InsertResult)
ProcessClearData   == Entry("clear_data", ClearDataArgs, ClearDataResult)
CannonProcessor    == {ProcessGet, ProcessInsert, ProcessClearData}

ClientVersion      == Stub("version", VersionPargs, VersionPresult)
ClientReload       == Stub("reload", ReloadPargs, ReloadPresult)
ClientProxyGet     == Stub("get", ProxyGetPargs, ProxyGetPresult)
ProxyClient        == {ClientVersion, ClientReload, ClientProxyGet}

ProcessVersion     == Entry("version", VersionArgs, VersionResult)
ProcessReload      == Entry("reload", ReloadArgs, ReloadResult)
ProcessProxyGet    == Entry("get", ProxyGetArgs, ProxyGetResult)
ProxyProcessor     == {ProcessVersion, ProcessReload, ProcessProxyGet}

ClientNodeGet      == Stub("get", NodeGetPargs, NodeGetPresult)
NodeClient         == {ClientNodeGet}
ProcessNodeGet     == Entry("get", NodeGetArgs, NodeGetResult)
NodeProcessor      == {ProcessNodeGet}

Services == {"cannon", "proxy", "node"}
Client(service)    == CASE service = "cannon" -> CannonClient [] service = "proxy" -> ProxyClient
                        [] OTHER -> NodeClient
Processor(service) == CASE service = "cannon" -> CannonProcessor [] service = "proxy" -> ProxyProcessor
                        [] OTHER -> NodeProcessor

-----------------------------------------------------------------------------
RECURSIVE Project(_, _, _), Agree(_, _)
\* What a reader of type r should find in a value v of type w.
Project(w, r, v) ==
  CASE r.wire = "LIST"   -> [i \in DOMAIN v |-> Project(w.elem[1], r.elem[1], v[i])]
    [] r.wire = "STRUCT" ->
         LET common == {id \in FieldIds(r) \cap v.isset :
                          FieldType(r, id).wire = FieldType(w, id).wire}
         IN  [val   |-> [id \in FieldIds(r) |->
                           IF id \in common
                           THEN Project(FieldType(w, id), FieldType(r, id), v.val[id])
                           ELSE Default(FieldType(r, id))],
              isset |-> common]
    [] OTHER             -> v

\* The lists the two types share under the same field have elements of one wire type.
Agree(w, r) ==
  CASE w.wire # r.wire   -> TRUE
    [] w.wire = "LIST"   -> w.elem[1].wire = r.elem[1].wire /\ Agree(w.elem[1], r.elem[1])
    [] w.wire = "STRUCT" -> \A id \in FieldIds(w) \cap FieldIds(r) :
                              Agree(FieldType(w, id), FieldType(r, id))
    [] OTHER             -> TRUE
=============================================================================
