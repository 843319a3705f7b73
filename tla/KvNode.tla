-------------------------------- MODULE KvNode --------------------------------
(***************************************************************************)
(* The single-node backend of src/cannon: the sizes of a schema, the      *)
(* loading of a directory of binary files into one table of bytes, which  *)
(* is sorted in place into buckets (InPlaceHashMap has that loop by       *)
(* itself), and the handler that answers a string of packed keys.         *)
(***************************************************************************)
EXTENDS Integers, Sequences, FiniteSets, SequencesExt, ProgramRun

CONSTANTS
  Hash(_),                  \* of the bytes of a key
  Directories, KeyStrings   \* schemas with directories, requests

TypeSize == [i32 |-> 4, i64 |-> 8, float |-> 4, double |-> 8]

\* A field is a type and how many of it; sizes are sums over fields.
Field(type, count) == [type |-> type, count |-> count]
SizeOf(fields) ==
  LET upTo[n \in 0 .. Len(fields)] ==
        IF n = 0 THEN 0 ELSE upTo[n - 1] + TypeSize[fields[n].type] * fields[n].count
  IN  upTo[Len(fields)]

BinaryFile(opens, bytes) == [opens |-> opens, bytes |-> bytes]
Byte == 0 .. 255

\* The bytes from position i of the table, as many as there are up to n.
Bytes(kvs, i, n) == SubSeq(kvs, i + 1, IF i + n <= Len(kvs) THEN i + n ELSE Len(kvs))

\* A key has bytes: the handler steps through a request by the size of a key.
ASSUME SchemaAssumption ==
  \A node \in Directories :
    /\ \A fields \in {node.key, node.value} : fields \in Seq([type : DOMAIN TypeSize, count : Nat])
    /\ SizeOf(node.key) > 0

ASSUME BytesAssumption ==
  /\ \A node \in Directories : node.dir \in Seq([opens : BOOLEAN, bytes : Seq(Byte)])
  /\ KeyStrings \subseteq Seq(Byte)

\* A hash is a number, of whatever is hashed: up to key_size bytes of a table or a request.
Loaded(dir) == FlattenSeq([i \in DOMAIN dir |-> dir[i].bytes])
ASSUME HashAssumption ==
  \A node \in Directories :
    \A bytes \in KeyStrings \union {Loaded(node.dir)} :
      \A i \in 0 .. Len(bytes), n \in 0 .. SizeOf(node.key) : Hash(Bytes(bytes, i, n)) \in Nat

KvSize == job.key_size + job.value_size

\* The entries by index, the part of one that is left at the end included.
Entries == [i \in 0 .. (Len(st.kvs) + KvSize - 1) \div KvSize - 1 |-> Bytes(st.kvs, i * KvSize, KvSize)]

\* A byte behind the table, whatever it is.  A key that ends there is taken for one
\* that nobody asks for.
Beyond == -1

KeyOf(entry)   == Bytes(entry, 0, job.key_size)
ValueOf(entry) ==
  [n \in 1 .. job.value_size |->
     IF job.key_size + n <= Len(entry) THEN entry[job.key_size + n] ELSE Beyond]

HashOf(key) == Hash(key) % st.size

\* kvs: the bytes loaded, from file files; count: _kv_count, the whole entries; pos: bytes
\* of the request done.
LoadAndGet(node, keys) ==
  LET key_size == SizeOf(node.key) IN
  /\ Len(keys) % key_size = 0
  /\ job = [prog |-> "node", dir |-> node.dir, keys |-> keys,
            key_size |-> key_size, value_size |-> SizeOf(node.value)]
  /\ st = [pc |-> "load", file |-> 0, kvs |-> <<>>, count |-> 0, size |-> 16, started |-> TRUE,
           defined |-> TRUE, entries |-> <<>>, indexes |-> <<>>, ends |-> <<>>, i |-> 0, pos |-> 0,
           res |-> [statuses |-> <<>>, values |-> <<>>, status |-> "OK"]]

AtFile    == At("node", "load") /\ st.file < Len(job.dir)
CurKvFile == job.dir[st.file + 1]

\* Storage::load, in directory order; a file that does not open stops the server.
LoadKvFile == /\ AtFile /\ CurKvFile.opens
              /\ Becomes([st EXCEPT !.kvs = @ \o CurKvFile.bytes, !.file = @ + 1])
LoadFails  == AtFile /\ ~CurKvFile.opens /\ Becomes([st EXCEPT !.started = FALSE, !.pc = "done"])
LoadKvs    == /\ At("node", "load") /\ st.file = Len(job.dir)
              /\ Becomes([st EXCEPT !.count = Len(st.kvs) \div KvSize, !.pc = "size"])

NextPower == At("node", "size") /\ st.size < st.count /\ Becomes([st EXCEPT !.size = @ * 2])

\* The first two loops of construct_immutable_hash_map.  _kv_count counts whole entries,
\* the loops also the part of one at the end.
CountEntries ==
  LET indexes == [h \in 0 .. st.size |-> Cardinality({i \in DOMAIN Entries : HashOf(KeyOf(Entries[i])) < h})]
  IN  /\ At("node", "size") /\ st.size >= st.count
      /\ Becomes([st EXCEPT !.entries = Entries, !.indexes = indexes, !.ends = indexes, !.pc = "sort"])

AtEntry == At("node", "sort") /\ st.i < st.count
Bucket  == HashOf(KeyOf(st.entries[st.i]))
InPlace == st.i >= st.indexes[Bucket] /\ st.i < st.ends[Bucket]

\* The third loop.
NextEntry == AtEntry /\ InPlace /\ Becomes([st EXCEPT !.i = @ + 1])

SwapKv ==
  /\ AtEntry /\ ~InPlace /\ st.ends[Bucket] < st.count
  /\ Becomes([st EXCEPT !.entries[st.i] = st.entries[st.ends[Bucket]],
                        !.entries[st.ends[Bucket]] = st.entries[st.i],
                        !.ends[Bucket] = @ + 1])

\* A swap with an entry that is not whole goes past the end of the table: what happens is
\* undefined.
SwapBeyond ==
  /\ AtEntry /\ ~InPlace /\ st.ends[Bucket] >= st.count
  /\ Becomes([st EXCEPT !.defined = FALSE, !.pc = "done"])

Constructed == At("node", "sort") /\ st.i = st.count /\ Becomes([st EXCEPT !.pc = "get"])

AtKey == At("node", "get") /\ st.pos < Len(job.keys)
Key   == Bytes(job.keys, st.pos, job.key_size)

\* seek: the entries of the bucket that have the key.
Matches ==
  LET h == HashOf(Key) IN
  {i \in st.indexes[h] .. st.indexes[h + 1] - 1 : KeyOf(st.entries[i]) = Key}

Zeros(n) == [i \in 1 .. n |-> 0]

Respond(status, value) ==
  Becomes([st EXCEPT !.res.statuses = Append(@, status), !.res.values = @ \o value,
                     !.res.status = IF status = "FOUND" THEN @ ELSE "PARTIAL_OK",
                     !.pos = @ + job.key_size])

\* CannonHandler::get: the value of the first entry that has the key, ...
KeyFound == /\ AtKey /\ Matches # {}
            /\ Respond("FOUND", ValueOf(st.entries[CHOOSE i \in Matches : \A j \in Matches : i <= j]))

\* Mutant: nothing is written for a key that is not found.
KeyNotFound_NoPlaceholder == AtKey /\ Matches = {} /\ Respond("NOT_FOUND", <<>>)

\* ... or as many zeros.
KeyNotFound == AtKey /\ Matches = {} /\ Respond("NOT_FOUND", Zeros(job.value_size))

Answered == At("node", "get") /\ st.pos >= Len(job.keys) /\ Becomes([st EXCEPT !.pc = "done"])

NodeNext == \/ LoadKvFile \/ LoadFails \/ LoadKvs \/ NextPower \/ CountEntries
            \/ NextEntry \/ SwapKv \/ SwapBeyond \/ Constructed
            \/ KeyFound \/ KeyNotFound \/ Answered

-------------------------------------------------------------------------------
(* Properties                                                               *)

\* The whole entries that a string of bytes holds, and the part of one behind them.
Held(bytes)   == {Bytes(bytes, i * KvSize, KvSize) : i \in 0 .. Len(bytes) \div KvSize - 1}
PartOf(bytes) == SubSeq(bytes, Len(bytes) - (Len(bytes) % KvSize) + 1, Len(bytes))

\* The node answers each key of a request from the whole entries of its files.  If every
\* file holds whole entries, the order of the directory is of no account; if only their
\* sum does, the entries are those of the concatenation; and if a part of an entry is left
\* over, the whole ones are found all the same unless loading went out of the table, which
\* it does when one of them belongs to a bucket behind that of the part.
NodeAnswers == At("node", "done") =>
  LET files  == {job.dir[i].bytes : i \in DOMAIN job.dir}
      all    == Loaded(job.dir)
      whole  == Len(all) % KvSize = 0
      held   == IF \A f \in files : Len(f) % KvSize = 0 THEN UNION {Held(f) : f \in files} ELSE Held(all)
      ks     == job.key_size
      vs     == job.value_size
      entry(i)  == {e \in held : KeyOf(e) = Bytes(job.keys, (i - 1) * ks, ks)}
      value(i)  == SubSeq(st.res.values, (i - 1) * vs + 1, i * vs)
      status(i) == st.res.statuses[i]
      keys      == 1 .. Len(job.keys) \div ks
  IN  /\ st.started = \A i \in DOMAIN job.dir : job.dir[i].opens
      /\ st.started =>
           st.defined = (whole \/ \A e \in held : HashOf(KeyOf(e)) <= HashOf(KeyOf(PartOf(all))))
      /\ st.started /\ st.defined /\ (whole \/ Len(job.keys) = ks) =>
           /\ DOMAIN st.res.statuses = keys
           /\ Len(st.res.values) = vs * Len(st.res.statuses)
           /\ \A i \in keys :
                IF entry(i) # {}
                THEN status(i) = "FOUND" /\ value(i) \in {ValueOf(e) : e \in entry(i)}
                ELSE whole => status(i) = "NOT_FOUND" /\ value(i) = Zeros(vs)
           /\ (st.res.status = "OK") = \A i \in keys : status(i) = "FOUND"
===============================================================================
