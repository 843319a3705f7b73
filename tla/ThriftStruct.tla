---------------------------- MODULE ThriftStruct ----------------------------
(***************************************************************************)
(* How the code the Thrift compiler generated writes a struct to a        *)
(* protocol and reads it back.  Every generated write has the shape of    *)
(* WriteFields and every generated read that of ReadField: they differ in *)
(* the fields, so a struct is here a value, the list of its fields.  The  *)
(* protocol is a sequence of tokens, one per read or write call of the    *)
(* binary protocol; integers and strings are 0 (the default) or 1.        *)
(***************************************************************************)
EXTENDS Naturals, Sequences, SequencesExt, TLC

Scalar(wire)    == [wire |-> wire, elem |-> <<>>, fields |-> <<>>, optional |-> FALSE]
ListOf(type)    == [wire |-> "LIST", elem |-> <<type>>, fields |-> <<>>, optional |-> FALSE]
Struct(fields)  == [wire |-> "STRUCT", elem |-> <<>>, fields |-> fields, optional |-> FALSE]

\* The struct of an answer: its field is written only when __isset says so.
Optional(fields) == [Struct(fields) EXCEPT !.optional = TRUE]

Bool   == Scalar("BOOL")
I32    == Scalar("I32")
I64    == Scalar("I64")
Double == Scalar("DOUBLE")
String == Scalar("STRING")

Field(id, type) == [id |-> id, type |-> type]

IsField(type, id)  == \E i \in DOMAIN type.fields : type.fields[i].id = id
FieldType(type, id) == type.fields[CHOOSE i \in DOMAIN type.fields : type.fields[i].id = id].type
FieldIds(type)     == {type.fields[i].id : i \in DOMAIN type.fields}

\* What the constructors leave in an object that nothing was read into.
RECURSIVE Default(_)
Default(type) ==
  CASE type.wire = "LIST"   -> <<>>
    [] type.wire = "STRUCT" -> [val   |-> [id \in FieldIds(type) |-> Default(FieldType(type, id))],
                                isset |-> {}]
    [] OTHER                -> 0

-----------------------------------------------------------------------------
Token(kind, wire, n) == [kind |-> kind, wire |-> wire, n |-> n]
StopToken == Token("stop", "", 0)

RECURSIVE WriteValue(_, _)
\* The body of write from field number i on; a plain struct writes all its fields.
WriteField(type, v, i) ==
  LET f == type.fields[i]
  IN  IF type.optional /\ f.id \notin v.isset THEN <<>>
      ELSE <<Token("field", f.type.wire, f.id)>> \o WriteValue(f.type, v.val[f.id])

WriteValue(type, v) ==
  CASE type.wire = "LIST"   -> <<Token("list", type.elem[1].wire, Len(v))>>
                                 \o FlattenSeq([i \in DOMAIN v |-> WriteValue(type.elem[1], v[i])])
    [] type.wire = "STRUCT" -> FlattenSeq([i \in DOMAIN type.fields |-> WriteField(type, v, i)])
                                 \o <<StopToken>>
    [] OTHER                -> <<Token("value", type.wire, v)>>

-----------------------------------------------------------------------------
(***************************************************************************)
(* A reader takes bytes for what it expects: when they were written as    *)
(* something else, all it reads from there on is noise, which is Noise.   *)
(***************************************************************************)
Noise == <<Token("noise", "", 0)>>

Starts(in, kind) == in # <<>> /\ Head(in).kind = kind

RECURSIVE Skip(_, _), SkipMany(_, _, _)
\* TProtocol::skip: what is left of the input after a value of a wire type.
Skip(wire, in) ==
  CASE wire = "LIST" ->
         IF Starts(in, "list") THEN SkipMany(Head(in).wire, Head(in).n, Tail(in)) ELSE Noise
    [] wire = "STRUCT" ->
         IF Starts(in, "stop") THEN Tail(in)
         ELSE IF Starts(in, "field") THEN Skip("STRUCT", Skip(Head(in).wire, Tail(in)))
         ELSE Noise
    [] OTHER ->
         IF Starts(in, "value") /\ Head(in).wire = wire THEN Tail(in) ELSE Noise

SkipMany(wire, n, in) == IF n = 0 THEN in ELSE SkipMany(wire, n - 1, Skip(wire, in))

RECURSIVE ReadValue(_, _, _), ReadStruct(_, _, _), ReadElems(_, _, _, _)
(***************************************************************************)
(* One turn of the loop of a generated read, the next token being the     *)
(* header of a field: a known field of the type it should have is read    *)
(* into the object, any other is skipped by the type the header gives.    *)
(***************************************************************************)
ReadField(type, obj, in) ==
  LET id == Head(in).n  wire == Head(in).wire
  IN  IF IsField(type, id) /\ FieldType(type, id).wire = wire
      THEN LET r == ReadValue(FieldType(type, id), obj.val[id], Tail(in))
           IN  [obj |-> [val   |-> [obj.val EXCEPT ![id] = r.obj],
                         isset |-> obj.isset \cup {id}],
                in  |-> r.in]
      ELSE [obj |-> obj, in |-> Skip(wire, Tail(in))]

ReadStruct(type, obj, in) ==
  IF Starts(in, "stop") THEN [obj |-> obj, in |-> Tail(in)]
  ELSE IF Starts(in, "field")
  THEN LET r == ReadField(type, obj, in) IN ReadStruct(type, r.obj, r.in)
  ELSE [obj |-> obj, in |-> Noise]

\* resize(_size) and one read per element: the element type of the header is not looked at.
ReadElems(type, n, got, in) ==
  IF n = 0 THEN [obj |-> got, in |-> in]
  ELSE LET r == ReadValue(type, Default(type), in)
       IN  ReadElems(type, n - 1, Append(got, r.obj), r.in)

ReadValue(type, obj, in) ==
  CASE type.wire = "LIST" ->
         IF Starts(in, "list") THEN ReadElems(type.elem[1], Head(in).n, <<>>, Tail(in))
         ELSE [obj |-> obj, in |-> Noise]
    [] type.wire = "STRUCT" -> ReadStruct(type, obj, in)
    [] OTHER ->
         IF Starts(in, "value") /\ Head(in).wire = type.wire
         THEN [obj |-> Head(in).n, in |-> Tail(in)]
         ELSE [obj |-> obj, in |-> Noise]
=============================================================================
