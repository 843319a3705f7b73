----------------------------- MODULE ModelLoading -----------------------------
(***************************************************************************)
(* What reload makes of model files: blocks of lines, each line parsed    *)
(* with >> and inserted into the backend its key is hashed to.  The reload *)
(* is alone here, and its backends are empty and do not fail; CannonProxy *)
(* has the rest.                                                           *)
(*                                                                         *)
(* A line is a sequence of words, each a number or not; a line of blanks  *)
(* has one word, which says what the variable key happens to hold.  The   *)
(* two integer types keep their widths, as the numbers of their values.   *)
(***************************************************************************)
EXTENDS ModelFilesReader, SequencesExt

CONSTANTS
  KeySpan, IntSpan,   \* the values there are of keyT, and of int: 2^64 and 2^32
  Indeterminate,      \* what a variable holds that no >> has written: any double
  TextFileLists,      \* the models: lists of files
  Loads               \* numbers of backends and block sizes

MaxKey == KeySpan \div 2 - 1
MinKey == -(KeySpan \div 2)

Num(n)  == [number |-> TRUE, n |-> n]
Text    == [number |-> FALSE, n |-> 0]
Blank(left) == [number |-> FALSE, n |-> left]

Lines     == Seq([number : BOOLEAN, n : Int])
TextFiles == [opens : BOOLEAN, lines : Seq(Lines), ended : BOOLEAN]

ASSUME SpanAssumption == KeySpan \in Nat \ {0} /\ IntSpan \in Nat \ {0}
ASSUME LoadAssumption == /\ TextFileLists \subseteq Seq(TextFiles)
                         /\ \A load \in Loads : load.servers \in Nat \ {0} /\ load.count \in Nat \ {0}

\* iss >> key: text leaves 0, a number out of range the nearest key, blanks nothing; all
\* of them fail.
ParsedKey(line) ==
  LET n == line[1].n IN IF n > MaxKey THEN MaxKey ELSE IF n < MinKey THEN MinKey ELSE n

KeyFails(line) == ~line[1].number \/ line[1].n \notin MinKey .. MaxKey

\* ... >> value is not tried on a stream that failed or is at its end, and leaves 0 where
\* there is no number.
ParsedValue(line) ==
  IF KeyFails(line) \/ Len(line) = 1 THEN Indeterminate
  ELSE IF line[2].number THEN line[2].n ELSE 0

\* bad() stays false through all of this: every line makes a pair.
ParsedKV(line) == [key |-> ParsedKey(line), value |-> ParsedValue(line)]

\* (int)hash, where std::hash of an integer is the integer.
AsInt(key) ==
  LET low == key % IntSpan IN IF low < IntSpan \div 2 THEN low ELSE low - IntSpan

\* % of C++: the remainder has the sign of the dividend.
Remainder(a, n) == IF a >= 0 THEN a % n ELSE -((-a) % n)

ClientIdx(key) == Remainder(AsInt(key), job.servers)

\* Below 0 it is no index of sharding_kvs, and what happens is undefined.
InBounds(key) == ClientIdx(key) >= 0

\* The pairs of a block that go to backend s, by position, and those that its
\* unordered_map::insert takes: the first of each key that is not there yet.
Part(kvs, s) == {i \in DOMAIN kvs : ClientIdx(kvs[i].key) = s}
Taken(kvs, s) == {i \in Part(kvs, s) : /\ \A kv \in st.stores[s] : kv.key # kvs[i].key
                                       /\ \A j \in Part(kvs, s) : j < i => kvs[j].key # kvs[i].key}

Parsed == [i \in DOMAIN st.lines |-> ParsedKV(st.lines[i])]
EndOfBlock == At("load", "block") /\ st.lines # <<>>

LoadModel(files, load) ==
  /\ job = [prog |-> "load", files |-> files, servers |-> load.servers, count |-> load.count]
  /\ st = [pc |-> "file", rd |-> NewReader, lines |-> <<>>, blocks |-> <<>>,
           stores |-> [s \in 0 .. load.servers - 1 |-> {}], ret |-> TRUE, defined |-> TRUE]

\* Mutant: the answers of the backends are or-ed.
InsertBlock_Any ==
  /\ EndOfBlock
  /\ \A i \in DOMAIN Parsed : InBounds(Parsed[i].key)
  /\ Becomes([st EXCEPT
       !.stores = [s \in DOMAIN st.stores |-> st.stores[s] \union {Parsed[i] : i \in Taken(Parsed, s)}],
       !.ret    = @ /\ \E s \in DOMAIN st.stores : Taken(Parsed, s) = Part(Parsed, s),
       !.blocks = Append(@, st.lines), !.lines = <<>>, !.pc = "file"])

\* _insert of one block, and the next get_lines.
InsertBlock ==
  /\ EndOfBlock
  /\ \A i \in DOMAIN Parsed : InBounds(Parsed[i].key)
  /\ Becomes([st EXCEPT
       !.stores = [s \in DOMAIN st.stores |-> st.stores[s] \union {Parsed[i] : i \in Taken(Parsed, s)}],
       !.ret    = @ /\ \A s \in DOMAIN st.stores : Taken(Parsed, s) = Part(Parsed, s),
       !.blocks = Append(@, st.lines), !.lines = <<>>, !.pc = "file"])

InsertOutOfBounds ==
  /\ EndOfBlock
  /\ \E i \in DOMAIN Parsed : ~InBounds(Parsed[i].key)
  /\ Becomes([st EXCEPT !.defined = FALSE, !.blocks = Append(@, st.lines), !.pc = "done"])

\* An empty block is the end of the model.
EndOfModel == At("load", "block") /\ st.lines = <<>> /\ Becomes([st EXCEPT !.pc = "done"])

LoadNext == OpenNext \/ Getline \/ LeaveFile \/ InsertBlock \/ InsertOutOfBounds \/ EndOfModel

-------------------------------------------------------------------------------
(* Properties                                                               *)

\* The lines there are to load: by file, the non-empty ones of the first n.
NonEmpty(lines) ==
  LET upTo[n \in 0 .. Len(lines)] ==
        IF n = 0 THEN <<>>
        ELSE IF lines[n] = EmptyLine THEN upTo[n - 1] ELSE Append(upTo[n - 1], lines[n])
  IN  upTo
LinesOf(file)   == IF file.opens THEN NonEmpty(file.lines)[Len(file.lines)] ELSE <<>>
AllLines(files) == FlattenSeq([f \in DOMAIN files |-> LinesOf(files[f])])

\* get_lines hands out all lines of the files that open, in full blocks but for the last,
\* and an empty block only when there are none left: a block may end with a file, span
\* empty files or ones that do not open, and meet a last line without a newline.
BlocksLoseNoLine == At("load", "done") =>
  LET n == Len(st.blocks)  got == FlattenSeq(st.blocks)  lines == AllLines(job.files) IN
  /\ \A i \in 1 .. n : st.blocks[i] # <<>> /\ (i < n => Len(st.blocks[i]) = job.count)
  /\ got = IF st.defined THEN lines ELSE SubSeq(lines, 1, Len(got))

\* What a reload leaves on empty backends, across blocks: it answers true just when no two
\* lines have one key, and whether it does or not, a backend holds the keys that are hashed
\* to it, each with the value of the first line that has it, because insert does not
\* overwrite.  (Every line that is not parsed has key 0, so there may be one of these at
\* most.)  It is defined for keys whose low half is not negative, or that divide evenly.
LoadsWhatLinesSay == At("load", "done") =>
  LET lines      == AllLines(job.files)
      key(i)     == ParsedKey(lines[i])
      low(i)     == key(i) % IntSpan
      IsFirst(i) == \A j \in 1 .. i - 1 : key(j) # key(i)
  IN  /\ st.defined <=> \A i \in DOMAIN lines :
           low(i) < IntSpan \div 2 \/ (IntSpan - low(i)) % job.servers = 0
      /\ st.defined =>
           /\ st.ret = \A i, j \in DOMAIN lines : key(i) = key(j) => i = j
           /\ \A s \in 0 .. job.servers - 1 :
                st.stores[s] = {ParsedKV(lines[i]) : i \in
                  {i \in DOMAIN lines : IsFirst(i) /\ ClientIdx(key(i)) = s}}
===============================================================================
