--------------------------- MODULE ModelFilesReader ---------------------------
(***************************************************************************)
(* model_files_reader.cpp: the lines of a list of files, handed out in    *)
(* blocks.  A file opens or not, has lines, and its last one is ended by  *)
(* a newline or not.                                                       *)
(***************************************************************************)
EXTENDS Integers, Sequences, ProgramRun

EmptyLine == <<>>

TextFile(opens, lines, ended) == [opens |-> opens, lines |-> lines, ended |-> ended]

\* cur: _cur_file; open: _ifs.is_open(); at: the lines of _ifs that are read.
NewReader == [cur |-> 0, open |-> FALSE, at |-> 0]

\* _open_file_if_needed: the next file that opens.
OpenFileIfNeeded(files, rd) ==
  LET rest == {i \in rd.cur .. Len(files) - 1 : files[i + 1].opens} IN
  IF rd.open THEN rd
  ELSE IF rest = {} THEN [rd EXCEPT !.cur = Len(files)]
  ELSE [cur |-> CHOOSE i \in rest : \A j \in rest : i <= j, open |-> TRUE, at |-> 0]

CurFile == job.files[st.rd.cur + 1]

\* The condition of the outer loop of get_lines(count); lines: those got so far.
OpenNext ==
  LET rd == OpenFileIfNeeded(job.files, st.rd) IN
  /\ At("load", "file")
  /\ Becomes([st EXCEPT !.rd = rd,
                        !.pc = IF rd.open /\ Len(st.lines) < job.count THEN "line" ELSE "block"])

\* A turn of the inner loop.
Getline ==
  LET line == CurFile.lines[st.rd.at + 1] IN
  /\ At("load", "line")
  /\ Len(st.lines) < job.count /\ st.rd.at < Len(CurFile.lines)
  /\ Becomes([st EXCEPT !.rd.at = @ + 1,
                        !.lines = IF line = EmptyLine THEN @ ELSE Append(@, line)])

\* The stream is at its end when a getline has failed or has met a last line without
\* a newline.
Good == Len(st.lines) = job.count /\ (st.rd.at = Len(CurFile.lines) => CurFile.ended)

\* Mutant: the block ends with its file.
LeaveFile_EndsBlock ==
  /\ At("load", "line")
  /\ Len(st.lines) = job.count \/ st.rd.at = Len(CurFile.lines)
  /\ Becomes([st EXCEPT !.pc = "block",
                        !.rd = IF Good THEN @ ELSE [cur |-> @.cur + 1, open |-> FALSE, at |-> 0]])

\* The end of the inner loop, and of the file unless the stream is good.
LeaveFile ==
  /\ At("load", "line")
  /\ Len(st.lines) = job.count \/ st.rd.at = Len(CurFile.lines)
  /\ Becomes([st EXCEPT !.pc = "file",
                        !.rd = IF Good THEN @ ELSE [cur |-> @.cur + 1, open |-> FALSE, at |-> 0]])
===============================================================================
