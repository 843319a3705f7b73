------------------------------ MODULE MCPrograms ------------------------------
(***************************************************************************)
(* Small inputs of Programs for TLC.                                      *)
(***************************************************************************)
EXTENDS Programs

\* Integers of 4 and 3 bits; numbers in and out of range, text and blanks.
MCLine(key, value) == <<key, value>>
MCLines == {MCLine(Num(1), Num(5)), MCLine(Num(2), Num(6)), MCLine(Text, Num(1)),
            MCLine(Num(9), Num(1)), MCLine(Num(-6), Text), <<Num(3)>>, EmptyLine}
MCTextFiles == {TextFile(TRUE, l, TRUE) : l \in BoundedSeq(MCLines, 2)}
  \union {TextFile(TRUE, l, FALSE) : l \in {<<MCLine(Num(4), Num(0))>>, <<EmptyLine, <<Blank(2)>>>>}}
  \union {TextFile(FALSE, <<>>, TRUE)}
MCTextFileLists == BoundedSeq(MCTextFiles, 2)
  \union {<<f, TextFile(FALSE, <<>>, TRUE), TextFile(TRUE, <<EmptyLine>>, TRUE), g>> : f, g \in MCTextFiles}
MCLoads == [servers : {1, 2}, count : {1, 2}]

\* The hash is the first byte, so that keys 1 and 17 share a bucket.
MCHash(bytes) == IF bytes = <<>> THEN 0 ELSE bytes[1]
MCEntry(n, v) == <<n, 0, 0, 0, v, v, v, v>>
MCFiles == {BinaryFile(TRUE, b) : b \in
  {<<>>, MCEntry(1, 1), MCEntry(2, 2), MCEntry(17, 3) \o MCEntry(1, 4),
   MCEntry(2, 5) \o MCEntry(1, 6) \o MCEntry(17, 7) \o MCEntry(0, 8),
   <<1, 0, 0>>, <<0, 2, 2, 2, 2>>, MCEntry(1, 1) \o <<17, 0, 0, 0, 9, 9>>}}
  \union {BinaryFile(FALSE, <<>>)}
MCDirectories == [dir : BoundedSeq(MCFiles, 3), key : {<<Field("i32", 1)>>},
                  value : {<<Field("float", 1)>>}]
  \union [dir : {<<BinaryFile(TRUE, FlattenSeq([n \in 1 .. 17 |-> MCEntry((5 * n) % 19, n)]))>>},
          key : {<<Field("i32", 1)>>}, value : {<<Field("float", 1)>>}]   \* more than 16 buckets
  \union [dir : {<<BinaryFile(TRUE, MCEntry(1, 1) \o MCEntry(1, 2))>>},
          key : {<<Field("i32", 1), Field("float", 1)>>}, value : {<<Field("double", 1)>>, <<Field("i32", 2)>>}]
MCKey(n) == <<n, 0, 0, 0>>
MCKeyStrings == {<<>>, MCKey(1), MCKey(2), MCKey(17), MCKey(3) \o MCKey(1), MCKey(1) \o MCKey(1) \o MCKey(2) \o MCKey(0),
                 <<1, 0, 0, 0, 1, 1, 1, 1>>}

MCTexts    == BoundedSeq({"a", "b"}, 6)
MCPatterns == BoundedSeq({"a", "b"}, 4)
  \union {<<"a", "b", "a", "a", "b">>, <<"a", "a", "b", "a", "a", "a">>}

MCArrays   == BoundedSeq(0 .. 2, 6)

MCDecimals == {<<>>, <<0>>, <<1>>, <<7>>, <<9>>, <<1, 0>>, <<1, 2>>, <<4, 5>>, <<9, 9>>,
               <<1, 0, 0>>, <<1, 0, 9>>, <<8, 8, 8>>, <<9, 9, 9>>}

MCSortedLists == {l \in BoundedSeq(1 .. 3, 4) : \A i \in 1 .. Len(l) - 1 : l[i] <= l[i + 1]}

MCRexes    == BoundedSeq({"a", ".", "*"}, 4)
MCWords    == BoundedSeq({"a", "b"}, 4)
===============================================================================
