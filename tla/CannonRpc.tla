----------------------------- MODULE CannonRpc ------------------------------
(***************************************************************************)
(* One connection: a client of one service, called by one thread through  *)
(* the wrapper, and the processor of a server, over the bytes CannonWire  *)
(* puts in each direction.  The server may crash and come back, which the *)
(* client learns from its socket only.  All three services have a method  *)
(* get, with arguments and answers that differ, so the client may also be *)
(* one that was built for another service than the server's.              *)
(***************************************************************************)
EXTENDS CannonWire

CONSTANTS MaxLen,      \* bound: the longest list of the first call
          LaterLen,    \* bound: the longest list of the calls after it
          MaxCalls,    \* bound: calls on the connection
          MaxCrashes   \* bound: crashes of the server

RECURSIVE ValuesOf(_, _)
\* The objects a program may fill in, with lists up to a length.
ValuesOf(type, len) ==
  CASE type.wire = "LIST"   -> UNION {[1 .. n -> ValuesOf(type.elem[1], len)] : n \in 0 .. len}
    [] type.wire = "STRUCT" ->
         {[val |-> f, isset |-> FieldIds(type)] :
            f \in FoldLeft(LAMBDA fs, field : {f @@ (field.id :> v) :
                                                 f \in fs, v \in ValuesOf(field.type, len)},
                           {[id \in {} |-> 0]}, type.fields)}
    [] OTHER                -> {0, 1}

\* TApplicationException of the library.
XType  == Struct(<<Field(1, String), Field(2, I32)>>)
XValue == [val |-> (1 :> 1 @@ 2 :> 1), isset |-> {1, 2}]

Message(kind, name, type, v) == <<Token(kind, name, 0)>> \o WriteValue(type, v)

VARIABLES
  client, server,      \* the service of the client, and the one of the server
  link,      \* the client's socket: "closed", "open", "gone" (the server is, the
             \* socket does not know) or "reset" (the next write will fail)
  up,        \* the server runs
  toServer, toClient,  \* bytes on their way
  pc,        \* the client thread: "idle", "recv", "read" or "lost"
  stub,      \* the method it calls
  sent, got, \* its arguments, and the answer it is reading
  outcome,   \* how the last call ended
  entry, heard, said,  \* the method that was dispatched, its arguments, its answer
  handling,  \* the handler is running
  calls, crashes, failed   \* calls; crashes; calls that failed since the server runs

clientVars == <<pc, stub, sent, got, outcome, calls>>
serverVars == <<entry, heard, said, handling>>
vars == <<client, server, link, up, toServer, toClient, clientVars, serverVars,
          crashes, failed>>

NoEntry == Entry("", <<>>, <<>>)

Init == /\ client \in Services /\ server \in Services
        /\ link = "closed" /\ up = TRUE
        /\ toServer = <<>> /\ toClient = <<>>
        /\ pc = "idle" /\ outcome = "none"
        /\ stub = Stub("", <<>>, <<>>) /\ entry = NoEntry
        /\ sent = 0 /\ got = 0 /\ heard = 0 /\ said = 0
        /\ handling = FALSE
        /\ calls = 0 /\ crashes = 0 /\ failed = 0

-----------------------------------------------------------------------------
(* The client: the wrapper opens a socket that is closed, then the stub.   *)

\* A TTransportException ends the call.
Raise == /\ outcome' = "transport"
         /\ pc' = "idle"
         /\ failed' = IF up THEN failed + 1 ELSE failed

OpenFails == /\ pc = "idle" /\ calls < MaxCalls
             /\ link = "closed" /\ ~up
             /\ calls' = calls + 1
             /\ Raise
             /\ UNCHANGED <<client, server, link, up, toServer, toClient, stub, sent, got,
                            serverVars, crashes>>

\* Mutant: the socket is left open.
SendFails_StaysOpen == /\ pc = "idle" /\ calls < MaxCalls
                       /\ link \in {"gone", "reset"}
                       /\ link' = "reset"
                       /\ toClient' = <<>>
                       /\ calls' = calls + 1
                       /\ Raise
                       /\ UNCHANGED <<client, server, up, toServer, stub, sent, got, serverVars,
                                      crashes>>

\* A write to a socket whose peer is gone is the one that closes it.
SendFails == /\ pc = "idle" /\ calls < MaxCalls
             /\ link \in {"gone", "reset"}
             /\ link' = "closed"
             /\ toClient' = <<>>
             /\ calls' = calls + 1
             /\ Raise
             /\ UNCHANGED <<client, server, up, toServer, stub, sent, got, serverVars, crashes>>

\* The message is flushed in one piece.
Send == /\ pc = "idle" /\ calls < MaxCalls
        /\ link \in {"open", "gone"} \/ (link = "closed" /\ up)
        /\ link' = IF link = "gone" THEN "gone" ELSE "open"
        /\ \E s \in Client(client) : \E v \in ValuesOf(s.pargs, IF calls = 0 THEN MaxLen ELSE LaterLen) :
             /\ stub' = s
             /\ sent' = v
             /\ got' = Default(s.presult)
             /\ entry' = NoEntry /\ heard' = 0 /\ said' = 0
             /\ toServer' = IF link = "gone" THEN toServer
                            ELSE toServer \o Message("call", s.name, s.pargs, v)
        /\ pc' = "recv"
        /\ outcome' = "none"
        /\ calls' = calls + 1
        /\ UNCHANGED <<client, server, up, toClient, handling, crashes, failed>>

\* Mutant: the exception is thrown without being read.
RecvException_Unread == /\ pc = "recv" /\ Starts(toClient, "exception")
                        /\ toClient' = Tail(toClient)
                        /\ outcome' = "exception"
                        /\ pc' = "idle"
                        /\ UNCHANGED <<client, server, link, up, toServer, stub, sent, got, calls,
                                       serverVars, crashes, failed>>

\* T_EXCEPTION: the struct that follows is read and thrown.
RecvException == /\ pc = "recv" /\ Starts(toClient, "exception")
                 /\ toClient' = ReadValue(XType, Default(XType), Tail(toClient)).in
                 /\ outcome' = "exception"
                 /\ pc' = "idle"
                 /\ UNCHANGED <<client, server, link, up, toServer, stub, sent, got, calls,
                                serverVars, crashes, failed>>

\* An answer to another method is skipped, and an answer is read all the same.
RecvReply == /\ pc = "recv" /\ Starts(toClient, "reply")
             /\ toClient' = IF Head(toClient).wire = stub.name THEN Tail(toClient)
                            ELSE Skip("STRUCT", Tail(toClient))
             /\ pc' = "read"
             /\ UNCHANGED <<client, server, link, up, toServer, stub, sent, got, outcome, calls,
                            serverVars, crashes, failed>>

ReadNext == /\ pc = "read" /\ Starts(toClient, "field")
            /\ LET r == ReadField(stub.presult, got, toClient)
               IN  got' = r.obj /\ toClient' = r.in
            /\ UNCHANGED <<client, server, link, up, toServer, pc, stub, sent, outcome, calls,
                           serverVars, crashes, failed>>

\* The end of the answer; without success the call throws MISSING_RESULT.
ReadStop == /\ pc = "read" /\ Starts(toClient, "stop")
            /\ toClient' = Tail(toClient)
            /\ outcome' = IF 0 \in got.isset THEN "returned" ELSE "exception"
            /\ pc' = "idle"
            /\ UNCHANGED <<client, server, link, up, toServer, stub, sent, got, calls,
                           serverVars, crashes, failed>>

\* The bytes end where the server was cut off.
ReadEof == /\ pc \in {"recv", "read"}
           /\ link = "gone" /\ (toClient = <<>> \/ Starts(toClient, "noise"))
           /\ link' = "reset"
           /\ toClient' = <<>>
           /\ Raise
           /\ UNCHANGED <<client, server, up, toServer, stub, sent, got, calls,
                          serverVars, crashes>>

\* The reader has lost its place on a connection that is up: what it makes of the
\* bytes, and what the calls after it do, is not modelled.
ReadNoise == /\ pc \in {"recv", "read"}
             /\ link # "gone" /\ Starts(toClient, "noise")
             /\ pc' = "lost"
             /\ UNCHANGED <<client, server, link, up, toServer, toClient, stub, sent, got, outcome,
                            calls, serverVars, crashes, failed>>

-----------------------------------------------------------------------------
(* The thread of the server that has the connection.                       *)

Known(name) == \E e \in Processor(server) : e.name = name

\* dispatchCall and the first half of a process function: read the arguments.
Dispatch == /\ up /\ ~handling /\ Starts(toServer, "call")
            /\ Known(Head(toServer).wire)
            /\ entry' = CHOOSE e \in Processor(server) : e.name = Head(toServer).wire
            /\ LET r == ReadValue(entry'.args, Default(entry'.args), Tail(toServer))
               IN  heard' = r.obj /\ toServer' = r.in
            /\ handling' = TRUE
            /\ UNCHANGED <<client, server, link, up, toClient, clientVars, said, crashes, failed>>

Reply(message) == /\ toClient' = toClient \o message
                  /\ UNCHANGED <<client, server, link, up, clientVars, crashes, failed>>

UnknownMethod == /\ up /\ ~handling /\ Starts(toServer, "call")
                 /\ ~Known(Head(toServer).wire)
                 /\ toServer' = Skip("STRUCT", Tail(toServer))
                 /\ Reply(Message("exception", Head(toServer).wire, XType, XValue))
                 /\ UNCHANGED serverVars

HandlerReturns == /\ handling
                  /\ said' \in ValuesOf(entry.result, IF calls = 1 THEN MaxLen ELSE LaterLen)
                  /\ handling' = FALSE
                  /\ Reply(Message("reply", entry.name, entry.result, said'))
                  /\ UNCHANGED <<toServer, entry, heard>>

HandlerThrows == /\ handling
                 /\ handling' = FALSE
                 /\ Reply(Message("exception", entry.name, XType, XValue))
                 /\ UNCHANGED <<toServer, entry, heard, said>>

\* Of the bytes to the client any number still arrives.
Crash == /\ up /\ crashes < MaxCrashes
         /\ up' = FALSE
         /\ link' = IF link = "open" THEN "gone" ELSE link
         /\ toServer' = <<>>
         /\ \E n \in 0 .. Len(toClient) : toClient' = SubSeq(toClient, 1, n)
         /\ handling' = FALSE
         /\ crashes' = crashes + 1
         /\ UNCHANGED <<client, server, clientVars, entry, heard, said, failed>>

Restart == /\ ~up
           /\ up' = TRUE
           /\ failed' = 0
           /\ UNCHANGED <<client, server, link, toServer, toClient, clientVars, serverVars,
                          crashes>>

Next == \/ OpenFails \/ SendFails \/ Send
        \/ RecvException \/ RecvReply \/ ReadNext \/ ReadStop \/ ReadEof \/ ReadNoise
        \/ Dispatch \/ UnknownMethod \/ HandlerReturns \/ HandlerThrows
        \/ Crash \/ Restart

Spec == Init /\ [][Next]_vars

-----------------------------------------------------------------------------
Own == client = server

\* Both sides of every method the client and the server have in common agree on
\* the elements of the lists they share.
Compatible == \A s \in Client(client), e \in Processor(server) :
                s.name = e.name => Agree(s.pargs, e.args) /\ Agree(e.result, s.presult)

(* The handler gets what the caller passed and the caller what the handler *)
(* returned, whatever happened on the connection before.  Between a client *)
(* and a server of two services the fields both know under one number and  *)
(* type arrive, and every other keeps what its constructor put there, so   *)
(* that neither side can tell.                                             *)
Understood ==
  /\ handling => /\ heard = Project(stub.pargs, entry.args, sent)
                 /\ Own => heard = sent
  /\ outcome = "returned" /\ Compatible =>
       /\ got = Project(entry.result, stub.presult, said)
       /\ Own => got = said

(* Between two calls nothing of the last one is left on the connection, in *)
(* either direction, also when it threw: the plain client never compares a *)
(* sequence number, so the next call would take it for its own answer.     *)
NothingLeft == pc = "idle" /\ link \in {"open", "closed"} /\ Compatible
                 => toServer = <<>> /\ toClient = <<>>

(* The wrapper reopens a socket that says it is closed, and a socket says  *)
(* so only after a write to it failed: once the server is back at most two *)
(* calls fail before one gets through.                                     *)
FailsTwiceAtMost == failed <= 2
=============================================================================
