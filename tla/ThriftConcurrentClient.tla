----------------------- MODULE ThriftConcurrentClient ------------------------
(***************************************************************************)
(* The concurrent clients of the three services: threads that share one   *)
(* connection, each call with a sequence number of its own.  Whoever has  *)
(* the read mutex reads the header of the next answer; if it is another's *)
(* it leaves the header to that one and waits for its turn.  The send_    *)
(* and recv_ functions are generated; what they call of sync_ is the      *)
(* TConcurrentClientSyncInfo of the library.                              *)
(***************************************************************************)
EXTENDS Integers, Sequences

CONSTANTS Calls,    \* calls, each made by a thread of its own, once
          Plans,    \* which method each call may call
          MaxSpurious,  \* bound: wake-ups without a notification
          Nobody,   \* no thread has the mutex
          NoHeader  \* no header is pending

Seqids  == Nat
Stub(service, name) == [service |-> service, name |-> name]
CannonGet       == Stub("cannon", "get")
CannonInsert    == Stub("cannon", "insert")
CannonClearData == Stub("cannon", "clear_data")
ProxyVersion    == Stub("proxy", "version")
ProxyReload     == Stub("proxy", "reload")
ProxyGet        == Stub("proxy", "get")
NodeGet         == Stub("node", "get")

Stubs    == {CannonGet, CannonInsert, CannonClearData, ProxyVersion, ProxyReload, ProxyGet, NodeGet}
Requests == [seq : Seqids, stub : Stubs]
Messages == [seq : Seqids, stub : Stubs, type : {"reply", "exception"}]

ASSUME SpuriousAssumption == MaxSpurious \in Nat
ASSUME NobodyAssumption == Nobody \notin Calls
ASSUME HeaderAssumption == NoHeader \notin Messages
ASSUME PlansAssumption  == Plans \subseteq [Calls -> Stubs]

Pcs      == {"idle", "send", "lock", "turn", "header", "body", "check", "block",
             "waiting", "returned", "threw"}

VARIABLES
  requests,   \* calls on their way to the server
  stream,     \* answers on their way to the client
  headerRead, \* the header of the first of them has been read
  down,       \* the server is gone
  (* sync_ *)
  nextSeqid, monitors, pending, wakeupSomeone, stop, readMutex,
  (* the threads *)
  pc, seqid,
  method,     \* the method the thread calls
  notified,
  answer,     \* the message whose body the call has read
  spurious    \* wake-ups without a notification so far

wireVars == <<requests, stream, headerRead, down>>
syncVars == <<nextSeqid, monitors, pending, wakeupSomeone, stop, readMutex>>
vars == <<wireVars, syncVars, pc, seqid, method, notified, answer, spurious>>

Init ==
  /\ requests = {} /\ stream = <<>> /\ headerRead = FALSE /\ down = FALSE
  /\ nextSeqid = 1 /\ monitors = {} /\ pending = NoHeader
  /\ wakeupSomeone = FALSE /\ stop = FALSE /\ readMutex = Nobody
  /\ pc       = [c \in Calls |-> "idle"]
  /\ seqid    = [c \in Calls |-> 0]
  /\ method \in Plans
  /\ notified = [c \in Calls |-> FALSE]
  /\ answer   = [c \in Calls |-> NoHeader]
  /\ spurious = 0

Goto(c, label) == pc' = [pc EXCEPT ![c] = label]

\* Monitor::notify on the monitors of some sequence numbers: it is lost on a thread
\* that does not wait.
Notify(seqs) ==
  notified' = [c \in Calls |-> notified[c] \/ (pc[c] = "waiting" /\ seqid[c] \in seqs)]

\* Mutant: a call that ends well wakes nobody.
Leave_Quietly(c, committed, label) ==
  /\ monitors' = monitors \ {seqid[c]}
  /\ stop' = (stop \/ ~committed)
  /\ wakeupSomeone' = TRUE
  /\ IF committed THEN UNCHANGED notified ELSE Notify(monitors')
  /\ readMutex' = Nobody
  /\ Goto(c, label)
  /\ UNCHANGED nextSeqid

\* ~TConcurrentRecvSentry: wakeupAnyone_ wakes the newest call, markBad_ all of them.
Leave(c, committed, label) ==
  /\ monitors' = monitors \ {seqid[c]}
  /\ stop' = (stop \/ ~committed)
  /\ wakeupSomeone' = TRUE
  /\ Notify(IF committed THEN {s \in monitors' : \A t \in monitors' : t <= s} ELSE monitors')
  /\ readMutex' = Nobody
  /\ Goto(c, label)
  /\ UNCHANGED nextSeqid

-------------------------------------------------------------------------------
(* send_                                                                    *)

\* generateSeqId on a connection that is dead.
CallRefused(c) ==
  /\ pc[c] = "idle" /\ stop
  /\ Goto(c, "threw")
  /\ UNCHANGED <<wireVars, syncVars, seqid, method, notified, answer, spurious>>

\* Mutant: every call has sequence number 1, as in the plain client.
GenerateSeqId_Same(c) ==
  /\ pc[c] = "idle" /\ ~stop
  /\ seqid' = [seqid EXCEPT ![c] = nextSeqid]
  /\ monitors' = monitors \union {nextSeqid}
  /\ Goto(c, "send")
  /\ UNCHANGED <<wireVars, nextSeqid, pending, wakeupSomeone, stop, readMutex, method, notified, answer, spurious>>

GenerateSeqId(c) ==
  /\ pc[c] = "idle" /\ ~stop
  /\ seqid' = [seqid EXCEPT ![c] = nextSeqid]
  /\ nextSeqid' = nextSeqid + 1
  /\ monitors' = monitors \union {nextSeqid}
  /\ Goto(c, "send")
  /\ UNCHANGED <<wireVars, pending, wakeupSomeone, stop, readMutex, method, notified, answer, spurious>>

\* The message is written under the write mutex, and lost when the server is gone.
Send(c) ==
  /\ pc[c] = "send"
  /\ requests' = IF down THEN requests
                 ELSE requests \union {[seq |-> seqid[c], stub |-> method[c]]}
  /\ Goto(c, "lock")
  /\ UNCHANGED <<stream, headerRead, down, syncVars, seqid, method, notified, answer, spurious>>

\* ~TConcurrentSendSentry without a commit; the monitor stays in the map.
SendThrows(c) ==
  /\ pc[c] = "send" /\ down
  /\ stop' = TRUE /\ wakeupSomeone' = TRUE
  /\ Notify(monitors)
  /\ Goto(c, "threw")
  /\ UNCHANGED <<wireVars, nextSeqid, monitors, pending, readMutex, seqid, method, answer, spurious>>

-------------------------------------------------------------------------------
(* recv_                                                                    *)

\* The sentry locks the read mutex.
RecvLock(c) ==
  /\ pc[c] = "lock" /\ readMutex = Nobody
  /\ readMutex' = c
  /\ Goto(c, "turn")
  /\ UNCHANGED <<wireVars, nextSeqid, monitors, pending, wakeupSomeone, stop,
                 seqid, method, notified, answer, spurious>>

\* The thread has a header: it goes on to the body, or leaves the header to the call it
\* belongs to (updatePending, which throws when no monitor has that number).
Take(c, h) ==
  IF h.seq = seqid[c]
  THEN /\ pending' = NoHeader
       /\ Goto(c, "body")
       /\ UNCHANGED <<nextSeqid, monitors, stop, readMutex, notified>>
  ELSE /\ pending' = h
       /\ IF h.seq \in monitors
          THEN /\ Notify({h.seq})
               /\ Goto(c, "check")
               /\ UNCHANGED <<nextSeqid, monitors, stop, readMutex>>
          ELSE /\ monitors' = monitors \ {seqid[c]}
               /\ stop' = TRUE
               /\ Notify(monitors')
               /\ readMutex' = Nobody
               /\ Goto(c, "threw")
               /\ UNCHANGED nextSeqid

\* getPending: there is a header that somebody left, or there is none.
GetPending(c) ==
  /\ pc[c] = "turn" /\ ~stop
  /\ wakeupSomeone' = FALSE
  /\ IF pending # NoHeader THEN Take(c, pending)
     ELSE /\ Goto(c, "header")
          /\ UNCHANGED <<nextSeqid, monitors, pending, stop, readMutex, notified>>
  /\ UNCHANGED <<wireVars, seqid, method, answer, spurious>>

\* readMessageBegin: waits for bytes.
ReadHeader(c) ==
  /\ pc[c] = "header" /\ stream # <<>>
  /\ headerRead' = TRUE
  /\ Take(c, Head(stream))
  /\ UNCHANGED <<requests, stream, down, wakeupSomeone, seqid, method, answer, spurious>>

\* getPending or waitForWork on a connection that is dead.
DeadConnection(c) ==
  /\ pc[c] \in {"turn", "check"} /\ stop
  /\ Leave(c, FALSE, "threw")
  /\ UNCHANGED <<wireVars, pending, seqid, method, answer, spurious>>

\* The struct of the answer: only an answer to another method is not committed.
ReadBody(c) ==
  /\ pc[c] = "body" /\ stream # <<>>
  /\ LET m == Head(stream)
         committed == m.type = "exception" \/ m.stub = method[c]
     IN  /\ answer' = [answer EXCEPT ![c] = m]
         /\ Leave(c, committed,
                  IF m.type = "reply" /\ committed THEN "returned" ELSE "threw")
  /\ stream' = Tail(stream)
  /\ headerRead' = FALSE
  /\ UNCHANGED <<requests, down, pending, seqid, method, spurious>>

\* The bytes end where the server was cut off.
ReadEof(c) ==
  /\ pc[c] \in {"header", "body"} /\ down /\ stream = <<>>
  /\ Leave(c, FALSE, "threw")
  /\ UNCHANGED <<wireVars, pending, seqid, method, answer, spurious>>

\* waitForWork: there is something to do, ...
Proceed(c) ==
  /\ pc[c] = "check" /\ ~stop
  /\ wakeupSomeone \/ (pending # NoHeader /\ pending.seq = seqid[c])
  /\ Goto(c, "turn")
  /\ UNCHANGED <<wireVars, syncVars, seqid, method, notified, answer, spurious>>

\* ... or there is nothing, ...
NothingToDo(c) ==
  /\ pc[c] = "check" /\ ~stop
  /\ ~wakeupSomeone /\ (pending = NoHeader \/ pending.seq # seqid[c])
  /\ Goto(c, "block")
  /\ UNCHANGED <<wireVars, syncVars, seqid, method, notified, answer, spurious>>

\* ... and the thread waits on its monitor, which releases the read mutex.  A call that
\* fails to send takes no read mutex: what it tells in between is lost on this thread ...
Block(c) ==
  /\ pc[c] = "block"
  /\ readMutex' = Nobody
  /\ notified' = [notified EXCEPT ![c] = FALSE]
  /\ Goto(c, "waiting")
  /\ UNCHANGED <<wireVars, nextSeqid, monitors, pending, wakeupSomeone, stop,
                 seqid, method, answer, spurious>>

\* ... and takes it again, notified or spuriously.
WakeUp(c) ==
  /\ pc[c] = "waiting" /\ readMutex = Nobody
  /\ readMutex' = c
  /\ Goto(c, "check")
  /\ UNCHANGED <<wireVars, nextSeqid, monitors, pending, wakeupSomeone, stop,
                 seqid, method, notified, answer>>

Wake(c)         == notified[c] /\ WakeUp(c) /\ UNCHANGED spurious
SpuriousWake(c) == /\ ~notified[c] /\ WakeUp(c)
                   /\ spurious < MaxSpurious /\ spurious' = spurious + 1

-------------------------------------------------------------------------------
(* The server may answer in any order and may be gone at any moment.        *)

Answer(r) ==
  /\ requests' = requests \ {r}
  /\ \E type \in {"reply", "exception"} :
       stream' = Append(stream, [seq |-> r.seq, stub |-> r.stub, type |-> type])
  /\ UNCHANGED <<headerRead, down, syncVars, pc, seqid, method, notified, answer, spurious>>

\* What was not sent is lost, and so may be the end of what was.
Crash ==
  /\ ~down /\ down' = TRUE
  /\ requests' = {}
  /\ \E n \in 0 .. Len(stream) : stream' = SubSeq(stream, 1, n)
  /\ UNCHANGED <<headerRead, syncVars, pc, seqid, method, notified, answer, spurious>>

CallStep(c) ==
  \/ Send(c) \/ SendThrows(c) \/ RecvLock(c) \/ GetPending(c) \/ ReadHeader(c)
  \/ DeadConnection(c) \/ ReadBody(c) \/ ReadEof(c) \/ Proceed(c) \/ NothingToDo(c)
  \/ Block(c) \/ Wake(c)

Next ==
  \/ \E c \in Calls : CallRefused(c) \/ GenerateSeqId(c) \/ CallStep(c) \/ SpuriousWake(c)
  \/ \E r \in requests : Answer(r)
  \/ Crash

Spec == Init /\ [][Next]_vars

\* Every thread is scheduled, and the server answers what it has while it runs.  Weak
\* fairness is enough for the read mutex: a thread that takes it has a header to take or
\* to hand over, and there are finitely many.
Fairness ==
  /\ \A c \in Calls : WF_vars(CallStep(c))
  /\ WF_vars(\E r \in requests : Answer(r))

FairSpec == Spec /\ Fairness

-------------------------------------------------------------------------------
(* Properties                                                               *)

\* Type invariant: the shape of the connection, of sync_ and of the threads.
TypeOK ==
  /\ requests \subseteq Requests /\ stream \in Seq(Messages)
  /\ headerRead \in BOOLEAN /\ down \in BOOLEAN
  /\ nextSeqid \in Nat \ {0} /\ monitors \subseteq Nat
  /\ pending \in Messages \union {NoHeader}
  /\ wakeupSomeone \in BOOLEAN /\ stop \in BOOLEAN
  /\ readMutex \in Calls \union {Nobody}
  /\ pc \in [Calls -> Pcs] /\ seqid \in [Calls -> Nat] /\ method \in [Calls -> Stubs]
  /\ notified \in [Calls -> BOOLEAN]
  /\ answer \in [Calls -> Messages \union {NoHeader}]
  /\ spurious \in Nat

\* The inductive strengthening of OwnAnswer.  Sequence numbers are given once, and what
\* is on the connection is the message of the call that has its number; ...
Numbered(m) == /\ m.seq \in 1 .. nextSeqid - 1
               /\ \A c \in Calls : seqid[c] = m.seq => method[c] = m.stub /\ pc[c] # "send"

Numbers ==
  /\ \A c \in Calls : /\ seqid[c] < nextSeqid
                      /\ pc[c] = "idle" => seqid[c] = 0 /\ answer[c] = NoHeader
                      /\ pc[c] \notin {"idle", "threw"} => seqid[c] > 0
  /\ \A c, d \in Calls : seqid[c] = seqid[d] /\ seqid[c] > 0 => c = d
  /\ \A r \in requests : Numbered(r)
  /\ \A i \in DOMAIN stream : Numbered(stream[i])

\* ... the mutex is held exactly in the part of recv_ between its locks; ...
Reading == {"turn", "header", "body", "check", "block"}
Mutex == \A c \in Calls : pc[c] \in Reading <=> readMutex = c

\* ... and a header that was read is with a call that reads the body, or pending, unless
\* the connection is dead.
Headers ==
  /\ down => requests = {}
  /\ headerRead /\ stream = <<>> => down
  /\ pending # NoHeader => headerRead /\ (stream # <<>> => Head(stream) = pending)
  /\ headerRead /\ ~stop => pending # NoHeader \/ \E c \in Calls : pc[c] = "body"
  /\ \A c \in Calls : pc[c] = "header" => ~headerRead
  /\ \A c \in Calls : pc[c] = "body" =>
       /\ headerRead /\ pending = NoHeader
       /\ stream # <<>> => Head(stream).seq = seqid[c]

\* Cannon.h:511-513: the concurrent client is "thread safe" and "correctly handles out of
\* order responses": what a call reads, through any hand-over of headers, is the answer
\* to itself, and no body is taken for a header.
OwnAnswer ==
  /\ \A c \in Calls : answer[c] # NoHeader => answer[c].seq = seqid[c] /\ answer[c].stub = method[c]
  /\ \A c \in Calls : pc[c] = "header" => ~headerRead

ClientInv == TypeOK /\ Numbers /\ Mutex /\ Headers /\ OwnAnswer

\* The duty to read is never lost: while a thread sleeps with no notification, another
\* one is awake that has the mutex or will take it, and a header that was left for a
\* call was left to a thread that is awake or notified.  That the notification of a send
\* which fails may be lost changes nothing.
Awake(c) == pc[c] \in {"send", "lock", "turn", "header", "body", "check"}
              \/ (pc[c] = "waiting" /\ notified[c])
NoLostHandOver ==
  \A c \in Calls : pc[c] = "waiting" /\ ~notified[c] =>
    /\ \E d \in Calls : Awake(d)
    /\ pending # NoHeader => pending.seq # seqid[c]

\* The inductive strengthening of NoLostHandOver.  The monitors are those of the calls
\* that have begun and not ended, as long as the connection is not dead; ...
Active(c) == pc[c] \notin {"idle", "returned", "threw"}

Monitored ==
  /\ \A c \in Calls : Active(c) => seqid[c] \in monitors
  /\ stop \/ \A s \in monitors : \E c \in Calls : Active(c) /\ seqid[c] = s

\* ... a call that is about to wait has nothing to do, and another one comes for the mutex; ...
Comes(c) == pc[c] = "lock" \/ (pc[c] = "waiting" /\ notified[c])

BlockIsCovered ==
  \A c \in Calls : pc[c] = "block" =>
    /\ \E d \in Calls : Comes(d)
    /\ pending # NoHeader => pending.seq # seqid[c]

\* ... on a dead connection all that wait were told, or one that comes for the mutex or
\* has it will test the flag stop and tell them; ...
FindsOut(c) == Comes(c) \/ pc[c] \in {"turn", "check"}

AllTold ==
  stop /\ (\E c \in Calls : pc[c] = "waiting" /\ ~notified[c]) => \E d \in Calls : FindsOut(d)

\* ... a header that is pending was left to a call that will come for it; ...
HeaderHasTaker ==
  pending # NoHeader /\ ~stop =>
    \E c \in Calls : seqid[c] = pending.seq /\ Awake(c) /\ pc[c] # "send"

\* ... and who may have to wait does so because somebody reads, or else finds the flag up
\* or a header.
SomebodyReads ==
  (\E c \in Calls : pc[c] \in {"check", "block", "waiting"}) =>
    \/ stop \/ wakeupSomeone \/ pending # NoHeader
    \/ \E c \in Calls : pc[c] \in {"header", "body"}

HandOverInv ==
  ClientInv /\ Monitored /\ BlockIsCovered /\ AllTold /\ HeaderHasTaker /\ SomebodyReads /\ NoLostHandOver

\* Every call ends, with an answer, an exception or the death of the connection.
CallsEnd == \A c \in Calls : pc[c] = "send" ~> pc[c] \in {"returned", "threw"}
===============================================================================
