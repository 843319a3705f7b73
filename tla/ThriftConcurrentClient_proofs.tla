-------------------- MODULE ThriftConcurrentClient_proofs --------------------
(***************************************************************************)
(* Every call on a shared connection reads the answer to itself, for any  *)
(* number of calls: ClientInv is inductive.  One lemma per conjunct, with *)
(* one step per action that can disturb it.                               *)
(***************************************************************************)
EXTENDS ThriftConcurrentClient, SequenceTheorems, SetInduction, TLAPS

-------------------------------------------------------------------------------
(* Records and sequences.                                                   *)

\* A request that the server answers makes a message of the same number and method.
LEMMA AnswerIsMessage ==
  ASSUME NEW r \in Requests, NEW type \in {"reply", "exception"}
  PROVE  [seq |-> r.seq, stub |-> r.stub, type |-> type] \in Messages
BY DEF Requests, Messages

\* A message has the number of a call, and the stub of a method.
LEMMA MessageFields ==
  ASSUME NEW h \in Messages
  PROVE  h.seq \in Nat /\ h.stub \in Stubs
BY DEF Messages, Seqids

\* What a crash leaves of the answers is a prefix of them.
LEMMA Prefix ==
  ASSUME NEW s \in Seq(Messages), NEW n \in 0 .. Len(s)
  PROVE  /\ SubSeq(s, 1, n) \in Seq(Messages)
         /\ Len(SubSeq(s, 1, n)) = n
         /\ \A i \in 1 .. n : SubSeq(s, 1, n)[i] = s[i]
         /\ SubSeq(s, 1, n) # <<>> => s # <<>> /\ Head(SubSeq(s, 1, n)) = Head(s)
OBVIOUS

\* An answer that arrives goes behind those that are there.
LEMMA AppendHead ==
  ASSUME NEW s \in Seq(Messages), NEW m \in Messages
  PROVE  Append(s, m) # <<>> /\ (s # <<>> => Head(Append(s, m)) = Head(s))
OBVIOUS

-------------------------------------------------------------------------------
(* The steps, one by one: each lemma is about a conjunct of ClientInv.      *)

\* Type correctness is preserved.
LEMMA TypeOKStep == ClientInv /\ [Next]_vars => TypeOK'
<1> SUFFICES ASSUME ClientInv, [Next]_vars PROVE TypeOK'
    OBVIOUS
<1> USE SpuriousAssumption, NobodyAssumption, PlansAssumption
<1>t. TypeOK
    BY DEF ClientInv
<1>1. ASSUME NEW c \in Calls, CallRefused(c) PROVE TypeOK'
    BY <1>1, <1>t DEF TypeOK, CallRefused, Goto, wireVars, syncVars, Pcs
<1>2. ASSUME NEW c \in Calls, GenerateSeqId(c) PROVE TypeOK'
    BY <1>2, <1>t DEF TypeOK, GenerateSeqId, Goto, wireVars, Pcs
<1>3. ASSUME NEW c \in Calls, Send(c) PROVE TypeOK'
  <2>1. [seq |-> seqid[c], stub |-> method[c]] \in Requests
      BY <1>t DEF TypeOK, Requests, Seqids
  <2>2. requests' \subseteq Requests
      BY <2>1, <1>3, <1>t DEF TypeOK, Send
  <2> QED
      BY <2>2, <1>3, <1>t DEF TypeOK, Send, Goto, syncVars, Pcs
<1>4. ASSUME NEW c \in Calls, SendThrows(c) PROVE TypeOK'
    BY <1>4, <1>t DEF TypeOK, SendThrows, Notify, Goto, wireVars, Pcs
<1>5. ASSUME NEW c \in Calls, RecvLock(c) PROVE TypeOK'
    BY <1>5, <1>t DEF TypeOK, RecvLock, Goto, wireVars, Pcs
<1>h. ASSUME NEW c \in Calls, NEW h \in Messages, Take(c, h)
      PROVE  /\ nextSeqid' = nextSeqid /\ monitors' \subseteq Nat
             /\ pending' \in Messages \union {NoHeader}
             /\ stop' \in BOOLEAN /\ readMutex' \in Calls \union {Nobody}
             /\ pc' \in [Calls -> Pcs] /\ notified' \in [Calls -> BOOLEAN]
  <2>1. CASE h.seq = seqid[c]
      BY <2>1, <1>h, <1>t DEF TypeOK, Take, Goto, Pcs
  <2>2. CASE h.seq # seqid[c] /\ h.seq \in monitors
    <3>1. Notify({h.seq}) /\ Goto(c, "check") /\ pending' = h
          /\ UNCHANGED <<nextSeqid, monitors, stop, readMutex>>
        BY <2>2, <1>h DEF Take
    <3> QED
        BY <3>1, <1>t DEF TypeOK, Notify, Goto, Pcs
  <2>3. CASE h.seq # seqid[c] /\ h.seq \notin monitors
    <3>1. /\ Notify(monitors') /\ Goto(c, "threw") /\ pending' = h
          /\ monitors' = monitors \ {seqid[c]} /\ stop' = TRUE /\ readMutex' = Nobody
          /\ UNCHANGED nextSeqid
        BY <2>3, <1>h DEF Take
    <3> QED
        BY <3>1, <1>t DEF TypeOK, Notify, Goto, Pcs
  <2> QED
      BY <2>1, <2>2, <2>3
<1>6. ASSUME NEW c \in Calls, GetPending(c) PROVE TypeOK'
  <2>1. CASE pending # NoHeader
    <3>1. pending \in Messages /\ Take(c, pending)
        BY <2>1, <1>6, <1>t DEF TypeOK, GetPending
    <3> QED
        BY <3>1, <1>h, <1>6, <1>t DEF TypeOK, GetPending, wireVars
  <2>2. CASE pending = NoHeader
      BY <2>2, <1>6, <1>t DEF TypeOK, GetPending, Goto, wireVars, Pcs
  <2> QED
      BY <2>1, <2>2
<1>7. ASSUME NEW c \in Calls, ReadHeader(c) PROVE TypeOK'
  <2>1. Head(stream) \in Messages
      BY <1>7, <1>t DEF TypeOK, ReadHeader
  <2>2. Take(c, Head(stream))
      BY <1>7 DEF ReadHeader
  <2> QED
      BY <2>1, <2>2, <1>h, <1>7, <1>t DEF TypeOK, ReadHeader
<1>l. ASSUME NEW c \in Calls, NEW committed \in BOOLEAN,
             NEW label \in {"returned", "threw"}, Leave(c, committed, label)
      PROVE  /\ nextSeqid' = nextSeqid /\ monitors' \subseteq Nat
             /\ wakeupSomeone' \in BOOLEAN
             /\ stop' \in BOOLEAN /\ readMutex' \in Calls \union {Nobody}
             /\ pc' \in [Calls -> Pcs] /\ notified' \in [Calls -> BOOLEAN]
    BY <1>l, <1>t DEF TypeOK, Leave, Notify, Goto, Pcs
<1>8. ASSUME NEW c \in Calls, DeadConnection(c) PROVE TypeOK'
    BY <1>8, <1>l, <1>t DEF TypeOK, DeadConnection, wireVars
<1>9. ASSUME NEW c \in Calls, ReadBody(c) PROVE TypeOK'
  <2>1. Head(stream) \in Messages /\ Tail(stream) \in Seq(Messages)
      BY <1>9, <1>t DEF TypeOK, ReadBody
  <2>2. PICK committed \in BOOLEAN, label \in {"returned", "threw"} : Leave(c, committed, label)
      BY <1>9 DEF ReadBody
  <2>3. answer' \in [Calls -> Messages \union {NoHeader}]
      BY <2>1, <1>9, <1>t DEF TypeOK, ReadBody
  <2> QED
      BY <2>1, <2>2, <2>3, <1>l, <1>9, <1>t DEF TypeOK, ReadBody
<1>10. ASSUME NEW c \in Calls, ReadEof(c) PROVE TypeOK'
    BY <1>10, <1>l, <1>t DEF TypeOK, ReadEof, wireVars
<1>11. ASSUME NEW c \in Calls, Proceed(c) PROVE TypeOK'
    BY <1>11, <1>t DEF TypeOK, Proceed, Goto, wireVars, syncVars, Pcs
<1>12. ASSUME NEW c \in Calls, NothingToDo(c) \/ Block(c) PROVE TypeOK'
    BY <1>12, <1>t DEF TypeOK, NothingToDo, Block, Goto, wireVars, syncVars, Pcs
<1>13. ASSUME NEW c \in Calls, Wake(c) \/ SpuriousWake(c) PROVE TypeOK'
  <2>1. spurious' \in Nat /\ WakeUp(c)
      BY <1>13, <1>t DEF TypeOK, Wake, SpuriousWake
  <2> QED
      BY <2>1, <1>t DEF TypeOK, WakeUp, Goto, wireVars, Pcs
<1>14. ASSUME NEW r \in requests, Answer(r) PROVE TypeOK'
  <2>1. PICK type \in {"reply", "exception"} :
          stream' = Append(stream, [seq |-> r.seq, stub |-> r.stub, type |-> type])
      BY <1>14 DEF Answer
  <2>2. [seq |-> r.seq, stub |-> r.stub, type |-> type] \in Messages
      BY <1>14, <1>t, AnswerIsMessage DEF TypeOK
  <2>3. stream' \in Seq(Messages)
      BY <2>1, <2>2, <1>t DEF TypeOK
  <2> QED
      BY <2>3, <1>14, <1>t DEF TypeOK, Answer, syncVars
<1>15. ASSUME Crash PROVE TypeOK'
  <2>1. stream' \in Seq(Messages)
      BY <1>15, <1>t, Prefix DEF TypeOK, Crash
  <2> QED
      BY <2>1, <1>15, <1>t DEF TypeOK, Crash, syncVars
<1>16. CASE UNCHANGED vars
    BY <1>16, <1>t DEF TypeOK, vars, wireVars, syncVars
<1> QED
    BY <1>1, <1>2, <1>3, <1>4, <1>5, <1>6, <1>7, <1>8, <1>9, <1>10, <1>11, <1>12, <1>13,
       <1>14, <1>15, <1>16 DEF Next, CallStep

\* The three ways to go on from a header: it is the thread's own, another call's, or
\* nobody's.
LEMMA TakeCases ==
  ASSUME NEW c \in Calls, NEW h, Take(c, h)
  PROVE  /\ nextSeqid' = nextSeqid
         /\ \/ /\ h.seq = seqid[c] /\ pending' = NoHeader
               /\ pc' = [pc EXCEPT ![c] = "body"] /\ UNCHANGED <<stop, readMutex>>
            \/ /\ pending' = h
               /\ pc' = [pc EXCEPT ![c] = "check"] /\ UNCHANGED <<stop, readMutex>>
            \/ /\ pending' = h /\ stop' = TRUE
               /\ pc' = [pc EXCEPT ![c] = "threw"] /\ readMutex' = Nobody
BY DEF Take, Goto

\* Sequence numbers are given once, and stay with the messages of their calls.
LEMMA NumbersStep == ClientInv /\ [Next]_vars => Numbers'
<1> SUFFICES ASSUME ClientInv, [Next]_vars PROVE Numbers'
    OBVIOUS
<1>t. TypeOK /\ Numbers /\ Headers /\ OwnAnswer
    BY DEF ClientInv
<1>q. ASSUME UNCHANGED <<requests, stream, nextSeqid, seqid, method, answer>>,
             \A c \in Calls : \/ pc'[c] = pc[c]
                              \/ pc'[c] = "threw"
                              \/ pc[c] \notin {"idle", "threw"} /\ pc'[c] \notin {"idle", "send"}
      PROVE  Numbers'
    BY <1>q, <1>t DEF Numbers, Numbered, TypeOK
<1>1. ASSUME NEW c \in Calls, CallRefused(c) PROVE Numbers'
    BY <1>1, <1>t, <1>q DEF TypeOK, CallRefused, Goto, wireVars, syncVars
<1>2. ASSUME NEW c \in Calls, GenerateSeqId(c) PROVE Numbers'
  <2>1. /\ seqid' = [seqid EXCEPT ![c] = nextSeqid] /\ nextSeqid' = nextSeqid + 1
        /\ pc' = [pc EXCEPT ![c] = "send"] /\ UNCHANGED <<requests, stream, method, answer>>
      BY <1>2 DEF GenerateSeqId, Goto, wireVars
  <2>2. \A d \in Calls : /\ seqid'[d] < nextSeqid'
                         /\ pc'[d] = "idle" => seqid'[d] = 0 /\ answer'[d] = NoHeader
                         /\ pc'[d] \notin {"idle", "threw"} => seqid'[d] > 0
      BY <2>1, <1>t DEF TypeOK, Numbers
  <2>3. \A d, e \in Calls : seqid'[d] = seqid'[e] /\ seqid'[d] > 0 => d = e
      BY <2>1, <1>t DEF TypeOK, Numbers
  <2>4. ASSUME NEW m, Numbered(m) PROVE Numbered(m)'
      BY <2>1, <2>4, <1>t DEF TypeOK, Numbered
  <2> QED
      BY <2>1, <2>2, <2>3, <2>4, <1>t DEF Numbers
<1>3. ASSUME NEW c \in Calls, Send(c) PROVE Numbers'
  <2>1. /\ UNCHANGED <<stream, nextSeqid, seqid, method, answer>>
        /\ pc' = [pc EXCEPT ![c] = "lock"] /\ pc[c] = "send"
        /\ requests' \subseteq requests \union {[seq |-> seqid[c], stub |-> method[c]]}
      BY <1>3 DEF Send, Goto, syncVars
  <2>2. Numbered([seq |-> seqid[c], stub |-> method[c]])'
    <3>1. seqid[c] \in 1 .. nextSeqid - 1
      <4>1. seqid[c] \in Nat /\ nextSeqid \in Nat
          BY <1>t DEF TypeOK
      <4>2. seqid[c] < nextSeqid /\ seqid[c] > 0
          BY <2>1, <1>t DEF Numbers
      <4> QED
          BY <4>1, <4>2
    <3>2. ASSUME NEW d \in Calls, seqid[d] = seqid[c]
          PROVE  method[d] = method[c] /\ pc'[d] # "send"
      <4>1. d = c
          BY <3>1, <3>2, <1>t DEF Numbers
      <4> QED
          BY <4>1, <2>1, <1>t DEF TypeOK
    <3> QED
        BY <3>1, <3>2, <2>1 DEF Numbered
  <2>3. \A r \in requests' : Numbered(r)'
      BY <2>1, <2>2, <1>t DEF Numbers, Numbered, TypeOK
  <2>4. (\A i \in DOMAIN stream : Numbered(stream[i]))'
      BY <2>1, <1>t DEF Numbers, Numbered, TypeOK
  <2> QED
      BY <2>1, <2>3, <2>4, <1>t DEF Numbers, TypeOK
<1>4. ASSUME NEW c \in Calls, SendThrows(c) PROVE Numbers'
    BY <1>4, <1>t, <1>q DEF TypeOK, SendThrows, Goto, wireVars
<1>5. ASSUME NEW c \in Calls, RecvLock(c) PROVE Numbers'
    BY <1>5, <1>t, <1>q DEF TypeOK, RecvLock, Goto, wireVars
<1>6. ASSUME NEW c \in Calls, GetPending(c) PROVE Numbers'
  <2>1. CASE pending # NoHeader
    <3>1. Take(c, pending) /\ pc[c] = "turn"
        BY <2>1, <1>6 DEF GetPending
    <3> QED
        BY <3>1, TakeCases, <1>6, <1>t, <1>q DEF TypeOK, GetPending, wireVars
  <2>2. CASE pending = NoHeader
      BY <2>2, <1>6, <1>t, <1>q DEF TypeOK, GetPending, Goto, wireVars
  <2> QED
      BY <2>1, <2>2
<1>7. ASSUME NEW c \in Calls, ReadHeader(c) PROVE Numbers'
  <2>1. Take(c, Head(stream)) /\ pc[c] = "header"
      BY <1>7 DEF ReadHeader
  <2> QED
      BY <2>1, TakeCases, <1>7, <1>t, <1>q DEF TypeOK, ReadHeader
<1>8. ASSUME NEW c \in Calls, DeadConnection(c) PROVE Numbers'
    BY <1>8, <1>t, <1>q DEF TypeOK, DeadConnection, Leave, Goto, wireVars
<1>9. ASSUME NEW c \in Calls, ReadBody(c) PROVE Numbers'
  <2>1. /\ UNCHANGED <<requests, nextSeqid, seqid, method>> /\ stream # <<>>
        /\ stream' = Tail(stream) /\ pc[c] = "body"
        /\ answer' = [answer EXCEPT ![c] = Head(stream)]
        /\ pc' = [pc EXCEPT ![c] = pc'[c]] /\ pc'[c] \in {"returned", "threw"}
      BY <1>9, <1>t DEF ReadBody, Leave, Goto, TypeOK
  <2>2. \A i \in DOMAIN stream' : i + 1 \in DOMAIN stream /\ stream'[i] = stream[i + 1]
      BY <2>1, <1>t DEF TypeOK
  <2>3. (\A i \in DOMAIN stream : Numbered(stream[i]))'
      BY <2>1, <2>2, <1>t DEF Numbers, Numbered, TypeOK
  <2>4. \A r \in requests' : Numbered(r)'
      BY <2>1, <1>t DEF Numbers, Numbered, TypeOK
  <2> QED
      BY <2>1, <2>3, <2>4, <1>t DEF Numbers, TypeOK
<1>10. ASSUME NEW c \in Calls, ReadEof(c) PROVE Numbers'
    BY <1>10, <1>t, <1>q DEF TypeOK, ReadEof, Leave, Goto, wireVars
<1>11. ASSUME NEW c \in Calls, Proceed(c) PROVE Numbers'
    BY <1>11, <1>t, <1>q DEF TypeOK, Proceed, Goto, wireVars, syncVars
<1>12. ASSUME NEW c \in Calls, NothingToDo(c) \/ Block(c) PROVE Numbers'
    BY <1>12, <1>t, <1>q DEF TypeOK, NothingToDo, Block, Goto, wireVars, syncVars
<1>13. ASSUME NEW c \in Calls, Wake(c) \/ SpuriousWake(c) PROVE Numbers'
  <2>1. WakeUp(c)
      BY <1>13 DEF Wake, SpuriousWake
  <2> QED
      BY <2>1, <1>t, <1>q DEF TypeOK, WakeUp, Goto, wireVars
<1>14. ASSUME NEW r \in requests, Answer(r) PROVE Numbers'
  <2>1. PICK type \in {"reply", "exception"} :
          stream' = Append(stream, [seq |-> r.seq, stub |-> r.stub, type |-> type])
      BY <1>14 DEF Answer
  <2>2. /\ UNCHANGED <<nextSeqid, seqid, method, answer, pc>> /\ requests' \subseteq requests
      BY <1>14 DEF Answer, syncVars
  <2>3. \A i \in DOMAIN stream' :
          \/ i \in DOMAIN stream /\ stream'[i] = stream[i]
          \/ stream'[i] = [seq |-> r.seq, stub |-> r.stub, type |-> type]
      BY <2>1, <1>t DEF TypeOK
  <2>4. (\A i \in DOMAIN stream : Numbered(stream[i]))'
      BY <2>2, <2>3, <1>14, <1>t DEF Numbers, Numbered
  <2>5. \A q \in requests' : Numbered(q)'
      BY <2>2, <1>t DEF Numbers, Numbered
  <2> QED
      BY <2>2, <2>4, <2>5, <1>t DEF Numbers
<1>15. ASSUME Crash PROVE Numbers'
  <2>1. /\ UNCHANGED <<nextSeqid, seqid, method, answer, pc>> /\ requests' = {}
      BY <1>15 DEF Crash, syncVars
  <2>2. \A i \in DOMAIN stream' : i \in DOMAIN stream /\ stream'[i] = stream[i]
      BY <1>15, <1>t, Prefix DEF Crash, TypeOK
  <2>3. (\A i \in DOMAIN stream : Numbered(stream[i]))'
      BY <2>1, <2>2, <1>t DEF Numbers, Numbered
  <2> QED
      BY <2>1, <2>3, <1>t DEF Numbers
<1>16. CASE UNCHANGED vars
    BY <1>16, <1>q DEF vars, wireVars, syncVars
<1> QED
    BY <1>1, <1>2, <1>3, <1>4, <1>5, <1>6, <1>7, <1>8, <1>9, <1>10, <1>11, <1>12, <1>13,
       <1>14, <1>15, <1>16 DEF Next, CallStep

\* The read mutex is held in the part of recv_ between its locks.
LEMMA MutexStep == ClientInv /\ [Next]_vars => Mutex'
<1> SUFFICES ASSUME ClientInv, [Next]_vars PROVE Mutex'
    OBVIOUS
<1> USE NobodyAssumption DEF Reading
<1>t. TypeOK /\ Mutex
    BY DEF ClientInv
<1>q. ASSUME NEW c \in Calls, NEW label,
             pc' = [pc EXCEPT ![c] = label],
             \/ pc[c] \notin Reading /\ label \notin Reading /\ readMutex' = readMutex
             \/ pc[c] \in Reading /\ label \in Reading /\ readMutex' = readMutex
             \/ pc[c] \in Reading /\ label \notin Reading /\ readMutex' = Nobody
             \/ readMutex = Nobody /\ label \in Reading /\ readMutex' = c
      PROVE  Mutex'
    BY <1>q, <1>t DEF Mutex, TypeOK
<1>1. ASSUME NEW c \in Calls, CallRefused(c) \/ GenerateSeqId(c) \/ Send(c) \/ SendThrows(c)
      PROVE  Mutex'
    BY <1>1, <1>q DEF CallRefused, GenerateSeqId, Send, SendThrows, Goto, syncVars
<1>2. ASSUME NEW c \in Calls, RecvLock(c) PROVE Mutex'
    BY <1>2, <1>q DEF RecvLock, Goto
<1>3. ASSUME NEW c \in Calls, NEW h, Take(c, h), pc[c] \in Reading PROVE Mutex'
    BY <1>3, TakeCases, <1>q
<1>4. ASSUME NEW c \in Calls, GetPending(c) PROVE Mutex'
    BY <1>4, <1>3, <1>q DEF GetPending, Goto
<1>5. ASSUME NEW c \in Calls, ReadHeader(c) PROVE Mutex'
    BY <1>5, <1>3 DEF ReadHeader
<1>6. ASSUME NEW c \in Calls, DeadConnection(c) \/ ReadBody(c) \/ ReadEof(c) PROVE Mutex'
  <2>1. PICK label \in {"returned", "threw"} :
          pc' = [pc EXCEPT ![c] = label] /\ readMutex' = Nobody
      BY <1>6 DEF DeadConnection, ReadBody, ReadEof, Leave, Goto
  <2>2. pc[c] \in Reading
      BY <1>6 DEF DeadConnection, ReadBody, ReadEof
  <2> QED
      BY <2>1, <2>2, <1>q
<1>7. ASSUME NEW c \in Calls, Proceed(c) \/ NothingToDo(c) \/ Block(c) PROVE Mutex'
    BY <1>7, <1>q DEF Proceed, NothingToDo, Block, Goto, syncVars
<1>8. ASSUME NEW c \in Calls, Wake(c) \/ SpuriousWake(c) PROVE Mutex'
    BY <1>8, <1>q DEF Wake, SpuriousWake, WakeUp, Goto
<1>9. ASSUME UNCHANGED <<pc, readMutex>> PROVE Mutex'
    BY <1>9, <1>t DEF Mutex
<1>10. ASSUME NEW r \in requests, Answer(r) PROVE Mutex'
    BY <1>10, <1>9 DEF Answer, syncVars
<1>11. ASSUME Crash PROVE Mutex'
    BY <1>11, <1>9 DEF Crash, syncVars
<1>12. CASE UNCHANGED vars
    BY <1>12, <1>9 DEF vars, syncVars
<1> QED
    BY <1>1, <1>2, <1>4, <1>5, <1>6, <1>7, <1>8, <1>10, <1>11, <1>12 DEF Next, CallStep

\* A header that was read is with a call that reads the body, or pending.
LEMMA HeadersStep == ClientInv /\ [Next]_vars => Headers'
<1> SUFFICES ASSUME ClientInv, [Next]_vars PROVE Headers'
    OBVIOUS
<1> USE HeaderAssumption
<1>t. TypeOK /\ Numbers /\ Mutex /\ Headers
    BY DEF ClientInv
<1>alone. \A c, d \in Calls : pc[c] \in Reading /\ pc[d] \in Reading => c = d
    BY <1>t DEF Mutex
<1>q. ASSUME UNCHANGED <<stream, headerRead, down, pending>>,
             down => requests' = {},
             stop' \in {stop, TRUE},
             \A d \in Calls : pc'[d] \in {"header", "body"} => pc'[d] = pc[d] /\ seqid'[d] = seqid[d],
             stop' \/ \A d \in Calls : pc[d] = "body" => pc'[d] = "body"
      PROVE  Headers'
    BY <1>q, <1>t DEF Headers, TypeOK
<1>down. down => requests = {}
    BY <1>t DEF Headers
<1>k. ASSUME NEW c \in Calls, NEW h \in Messages, Take(c, h), headerRead' = TRUE,
             UNCHANGED <<stream, down, requests, seqid>>,
             IF stream = <<>> THEN down ELSE Head(stream) = h,
             \A d \in Calls \ {c} : pc[d] \notin {"header", "body"}
      PROVE  Headers'
  <2>1. h # NoHeader
      OBVIOUS
  <2>2. ASSUME NEW label \in {"check", "threw"}, pc' = [pc EXCEPT ![c] = label], pending' = h
        PROVE  Headers'
    <3>1. \A d \in Calls : pc'[d] \notin {"header", "body"}
        BY <2>2, <1>k, <1>t DEF TypeOK
    <3> QED
        BY <3>1, <2>1, <2>2, <1>k, <1>down DEF Headers
  <2>3. ASSUME h.seq = seqid[c], pc' = [pc EXCEPT ![c] = "body"], pending' = NoHeader
        PROVE  Headers'
    <3>1. pc'[c] = "body" /\ \A d \in Calls \ {c} : pc'[d] \notin {"header", "body"}
        BY <2>3, <1>k, <1>t DEF TypeOK
    <3> QED
        BY <3>1, <2>3, <1>k, <1>down DEF Headers
  <2> QED
      BY <2>2, <2>3, <1>k, TakeCases
<1>1. ASSUME NEW c \in Calls, CallRefused(c) PROVE Headers'
    BY <1>1, <1>t, <1>q, <1>down DEF TypeOK, CallRefused, Goto, wireVars, syncVars
<1>2. ASSUME NEW c \in Calls, GenerateSeqId(c) PROVE Headers'
    BY <1>2, <1>t, <1>q, <1>down DEF TypeOK, GenerateSeqId, Goto, wireVars
<1>3. ASSUME NEW c \in Calls, Send(c) PROVE Headers'
    BY <1>3, <1>t, <1>q, <1>down DEF TypeOK, Send, Goto, syncVars
<1>4. ASSUME NEW c \in Calls, SendThrows(c) PROVE Headers'
    BY <1>4, <1>t, <1>q, <1>down DEF TypeOK, SendThrows, Goto, wireVars
<1>5. ASSUME NEW c \in Calls, RecvLock(c) PROVE Headers'
    BY <1>5, <1>t, <1>q, <1>down DEF TypeOK, RecvLock, Goto, wireVars
<1>6. ASSUME NEW c \in Calls, GetPending(c) PROVE Headers'
  <2> USE <1>6
  <2>1. pc[c] = "turn" /\ ~stop /\ UNCHANGED <<stream, headerRead, down, requests, seqid>>
      BY DEF GetPending, wireVars
  <2>2. CASE pending # NoHeader
    <3>1. Take(c, pending)
        BY <2>2 DEF GetPending
    <3>2. \A d \in Calls : pc[d] \notin {"header", "body"}
        BY <2>1, <1>alone DEF Reading
    <3> QED
        BY <2>1, <2>2, <3>1, <3>2, <1>k, <1>t DEF Headers, TypeOK
  <2>3. CASE pending = NoHeader
    <3>1. /\ pc' = [pc EXCEPT ![c] = "header"]
          /\ UNCHANGED <<pending, stop>>
        BY <2>3 DEF GetPending, Goto
    <3>2. \A d \in Calls : pc[d] \notin {"header", "body"}
        BY <2>1, <1>alone DEF Reading
    <3>3. ~headerRead
        BY <2>1, <2>3, <3>2, <1>t DEF Headers
    <3> QED
        BY <2>1, <2>3, <3>1, <3>2, <3>3, <1>t DEF Headers, TypeOK
  <2> QED
      BY <2>2, <2>3
<1>7. ASSUME NEW c \in Calls, ReadHeader(c) PROVE Headers'
  <2>1. /\ pc[c] = "header" /\ stream # <<>> /\ headerRead' = TRUE
        /\ UNCHANGED <<stream, down, requests, seqid>> /\ Take(c, Head(stream))
      BY <1>7 DEF ReadHeader
  <2>2. \A d \in Calls : d # c => pc[d] \notin {"header", "body"}
      BY <2>1, <1>alone DEF Reading
  <2>3. Head(stream) \in Messages
      BY <2>1, <1>t DEF TypeOK
  <2> QED
      BY <2>1, <2>2, <2>3, <1>k
<1>8. ASSUME NEW c \in Calls, DeadConnection(c) PROVE Headers'
    BY <1>8, <1>t, <1>q, <1>down DEF TypeOK, DeadConnection, Leave, Goto, wireVars
<1>9. ASSUME NEW c \in Calls, ReadBody(c) PROVE Headers'
  <2>1. /\ pc[c] = "body" /\ headerRead' = FALSE
        /\ UNCHANGED <<requests, down, pending, seqid>>
        /\ pc' = [pc EXCEPT ![c] = pc'[c]] /\ pc'[c] \in {"returned", "threw"}
      BY <1>9, <1>t DEF ReadBody, Leave, Goto, TypeOK
  <2>2. \A d \in Calls : pc'[d] \notin {"header", "body"}
      BY <2>1, <1>alone, <1>t DEF Reading, TypeOK
  <2>3. pending = NoHeader
      BY <2>1, <1>t DEF Headers
  <2> QED
      BY <2>1, <2>2, <2>3, <1>down DEF Headers
<1>10. ASSUME NEW c \in Calls, ReadEof(c) PROVE Headers'
    BY <1>10, <1>t, <1>q, <1>down DEF TypeOK, ReadEof, Leave, Goto, wireVars
<1>11. ASSUME NEW c \in Calls, Proceed(c) PROVE Headers'
    BY <1>11, <1>t, <1>q, <1>down DEF TypeOK, Proceed, Goto, wireVars, syncVars
<1>12. ASSUME NEW c \in Calls, NothingToDo(c) \/ Block(c) PROVE Headers'
    BY <1>12, <1>t, <1>q, <1>down DEF TypeOK, NothingToDo, Block, Goto, wireVars, syncVars
<1>13. ASSUME NEW c \in Calls, Wake(c) \/ SpuriousWake(c) PROVE Headers'
  <2>1. WakeUp(c)
      BY <1>13 DEF Wake, SpuriousWake
  <2> QED
      BY <2>1, <1>t, <1>q, <1>down DEF TypeOK, WakeUp, Goto, wireVars
<1>14. ASSUME NEW r \in requests, Answer(r) PROVE Headers'
  <2>1. /\ ~down /\ UNCHANGED <<headerRead, down, pending, stop, pc, seqid>>
      BY <1>14, <1>down DEF Answer, syncVars
  <2>2. PICK m \in Messages : stream' = Append(stream, m)
    <3>1. PICK type \in {"reply", "exception"} :
            stream' = Append(stream, [seq |-> r.seq, stub |-> r.stub, type |-> type])
        BY <1>14 DEF Answer
    <3> QED
        BY <3>1, <1>14, <1>t, AnswerIsMessage DEF TypeOK
  <2>3. stream' # <<>> /\ (stream # <<>> => Head(stream') = Head(stream))
      BY <2>2, <1>t, AppendHead DEF TypeOK
  <2>4. headerRead => stream # <<>>
      BY <2>1, <1>t DEF Headers
  <2> QED
      BY <2>1, <2>3, <2>4, <1>t DEF Headers
<1>15. ASSUME Crash PROVE Headers'
  <2>1. /\ down' /\ requests' = {} /\ UNCHANGED <<headerRead, pending, stop, pc, seqid>>
      BY <1>15 DEF Crash, syncVars
  <2>2. stream' # <<>> => stream # <<>> /\ Head(stream') = Head(stream)
      BY <1>15, <1>t, Prefix DEF Crash, TypeOK
  <2> QED
      BY <2>1, <2>2, <1>t DEF Headers
<1>16. CASE UNCHANGED vars
    BY <1>16, <1>q, <1>down DEF vars, wireVars, syncVars
<1> QED
    BY <1>1, <1>2, <1>3, <1>4, <1>5, <1>6, <1>7, <1>8, <1>9, <1>10, <1>11, <1>12, <1>13,
       <1>14, <1>15, <1>16 DEF Next, CallStep

\* A body is read by the call it belongs to.
LEMMA OwnAnswerStep == ClientInv /\ [Next]_vars => OwnAnswer'
<1> SUFFICES ASSUME ClientInv, [Next]_vars PROVE OwnAnswer'
    OBVIOUS
<1>t. TypeOK /\ Numbers /\ Headers /\ OwnAnswer
    BY DEF ClientInv
<1>h. \A c \in Calls : pc'[c] = "header" => ~headerRead'
    BY HeadersStep DEF Headers
<1>1. ASSUME NEW c \in Calls, GenerateSeqId(c) PROVE OwnAnswer'
    BY <1>1, <1>h, <1>t DEF GenerateSeqId, OwnAnswer, Numbers, TypeOK
<1>2. ASSUME NEW c \in Calls, ReadBody(c) PROVE OwnAnswer'
  <2>1. /\ pc[c] = "body" /\ stream # <<>> /\ UNCHANGED <<seqid, method>>
        /\ answer' = [answer EXCEPT ![c] = Head(stream)]
      BY <1>2 DEF ReadBody
  <2>2. Head(stream).seq = seqid[c]
      BY <2>1, <1>t DEF Headers
  <2>3. 1 \in DOMAIN stream /\ Head(stream) = stream[1]
      BY <2>1, <1>t DEF TypeOK
  <2>4. Head(stream).stub = method[c]
      BY <2>2, <2>3, <1>t DEF Numbers, Numbered
  <2> QED
      BY <2>1, <2>2, <2>4, <1>h, <1>t DEF OwnAnswer, TypeOK
<1>3. ASSUME UNCHANGED <<seqid, method, answer>> PROVE OwnAnswer'
    BY <1>3, <1>h, <1>t DEF OwnAnswer
<1>4. ASSUME NEW c \in Calls,
             \/ CallRefused(c) \/ Send(c) \/ SendThrows(c) \/ RecvLock(c) \/ GetPending(c)
             \/ ReadHeader(c) \/ DeadConnection(c) \/ ReadEof(c) \/ Proceed(c)
             \/ NothingToDo(c) \/ Block(c)
      PROVE  OwnAnswer'
    BY <1>4, <1>3 DEF CallRefused, Send, SendThrows, RecvLock, GetPending, ReadHeader,
                      DeadConnection, ReadEof, Proceed, NothingToDo, Block
<1>5. ASSUME NEW c \in Calls, Wake(c) \/ SpuriousWake(c) PROVE OwnAnswer'
    BY <1>5, <1>3 DEF Wake, SpuriousWake, WakeUp
<1>6. ASSUME NEW r \in requests, Answer(r) PROVE OwnAnswer'
    BY <1>6, <1>3 DEF Answer
<1>7. ASSUME Crash PROVE OwnAnswer'
    BY <1>7, <1>3 DEF Crash
<1>8. CASE UNCHANGED vars
    BY <1>8, <1>3 DEF vars
<1> QED
    BY <1>1, <1>2, <1>4, <1>5, <1>6, <1>7, <1>8 DEF Next, CallStep

-------------------------------------------------------------------------------
(* The theorems.                                                            *)

\* Nothing is on the connection and no call has begun.
LEMMA ClientInit == Init => ClientInv
<1> SUFFICES ASSUME Init PROVE ClientInv
    OBVIOUS
<1> USE NobodyAssumption, PlansAssumption DEF Init
<1>1. method \in [Calls -> Stubs]
    OBVIOUS
<1>2. TypeOK
  <2>1. nextSeqid \in Nat \ {0} /\ spurious \in Nat
      OBVIOUS
  <2>4. requests \subseteq Requests /\ monitors \subseteq Nat
      OBVIOUS
  <2>5. stream = <<>> /\ headerRead = FALSE /\ down = FALSE
      OBVIOUS
  <2>6. stream \in Seq(Messages)
      BY <2>5, EmptySeq
  <2>2. /\ pending \in Messages \union {NoHeader} /\ readMutex \in Calls \union {Nobody}
        /\ wakeupSomeone \in BOOLEAN /\ stop \in BOOLEAN
      OBVIOUS
  <2>3. /\ pc \in [Calls -> Pcs] /\ seqid \in [Calls -> Nat]
        /\ notified \in [Calls -> BOOLEAN] /\ answer \in [Calls -> Messages \union {NoHeader}]
      BY DEF Pcs
  <2> QED
      BY <1>1, <2>1, <2>2, <2>3, <2>4, <2>5, <2>6 DEF TypeOK
<1>3. Numbers
    BY DEF Numbers
<1>4. Mutex
    BY DEF Mutex, Reading
<1>5. Headers /\ OwnAnswer
    BY DEF Headers, OwnAnswer
<1> QED
    BY <1>2, <1>3, <1>4, <1>5 DEF ClientInv

\* The inductive invariant: sequence numbers belong to one call each, the read mutex
\* serialises recv_, and a header that was read leads to the call it was left for.
THEOREM ClientInvariant == Spec => []ClientInv
<1>1. ClientInv /\ [Next]_vars => ClientInv'
    BY TypeOKStep, NumbersStep, MutexStep, HeadersStep, OwnAnswerStep DEF ClientInv
<1> QED
    BY <1>1, ClientInit, PTL DEF Spec

\* Cannon.h:511-513, for any number of threads: recv_ reads the answer to its own call,
\* in whatever order the server answers, and no thread takes a body for a header.
THEOREM CallsReadTheirOwnAnswer == Spec => []OwnAnswer
<1>1. ClientInv => OwnAnswer
    BY DEF ClientInv
<1> QED
    BY <1>1, ClientInvariant, PTL

-------------------------------------------------------------------------------
(* The duty to read.                                                        *)

\* Calls that have begun have different numbers.
LEMMA OwnMonitor ==
  ASSUME ClientInv, NEW c \in Calls, NEW d \in Calls, Active(c), seqid[c] = seqid[d]
  PROVE  c = d
<1>1. seqid[c] > 0
    BY DEF ClientInv, Numbers, Active
<1> QED
    BY <1>1 DEF ClientInv, Numbers

\* What a thread does with a header, and whom it wakes.
LEMMA TakeWakes ==
  ASSUME NEW c \in Calls, NEW h, Take(c, h)
  PROVE  \/ /\ h.seq = seqid[c] /\ pending' = NoHeader
            /\ pc' = [pc EXCEPT ![c] = "body"] /\ UNCHANGED <<stop, monitors, notified>>
         \/ /\ h.seq # seqid[c] /\ h.seq \in monitors /\ pending' = h
            /\ pc' = [pc EXCEPT ![c] = "check"]
            /\ Notify({h.seq}) /\ UNCHANGED <<stop, monitors>>
         \/ /\ pending' = h /\ stop' = TRUE /\ monitors' = monitors \ {seqid[c]}
            /\ pc' = [pc EXCEPT ![c] = "threw"] /\ Notify(monitors')
BY DEF Take, Goto

\* The monitors are those of the calls under way.
LEMMA MonitoredStep == ClientInv /\ Monitored /\ [Next]_vars => Monitored'
<1> SUFFICES ASSUME ClientInv, Monitored, [Next]_vars PROVE Monitored'
    OBVIOUS
<1>t. TypeOK
    BY DEF ClientInv
<1>q. ASSUME NEW c \in Calls, NEW label, pc' = [pc EXCEPT ![c] = label],
             UNCHANGED <<seqid, monitors>>, stop' \in {stop, TRUE},
             \/ pc[c] = "idle" /\ label = "threw"
             \/ Active(c) /\ (label \notin {"idle", "returned", "threw"} \/ stop')
      PROVE  Monitored'
    BY <1>q, <1>t DEF Monitored, Active, TypeOK
<1>r. ASSUME NEW c \in Calls, NEW label \in {"returned", "threw"},
             pc' = [pc EXCEPT ![c] = label], Active(c),
             UNCHANGED seqid, monitors' = monitors \ {seqid[c]}, stop' \in {stop, TRUE}
      PROVE  Monitored'
  <2>1. ASSUME NEW d \in Calls, Active(d)'
        PROVE  seqid'[d] \in monitors'
    <3>1. d # c /\ Active(d)
        BY <1>r, <2>1, <1>t DEF Active, TypeOK
    <3>2. seqid[d] # seqid[c]
        BY <3>1, OwnMonitor
    <3> QED
        BY <1>r, <3>1, <3>2 DEF Monitored
  <2>2. ASSUME ~stop', NEW s \in monitors'
        PROVE  \E d \in Calls : Active(d)' /\ seqid'[d] = s
    <3>1. PICK d \in Calls : Active(d) /\ seqid[d] = s
        BY <1>r, <2>2, <1>t DEF Monitored, TypeOK
    <3>2. d # c
        BY <1>r, <2>2, <3>1
    <3> QED
        BY <1>r, <3>1, <3>2, <1>t DEF Active, TypeOK
  <2> QED
      BY <2>1, <2>2 DEF Monitored
<1>1. ASSUME NEW c \in Calls, CallRefused(c) \/ Send(c) \/ SendThrows(c) \/ RecvLock(c)
      PROVE  Monitored'
    BY <1>1, <1>q DEF CallRefused, Send, SendThrows, RecvLock, Goto, syncVars, Active
<1>2. ASSUME NEW c \in Calls, GenerateSeqId(c) PROVE Monitored'
  <2>1. /\ seqid' = [seqid EXCEPT ![c] = nextSeqid] /\ UNCHANGED stop
        /\ pc' = [pc EXCEPT ![c] = "send"] /\ pc[c] = "idle"
        /\ monitors' = monitors \union {nextSeqid}
      BY <1>2 DEF GenerateSeqId, Goto
  <2>2. \A d \in Calls : /\ Active(d)' <=> d = c \/ Active(d)
                         /\ seqid'[d] = IF d = c THEN nextSeqid ELSE seqid[d]
      BY <2>1, <1>t DEF Active, TypeOK
  <2>3. ~Active(c)
      BY <2>1 DEF Active
  <2> QED
      BY <2>1, <2>2, <2>3 DEF Monitored
<1>3. ASSUME NEW c \in Calls, NEW h, Take(c, h), Active(c), UNCHANGED seqid PROVE Monitored'
  <2>1. CASE \E label \in {"body", "check"} :
               pc' = [pc EXCEPT ![c] = label] /\ UNCHANGED <<stop, monitors>>
      BY <2>1, <1>3, <1>q
  <2>2. CASE /\ stop' = TRUE /\ monitors' = monitors \ {seqid[c]}
             /\ pc' = [pc EXCEPT ![c] = "threw"]
      BY <2>2, <1>3, <1>r
  <2> QED
      BY <2>1, <2>2, <1>3, TakeWakes
<1>4. ASSUME NEW c \in Calls, GetPending(c) PROVE Monitored'
    BY <1>4, <1>3, <1>q DEF GetPending, Goto, Active
<1>5. ASSUME NEW c \in Calls, ReadHeader(c) PROVE Monitored'
    BY <1>5, <1>3 DEF ReadHeader, Active
<1>6. ASSUME NEW c \in Calls, DeadConnection(c) \/ ReadBody(c) \/ ReadEof(c) PROVE Monitored'
  <2>1. PICK committed \in BOOLEAN, label \in {"returned", "threw"} : Leave(c, committed, label)
      BY <1>6 DEF DeadConnection, ReadBody, ReadEof
  <2>2. Active(c) /\ UNCHANGED seqid
      BY <1>6 DEF DeadConnection, ReadBody, ReadEof, Active
  <2>3. stop' \in {stop, TRUE}
      BY <2>1, <1>t DEF Leave, TypeOK
  <2> QED
      BY <2>1, <2>2, <2>3, <1>r DEF Leave, Goto
<1>7. ASSUME NEW c \in Calls, Proceed(c) \/ NothingToDo(c) \/ Block(c) PROVE Monitored'
    BY <1>7, <1>q DEF Proceed, NothingToDo, Block, Goto, syncVars, Active
<1>8. ASSUME NEW c \in Calls, Wake(c) \/ SpuriousWake(c) PROVE Monitored'
    BY <1>8, <1>q DEF Wake, SpuriousWake, WakeUp, Goto, Active
<1>9. ASSUME UNCHANGED <<pc, seqid, monitors, stop>> PROVE Monitored'
    BY <1>9 DEF Monitored, Active
<1>10. ASSUME NEW r \in requests, Answer(r) PROVE Monitored'
    BY <1>10, <1>9 DEF Answer, syncVars
<1>11. ASSUME Crash PROVE Monitored'
    BY <1>11, <1>9 DEF Crash, syncVars
<1>12. CASE UNCHANGED vars
    BY <1>12, <1>9 DEF vars, syncVars
<1> QED
    BY <1>1, <1>2, <1>4, <1>5, <1>6, <1>7, <1>8, <1>10, <1>11, <1>12 DEF Next, CallStep

\* A call that is about to wait has the read mutex, so that the call it leaves behind stays
\* where it is; that there is one follows from the header that is pending.
LEMMA BlockIsCoveredStep ==
  HandOverInv /\ [Next]_vars => BlockIsCovered'
<1> SUFFICES ASSUME HandOverInv, [Next]_vars PROVE BlockIsCovered'
    OBVIOUS
<1>t. TypeOK /\ Mutex /\ BlockIsCovered
    BY DEF HandOverInv, ClientInv
<1>alone. \A c, d \in Calls : pc[c] \in Reading /\ pc[d] \in Reading => c = d
    BY <1>t DEF Mutex
<1>q. ASSUME pending' = pending,
             \A d \in Calls : /\ Comes(d) => Comes(d)'
                              /\ pc'[d] = "block" => pc[d] = "block" /\ seqid'[d] = seqid[d]
      PROVE  BlockIsCovered'
    BY <1>q, <1>t DEF BlockIsCovered
<1>v. ASSUME NEW c \in Calls, NEW label, label # "block", pc' = [pc EXCEPT ![c] = label],
             readMutex = Nobody \/ pc[c] \in Reading
      PROVE  BlockIsCovered'
  <2>1. ASSUME NEW d \in Calls PROVE pc'[d] # "block"
    <3>1. CASE d = c
        BY <3>1, <1>v, <1>t DEF TypeOK
    <3>2. CASE d # c
      <4>1. pc[d] = "block" => readMutex = d /\ d # Nobody
          BY <1>t, NobodyAssumption DEF Mutex, Reading
      <4>2. pc[d] = "block" => pc[c] \notin Reading
          BY <3>2, <1>alone DEF Reading
      <4> QED
          BY <3>2, <4>1, <4>2, <1>v, <1>t DEF TypeOK
    <3> QED
        BY <3>1, <3>2
  <2> QED
      BY <2>1 DEF BlockIsCovered
<1>1. ASSUME NEW c \in Calls, CallRefused(c) \/ GenerateSeqId(c) \/ Send(c) PROVE BlockIsCovered'
    BY <1>1, <1>q, <1>t DEF CallRefused, GenerateSeqId, Send, Goto, syncVars, Comes, TypeOK
<1>2. ASSUME NEW c \in Calls, SendThrows(c) PROVE BlockIsCovered'
    BY <1>2, <1>q, <1>t DEF SendThrows, Notify, Goto, Comes, TypeOK
<1>3. ASSUME NEW c \in Calls, NEW h, Take(c, h), pc[c] \in Reading PROVE BlockIsCovered'
    BY <1>3, <1>v, TakeCases
<1>4. ASSUME NEW c \in Calls, GetPending(c) PROVE BlockIsCovered'
    BY <1>4, <1>3, <1>v DEF GetPending, Goto, Reading
<1>5. ASSUME NEW c \in Calls, ReadHeader(c) PROVE BlockIsCovered'
    BY <1>5, <1>3 DEF ReadHeader, Reading
<1>6. ASSUME NEW c \in Calls, DeadConnection(c) \/ ReadBody(c) \/ ReadEof(c) PROVE BlockIsCovered'
  <2>1. PICK label \in {"returned", "threw"} : pc' = [pc EXCEPT ![c] = label]
      BY <1>6 DEF DeadConnection, ReadBody, ReadEof, Leave, Goto
  <2>2. pc[c] \in Reading
      BY <1>6 DEF DeadConnection, ReadBody, ReadEof, Reading
  <2> QED
      BY <2>1, <2>2, <1>v
<1>7. ASSUME NEW c \in Calls, RecvLock(c) \/ Proceed(c) \/ Block(c) \/ Wake(c) \/ SpuriousWake(c)
      PROVE  BlockIsCovered'
    BY <1>7, <1>v DEF RecvLock, Proceed, Block, Wake, SpuriousWake, WakeUp, Goto, Reading
<1>8. ASSUME NEW c \in Calls, NothingToDo(c) PROVE BlockIsCovered'
  <2>1. /\ pc[c] = "check" /\ ~stop /\ ~wakeupSomeone /\ pc' = [pc EXCEPT ![c] = "block"]
        /\ pending = NoHeader \/ pending.seq # seqid[c]
        /\ UNCHANGED <<pending, seqid, notified>>
      BY <1>8 DEF NothingToDo, Goto, syncVars
  <2>2. \A d \in Calls \ {c} : pc[d] \notin Reading
      BY <2>1, <1>alone DEF Reading
  <2>3. pending # NoHeader
      BY <2>1, <2>2 DEF HandOverInv, SomebodyReads, Reading
  <2>4. PICK d \in Calls : seqid[d] = pending.seq /\ Awake(d) /\ pc[d] # "send"
      BY <2>1, <2>3 DEF HandOverInv, HeaderHasTaker
  <2>5. d # c
      BY <2>1, <2>3, <2>4
  <2>6. Comes(d)
      BY <2>2, <2>4, <2>5 DEF Awake, Comes, Reading
  <2>7. Comes(d)'
      BY <2>1, <2>5, <2>6, <1>t DEF Comes, TypeOK
  <2>8. \A e \in Calls : pc'[e] = "block" => e = c
      BY <2>1, <2>2, <1>t DEF TypeOK, Reading
  <2> QED
      BY <2>1, <2>7, <2>8 DEF BlockIsCovered
<1>9. ASSUME UNCHANGED <<pc, seqid, pending, notified>> PROVE BlockIsCovered'
    BY <1>9, <1>q DEF Comes
<1>10. ASSUME NEW r \in requests, Answer(r) PROVE BlockIsCovered'
    BY <1>10, <1>9 DEF Answer, syncVars
<1>11. ASSUME Crash PROVE BlockIsCovered'
    BY <1>11, <1>9 DEF Crash, syncVars
<1>12. CASE UNCHANGED vars
    BY <1>12, <1>9 DEF vars, syncVars
<1> QED
    BY <1>1, <1>2, <1>4, <1>5, <1>6, <1>7, <1>8, <1>10, <1>11, <1>12 DEF Next, CallStep

\* On a dead connection who waits was told, or somebody finds out and will tell it: a send
\* that fails misses only the one that is about to wait, which left another behind.
LEMMA AllToldStep == HandOverInv /\ [Next]_vars => AllTold'
<1> SUFFICES ASSUME HandOverInv, [Next]_vars PROVE AllTold'
    OBVIOUS
<1>i. ClientInv /\ Monitored /\ BlockIsCovered /\ AllTold
    BY DEF HandOverInv
<1>t. TypeOK
    BY <1>i DEF ClientInv
<1>q. ASSUME stop' = stop,
             \A d \in Calls : pc'[d] = "waiting" /\ ~notified'[d] => pc[d] = "waiting" /\ ~notified[d],
             (\E d \in Calls : FindsOut(d)') \/ (\A d \in Calls : FindsOut(d) => FindsOut(d)')
      PROVE  AllTold'
    BY <1>q, <1>i DEF AllTold
<1>a. ASSUME ~stop' PROVE AllTold'
    BY <1>a DEF AllTold
<1>n. ASSUME NEW seqs, Notify(seqs),
             \A d \in Calls : pc'[d] = "waiting" => pc[d] = "waiting" /\ seqid[d] \in seqs
      PROVE  AllTold'
    BY <1>n DEF AllTold, Notify
<1>1. ASSUME NEW c \in Calls, CallRefused(c) \/ GenerateSeqId(c) \/ Send(c) \/ RecvLock(c)
      PROVE  AllTold'
    BY <1>1, <1>q, <1>t DEF CallRefused, GenerateSeqId, Send, RecvLock, Goto, syncVars, FindsOut,
                            Comes, TypeOK
<1>2. ASSUME NEW c \in Calls, SendThrows(c) PROVE AllTold'
  <2>1. \A d \in Calls : pc'[d] = "waiting" => pc[d] = "waiting" /\ seqid[d] \in monitors
      BY <1>2, <1>i, <1>t DEF SendThrows, Goto, Monitored, Active, TypeOK
  <2> QED
      BY <1>2, <2>1, <1>n DEF SendThrows
<1>k. ASSUME NEW c \in Calls, Active(c), NEW label, label # "waiting",
             pc' = [pc EXCEPT ![c] = label], monitors' = monitors \ {seqid[c]}
      PROVE  \A d \in Calls : pc'[d] = "waiting" => pc[d] = "waiting" /\ seqid[d] \in monitors'
  <2> SUFFICES ASSUME NEW d \in Calls, pc'[d] = "waiting"
               PROVE  pc[d] = "waiting" /\ seqid[d] \in monitors'
      OBVIOUS
  <2>1. d # c /\ pc[d] = "waiting" /\ Active(d)
      BY <1>k, <1>t DEF TypeOK, Active
  <2>2. seqid[d] # seqid[c]
      BY <2>1, <1>i, OwnMonitor
  <2> QED
      BY <1>k, <2>1, <2>2, <1>i DEF Monitored
<1>3. ASSUME NEW c \in Calls, NEW h, Take(c, h), Active(c), pc[c] \notin {"lock", "waiting"},
             pc[c] = "header" \/ ~stop
      PROVE  AllTold'
  <2>1. CASE pc' = [pc EXCEPT ![c] = "body"] /\ UNCHANGED <<stop, notified>>
      BY <2>1, <1>3, <1>q, <1>a, <1>t DEF FindsOut, Comes, TypeOK
  <2>2. CASE pc' = [pc EXCEPT ![c] = "check"] /\ UNCHANGED stop /\ Notify({h.seq})
      BY <2>2, <1>q, <1>t DEF Notify, FindsOut, TypeOK
  <2>3. CASE /\ Notify(monitors') /\ monitors' = monitors \ {seqid[c]}
             /\ pc' = [pc EXCEPT ![c] = "threw"]
      BY <2>3, <1>3, <1>k, <1>n
  <2> QED
      BY <2>1, <2>2, <2>3, <1>3, TakeWakes
<1>4. ASSUME NEW c \in Calls, GetPending(c) PROVE AllTold'
    BY <1>4, <1>3, <1>a DEF GetPending, Active
<1>5. ASSUME NEW c \in Calls, ReadHeader(c) PROVE AllTold'
    BY <1>5, <1>3 DEF ReadHeader, Active
<1>6. ASSUME NEW c \in Calls, DeadConnection(c) \/ ReadEof(c) PROVE AllTold'
  <2>1. Leave(c, FALSE, "threw")
      BY <1>6 DEF DeadConnection, ReadEof
  <2>2. Active(c)
      BY <1>6 DEF DeadConnection, ReadEof, Active
  <2> QED
      BY <2>1, <2>2, <1>k, <1>n DEF Leave, Goto
<1>7. ASSUME NEW c \in Calls, ReadBody(c) PROVE AllTold'
  <2>1. PICK committed \in BOOLEAN, label \in {"returned", "threw"} : Leave(c, committed, label)
      BY <1>7 DEF ReadBody
  <2>2. Active(c) /\ pc[c] = "body"
      BY <1>7 DEF ReadBody, Active
  <2>3. CASE ~committed
      BY <2>1, <2>2, <2>3, <1>k, <1>n DEF Leave, Goto
  <2>4. CASE committed
      BY <2>1, <2>2, <2>4, <1>q, <1>t DEF Leave, Goto, Notify, FindsOut, Comes, TypeOK
  <2> QED
      BY <2>3, <2>4
<1>8. ASSUME NEW c \in Calls, Proceed(c) \/ NothingToDo(c) PROVE AllTold'
    BY <1>8, <1>a DEF Proceed, NothingToDo, syncVars
<1>9. ASSUME NEW c \in Calls, Block(c) PROVE AllTold'
  <2>1. PICK d \in Calls : Comes(d)
      BY <1>9, <1>i DEF Block, BlockIsCovered
  <2>2. FindsOut(d)'
      BY <2>1, <1>9, <1>t DEF Block, Goto, Comes, FindsOut, TypeOK
  <2> QED
      BY <2>2 DEF AllTold
<1>10. ASSUME NEW c \in Calls, Wake(c) \/ SpuriousWake(c) PROVE AllTold'
    BY <1>10, <1>q, <1>t DEF Wake, SpuriousWake, WakeUp, Goto, FindsOut, TypeOK
<1>11. ASSUME UNCHANGED <<pc, stop, notified>> PROVE AllTold'
    BY <1>11, <1>q DEF FindsOut, Comes
<1>12. ASSUME NEW r \in requests, Answer(r) PROVE AllTold'
    BY <1>12, <1>11 DEF Answer, syncVars
<1>13. ASSUME Crash PROVE AllTold'
    BY <1>13, <1>11 DEF Crash, syncVars
<1>14. CASE UNCHANGED vars
    BY <1>14, <1>11 DEF vars, syncVars
<1> QED
    BY <1>1, <1>2, <1>4, <1>5, <1>6, <1>7, <1>8, <1>9, <1>10, <1>12, <1>13, <1>14 DEF Next, CallStep

\* A header that is left is left to a call that has a monitor, and therefore is under way.
LEMMA HeaderHasTakerStep ==
  ClientInv /\ Monitored /\ HeaderHasTaker /\ [Next]_vars => HeaderHasTaker'
<1> SUFFICES ASSUME ClientInv, Monitored, HeaderHasTaker, [Next]_vars PROVE HeaderHasTaker'
    OBVIOUS
<1>t. TypeOK /\ Numbers /\ Mutex /\ Headers
    BY DEF ClientInv
<1>q. ASSUME pending' = pending, stop' \in {stop, TRUE},
             \A d \in Calls :
               /\ pending # NoHeader /\ ~stop' /\ seqid[d] = pending.seq /\ Awake(d) /\ pc[d] # "send"
               => seqid'[d] = seqid[d] /\ Awake(d)' /\ pc'[d] # "send"
      PROVE  HeaderHasTaker'
    BY <1>q, <1>t DEF HeaderHasTaker, TypeOK
<1>1. ASSUME NEW c \in Calls,
             \/ CallRefused(c) \/ GenerateSeqId(c) \/ Send(c) \/ RecvLock(c) \/ Proceed(c)
             \/ Wake(c) \/ SpuriousWake(c)
      PROVE  HeaderHasTaker'
    BY <1>1, <1>q, <1>t DEF CallRefused, GenerateSeqId, Send, RecvLock, Proceed, Wake,
         SpuriousWake, WakeUp, Goto, syncVars, Awake, TypeOK
<1>2. ASSUME NEW c \in Calls, SendThrows(c) PROVE HeaderHasTaker'
    BY <1>2 DEF SendThrows, HeaderHasTaker
<1>3. ASSUME NEW c \in Calls, NEW h, Take(c, h), ~stop, UNCHANGED seqid, pc[c] \in Reading,
             \A d \in Calls : Active(d) /\ seqid[d] = h.seq => pc[d] # "send"
      PROVE  HeaderHasTaker'
  <2>1. CASE pending' = NoHeader \/ stop' = TRUE
      BY <2>1 DEF HeaderHasTaker
  <2>2. CASE /\ h.seq # seqid[c] /\ h.seq \in monitors /\ pending' = h
             /\ pc' = [pc EXCEPT ![c] = "check"] /\ Notify({h.seq})
    <3>1. PICK d \in Calls : Active(d) /\ seqid[d] = h.seq
        BY <2>2, <1>3 DEF Monitored
    <3>2. d # c /\ pc'[d] = pc[d] /\ (pc[d] = "waiting" => notified'[d])
        BY <2>2, <3>1, <1>t DEF Notify, TypeOK
    <3>3. pc[d] \in Pcs /\ pc[d] \notin {"send", "block"}
        BY <3>1, <3>2, <1>3, <1>t DEF TypeOK, Mutex, Reading
    <3>4. Awake(d)' /\ pc'[d] # "send"
        BY <3>1, <3>2, <3>3 DEF Awake, Active, Pcs
    <3> QED
        BY <3>1, <3>4, <2>2, <1>3 DEF HeaderHasTaker
  <2> QED
      BY <2>1, <2>2, <1>3, TakeWakes
<1>4. ASSUME NEW c \in Calls, GetPending(c) PROVE HeaderHasTaker'
  <2>1. CASE pending = NoHeader
      BY <2>1, <1>4 DEF GetPending, HeaderHasTaker
  <2>2. CASE pending # NoHeader
    <3>1. PICK e \in Calls : seqid[e] = pending.seq /\ Awake(e) /\ pc[e] # "send"
        BY <2>2, <1>4 DEF GetPending, HeaderHasTaker
    <3>2. \A d \in Calls : Active(d) /\ seqid[d] = pending.seq => d = e
        BY <3>1, OwnMonitor
    <3> QED
        BY <2>2, <3>1, <3>2, <1>3, <1>4 DEF GetPending, Reading
  <2> QED
      BY <2>1, <2>2
<1>5. ASSUME NEW c \in Calls, ReadHeader(c) PROVE HeaderHasTaker'
  <2>1. CASE ~stop
    <3>1. 1 \in DOMAIN stream /\ Head(stream) = stream[1]
        BY <1>5, <1>t DEF ReadHeader, TypeOK
    <3>2. \A d \in Calls : seqid[d] = Head(stream).seq => pc[d] # "send"
        BY <3>1, <1>t DEF Numbers, Numbered
    <3> QED
        BY <2>1, <3>2, <1>5, <1>3 DEF ReadHeader, Reading
  <2>2. CASE stop
      BY <2>2, <1>5, TakeWakes DEF ReadHeader, HeaderHasTaker
  <2> QED
      BY <2>1, <2>2, <1>t DEF TypeOK
<1>6. ASSUME NEW c \in Calls, DeadConnection(c) \/ ReadBody(c) \/ ReadEof(c) PROVE HeaderHasTaker'
  <2>1. CASE DeadConnection(c)
      BY <2>1 DEF DeadConnection, Leave, HeaderHasTaker
  <2>2. CASE ReadBody(c) \/ ReadEof(c)
    <3>1. pc[c] \in {"header", "body"} /\ pending' = pending
        BY <2>2 DEF ReadBody, ReadEof
    <3>2. pending = NoHeader
        BY <3>1, <1>t DEF Headers
    <3> QED
        BY <3>1, <3>2 DEF HeaderHasTaker
  <2> QED
      BY <2>1, <2>2, <1>6
<1>7. ASSUME NEW c \in Calls, NothingToDo(c) \/ Block(c) PROVE HeaderHasTaker'
    BY <1>7, <1>q, <1>t DEF NothingToDo, Block, Goto, syncVars, Awake, TypeOK
<1>9. ASSUME UNCHANGED <<pc, seqid, pending, stop, notified>> PROVE HeaderHasTaker'
    BY <1>9 DEF HeaderHasTaker, Awake
<1>10. ASSUME NEW r \in requests, Answer(r) PROVE HeaderHasTaker'
    BY <1>10, <1>9 DEF Answer, syncVars
<1>11. ASSUME Crash PROVE HeaderHasTaker'
    BY <1>11, <1>9 DEF Crash, syncVars
<1>12. CASE UNCHANGED vars
    BY <1>12, <1>9 DEF vars, syncVars
<1> QED
    BY <1>1, <1>2, <1>4, <1>5, <1>6, <1>7, <1>10, <1>11, <1>12 DEF Next, CallStep

\* Whoever takes the flag down reads, and whoever stops reading puts it up or leaves a
\* header.
LEMMA SomebodyReadsStep == ClientInv /\ SomebodyReads /\ [Next]_vars => SomebodyReads'
<1> SUFFICES ASSUME ClientInv, SomebodyReads, [Next]_vars PROVE SomebodyReads'
    OBVIOUS
<1>t. TypeOK
    BY DEF ClientInv
<1>q. ASSUME pending' = pending, stop' \in {stop, TRUE}, wakeupSomeone' \in {wakeupSomeone, TRUE},
             \A d \in Calls : /\ pc'[d] \in {"check", "block", "waiting"} => pc[d] \in {"check", "block", "waiting"}
                              /\ pc[d] \in {"header", "body"} => pc'[d] \in {"header", "body"}
      PROVE  SomebodyReads'
    BY <1>q, <1>t DEF SomebodyReads, TypeOK
<1>1. ASSUME NEW c \in Calls,
             \/ CallRefused(c) \/ GenerateSeqId(c) \/ Send(c) \/ RecvLock(c) \/ Proceed(c)
             \/ Wake(c) \/ SpuriousWake(c) \/ SendThrows(c) \/ NothingToDo(c) \/ Block(c)
      PROVE  SomebodyReads'
    BY <1>1, <1>q, <1>t DEF CallRefused, GenerateSeqId, Send, RecvLock, Proceed, Wake,
         SpuriousWake, WakeUp, SendThrows, NothingToDo, Block, Goto, syncVars, TypeOK
<1>3. ASSUME NEW c \in Calls, NEW h \in Messages, Take(c, h) PROVE SomebodyReads'
  <2>1. h # NoHeader
      BY HeaderAssumption
  <2>2. pending' = h \/ pc'[c] = "body"
      BY <1>3, <1>t, TakeWakes DEF TypeOK
  <2> QED
      BY <2>1, <2>2 DEF SomebodyReads
<1>4. ASSUME NEW c \in Calls, GetPending(c) PROVE SomebodyReads'
  <2>1. CASE pending # NoHeader
      BY <2>1, <1>4, <1>3, <1>t DEF GetPending, TypeOK
  <2>2. CASE pending = NoHeader
    <3>1. pc'[c] = "header"
        BY <2>2, <1>4, <1>t DEF GetPending, Goto, TypeOK
    <3> QED
        BY <3>1 DEF SomebodyReads
  <2> QED
      BY <2>1, <2>2
<1>5. ASSUME NEW c \in Calls, ReadHeader(c) PROVE SomebodyReads'
  <2>1. Head(stream) \in Messages
      BY <1>5, <1>t DEF ReadHeader, TypeOK
  <2> QED
      BY <2>1, <1>5, <1>3 DEF ReadHeader
<1>6. ASSUME NEW c \in Calls, DeadConnection(c) \/ ReadBody(c) \/ ReadEof(c) PROVE SomebodyReads'
    BY <1>6 DEF DeadConnection, ReadBody, ReadEof, Leave, SomebodyReads
<1>9. ASSUME UNCHANGED <<pc, pending, stop, wakeupSomeone>> PROVE SomebodyReads'
    BY <1>9 DEF SomebodyReads
<1>10. ASSUME NEW r \in requests, Answer(r) PROVE SomebodyReads'
    BY <1>10, <1>9 DEF Answer, syncVars
<1>11. ASSUME Crash PROVE SomebodyReads'
    BY <1>11, <1>9 DEF Crash, syncVars
<1>12. CASE UNCHANGED vars
    BY <1>12, <1>9 DEF vars, syncVars
<1> QED
    BY <1>1, <1>4, <1>5, <1>6, <1>10, <1>11, <1>12 DEF Next, CallStep

\* A call that ends well wakes the newest of those that are under way.
LEMMA LeaveWakes ==
  ASSUME ClientInv, ClientInv', Monitored', NEW x \in Calls, NEW label \in {"returned", "threw"},
         pc[x] \in Reading,
         Leave(x, TRUE, label), UNCHANGED seqid, ~stop',
         NEW c \in Calls, Active(c)'
  PROVE  \E d \in Calls : Awake(d)'
<1>t. TypeOK /\ TypeOK' /\ Numbers'
    BY DEF ClientInv
<1>1. monitors' \in SUBSET (0 .. nextSeqid')
  <2>1. ASSUME NEW s \in monitors' PROVE s \in 0 .. nextSeqid'
    <3>1. PICK d \in Calls : seqid'[d] = s
        BY DEF Monitored
    <3>2. seqid'[d] < nextSeqid' /\ seqid'[d] \in Nat /\ nextSeqid' \in Nat
        BY <1>t DEF Numbers, TypeOK
    <3> QED
        BY <3>1, <3>2
  <2> QED
      BY <2>1
<1>2. monitors' # {} /\ nextSeqid' \in Nat
    BY <1>t DEF Monitored, TypeOK
<1>3. PICK s \in monitors' : \A t \in monitors' : t <= s
    BY <1>1, <1>2, GreatestNat
<1>4. PICK d \in Calls : Active(d)' /\ seqid'[d] = s
    BY DEF Monitored
<1>5. pc' = [pc EXCEPT ![x] = label]
    BY DEF Leave, Goto
<1>6. d # x /\ pc'[d] = pc[d]
    BY <1>4, <1>5, <1>t DEF Active, TypeOK
<1>7. Notify({q \in monitors' : \A t \in monitors' : t <= q})
    BY DEF Leave
<1>8. pc[d] = "waiting" => notified'[d]
    BY <1>3, <1>4, <1>7 DEF Notify
<1>9. pc[d] \in Pcs /\ pc[d] # "block"
    BY <1>6, <1>t DEF TypeOK, ClientInv, Mutex, Reading
<1> QED
    BY <1>4, <1>6, <1>8, <1>9 DEF Awake, Active, Pcs

\* Where a thread sleeps without a notification, another one is awake.
LEMMA SomebodyAwakeStep ==
  ASSUME ClientInv, BlockIsCovered, NoLostHandOver, [Next]_vars,
         ClientInv', Monitored', HeaderHasTaker', SomebodyReads', ~stop',
         NEW c \in Calls, pc'[c] = "waiting", ~notified'[c]
  PROVE  \E d \in Calls : Awake(d)'
<1>t. TypeOK
    BY DEF ClientInv
<1>a. ASSUME NEW x \in Calls, NEW label \in {"send", "lock", "turn", "header", "body", "check"},
             pc' = [pc EXCEPT ![x] = label]
      PROVE  \E d \in Calls : Awake(d)'
    BY <1>a, <1>t DEF Awake, TypeOK
<1>s. ASSUME UNCHANGED <<pc, notified>> PROVE \E d \in Calls : Awake(d)'
    BY <1>s DEF NoLostHandOver, Awake
<1>1. ASSUME NEW x \in Calls, CallRefused(x) \/ SendThrows(x) \/ DeadConnection(x) \/ ReadEof(x)
      PROVE  FALSE
  <2>1. CASE CallRefused(x)
      BY <2>1 DEF CallRefused, syncVars
  <2>2. CASE SendThrows(x)
      BY <2>2 DEF SendThrows
  <2>3. CASE DeadConnection(x) \/ ReadEof(x)
    <3>1. stop' = (stop \/ ~FALSE)
        BY <2>3 DEF DeadConnection, ReadEof, Leave
    <3> QED
        BY <3>1
  <2> QED
      BY <1>1, <2>1, <2>2, <2>3
<1>2. ASSUME NEW x \in Calls,
             \/ GenerateSeqId(x) \/ Send(x) \/ RecvLock(x) \/ Proceed(x)
             \/ Wake(x) \/ SpuriousWake(x)
      PROVE  \E d \in Calls : Awake(d)'
    BY <1>2, <1>a DEF GenerateSeqId, Send, RecvLock, Proceed, Wake, SpuriousWake, WakeUp, Goto
<1>3. ASSUME NEW x \in Calls, NEW h, Take(x, h) PROVE \E d \in Calls : Awake(d)'
    BY <1>3, <1>a, TakeWakes
<1>4. ASSUME NEW x \in Calls, GetPending(x) PROVE \E d \in Calls : Awake(d)'
    BY <1>4, <1>3, <1>a DEF GetPending, Goto
<1>5. ASSUME NEW x \in Calls, ReadHeader(x) PROVE \E d \in Calls : Awake(d)'
    BY <1>5, <1>3 DEF ReadHeader
<1>6. ASSUME NEW x \in Calls, ReadBody(x) PROVE \E d \in Calls : Awake(d)'
  <2>1. PICK committed \in BOOLEAN, label \in {"returned", "threw"} : Leave(x, committed, label)
      BY <1>6 DEF ReadBody
  <2>2. committed = TRUE
      BY <2>1 DEF Leave
  <2>3. UNCHANGED seqid /\ Active(c)' /\ pc[x] \in Reading
      BY <1>6 DEF ReadBody, Active, Reading
  <2> QED
      BY <2>1, <2>2, <2>3, LeaveWakes
<1>b. ASSUME NEW x \in Calls, Block(x) PROVE \E d \in Calls : Awake(d)'
  <2>1. PICK d \in Calls : Comes(d)
      BY <1>b DEF Block, BlockIsCovered
  <2> QED
      BY <2>1, <1>b, <1>t DEF Block, Goto, Comes, Awake, TypeOK
<1>7. ASSUME NEW x \in Calls, NothingToDo(x) PROVE \E d \in Calls : Awake(d)'
  <2>1. ~wakeupSomeone'
      BY <1>7 DEF NothingToDo, syncVars
  <2>2. pending' # NoHeader \/ \E d \in Calls : pc'[d] \in {"header", "body"}
      BY <2>1 DEF SomebodyReads
  <2> QED
      BY <2>2 DEF HeaderHasTaker, Awake
<1>8. ASSUME NEW r \in requests, Answer(r) PROVE \E d \in Calls : Awake(d)'
    BY <1>8, <1>s DEF Answer
<1>9. ASSUME Crash PROVE \E d \in Calls : Awake(d)'
    BY <1>9, <1>s DEF Crash
<1>10. CASE UNCHANGED vars
    BY <1>10, <1>s DEF vars
<1> QED
    BY <1>1, <1>2, <1>4, <1>5, <1>6, <1>b, <1>7, <1>8, <1>9, <1>10 DEF Next, CallStep

\* A header is not left to a thread that sleeps.
LEMMA OwnHeaderStep ==
  ASSUME ClientInv, Monitored, BlockIsCovered, NoLostHandOver, [Next]_vars,
         NEW c \in Calls, pc'[c] = "waiting", ~notified'[c], pending' # NoHeader
  PROVE  pending'.seq # seqid'[c]
<1>t. TypeOK
    BY DEF ClientInv
<1>q. ASSUME pending' = pending, seqid'[c] = seqid[c], pc[c] = "waiting", ~notified[c]
      PROVE  pending'.seq # seqid'[c]
    BY <1>q DEF NoLostHandOver
<1>n. ASSUME NEW seqs, Notify(seqs), pc[c] = "waiting"
      PROVE  ~notified[c] /\ seqid[c] \notin seqs
    BY <1>n DEF Notify
<1>1. ASSUME NEW x \in Calls, CallRefused(x) PROVE pending'.seq # seqid'[c]
    BY <1>1, <1>q, <1>t DEF CallRefused, Goto, syncVars, TypeOK
<1>s. ASSUME NEW x \in Calls, SendThrows(x) PROVE pending'.seq # seqid'[c]
  <2>1. pc[c] = "waiting" /\ Notify(monitors)
      BY <1>s, <1>t DEF SendThrows, Goto, TypeOK
  <2> QED
      BY <2>1, <1>s, <1>n, <1>q DEF SendThrows
<1>2. ASSUME NEW x \in Calls,
             \/ GenerateSeqId(x) \/ Send(x) \/ RecvLock(x) \/ Proceed(x)
             \/ Wake(x) \/ SpuriousWake(x)
      PROVE  pending'.seq # seqid'[c]
  <2>1. /\ pending' = pending /\ notified' = notified
        /\ seqid' = seqid \/ seqid' = [seqid EXCEPT ![x] = nextSeqid]
        /\ \E label \in {"send", "lock", "turn", "check"} : pc' = [pc EXCEPT ![x] = label]
      BY <1>2 DEF GenerateSeqId, Send, RecvLock, Proceed, Wake, SpuriousWake, WakeUp, Goto,
                  syncVars
  <2>2. c # x
      BY <2>1, <1>t DEF TypeOK
  <2>3. pc[c] = "waiting" /\ seqid'[c] = seqid[c]
      BY <2>1, <2>2, <1>t DEF TypeOK
  <2> QED
      BY <2>1, <2>3, <1>q
<1>3. ASSUME NEW x \in Calls, NEW h, Take(x, h), UNCHANGED seqid PROVE pending'.seq # seqid'[c]
  <2>1. CASE /\ pending' = h /\ pc' = [pc EXCEPT ![x] = "check"] /\ Notify({h.seq})
    <3>1. pc[c] = "waiting"
        BY <2>1, <1>t DEF TypeOK
    <3> QED
        BY <2>1, <3>1, <1>3, <1>n
  <2>2. CASE /\ monitors' = monitors \ {seqid[x]} /\ Notify(monitors')
             /\ pc' = [pc EXCEPT ![x] = "threw"]
    <3>1. pc[c] = "waiting" /\ c # x
        BY <2>2, <1>t DEF TypeOK
    <3>2. seqid[c] \in monitors /\ seqid[c] # seqid[x]
        BY <3>1, OwnMonitor DEF Monitored, Active
    <3> QED
        BY <2>2, <3>1, <3>2, <1>n
  <2> QED
      BY <2>1, <2>2, <1>3, TakeWakes
<1>4. ASSUME NEW x \in Calls, GetPending(x) PROVE pending'.seq # seqid'[c]
    BY <1>4, <1>3 DEF GetPending
<1>5. ASSUME NEW x \in Calls, ReadHeader(x) PROVE pending'.seq # seqid'[c]
    BY <1>5, <1>3 DEF ReadHeader
<1>6. ASSUME NEW x \in Calls, DeadConnection(x) \/ ReadBody(x) \/ ReadEof(x)
      PROVE  pending'.seq # seqid'[c]
  <2>1. PICK committed \in BOOLEAN, label \in {"returned", "threw"} : Leave(x, committed, label)
      BY <1>6 DEF DeadConnection, ReadBody, ReadEof
  <2>2. pc' = [pc EXCEPT ![x] = label]
      BY <2>1 DEF Leave, Goto
  <2>3. pc[c] = "waiting"
      BY <2>2, <1>t DEF TypeOK
  <2>4. PICK seqs : Notify(seqs)
      BY <2>1 DEF Leave
  <2>5. ~notified[c]
      BY <2>3, <2>4, <1>n
  <2>6. pending' = pending /\ seqid' = seqid
      BY <1>6 DEF DeadConnection, ReadBody, ReadEof
  <2> QED
      BY <2>3, <2>5, <2>6, <1>q
<1>7. ASSUME NEW x \in Calls, Block(x) PROVE pending'.seq # seqid'[c]
  <2>1. CASE c = x
      BY <2>1, <1>7 DEF Block, BlockIsCovered
  <2>2. CASE c # x
      BY <2>2, <1>7, <1>q, <1>t DEF Block, Goto, TypeOK
  <2> QED
      BY <2>1, <2>2
<1>w. ASSUME NEW x \in Calls, NothingToDo(x) PROVE pending'.seq # seqid'[c]
    BY <1>w, <1>q, <1>t DEF NothingToDo, Goto, syncVars, TypeOK
<1>8. ASSUME NEW r \in requests, Answer(r) PROVE pending'.seq # seqid'[c]
    BY <1>8, <1>q DEF Answer, syncVars
<1>9. ASSUME Crash PROVE pending'.seq # seqid'[c]
    BY <1>9, <1>q DEF Crash, syncVars
<1>10. CASE UNCHANGED vars
    BY <1>10, <1>q DEF vars, syncVars
<1> QED
    BY <1>1, <1>s, <1>2, <1>4, <1>5, <1>6, <1>7, <1>w, <1>8, <1>9, <1>10 DEF Next, CallStep

\* Nobody waits yet and nothing is pending.
LEMMA HandOverInit == Init => HandOverInv
BY ClientInit DEF Init, HandOverInv, Monitored, BlockIsCovered, AllTold, HeaderHasTaker,
                  SomebodyReads, NoLostHandOver, Active

\* A step keeps the duty to read with a thread that is awake.
LEMMA HandOverStep == HandOverInv /\ [Next]_vars => HandOverInv'
<1> SUFFICES ASSUME HandOverInv, [Next]_vars PROVE HandOverInv'
    OBVIOUS
<1>1. ClientInv'
    BY TypeOKStep, NumbersStep, MutexStep, HeadersStep, OwnAnswerStep DEF HandOverInv, ClientInv
<1>2. Monitored' /\ BlockIsCovered' /\ AllTold' /\ HeaderHasTaker' /\ SomebodyReads'
    BY MonitoredStep, BlockIsCoveredStep, AllToldStep, HeaderHasTakerStep, SomebodyReadsStep
       DEF HandOverInv
<1>3. NoLostHandOver'
  <2> SUFFICES ASSUME NEW c \in Calls, pc'[c] = "waiting", ~notified'[c]
               PROVE  /\ \E d \in Calls : Awake(d)'
                      /\ pending' # NoHeader => pending'.seq # seqid'[c]
      BY DEF NoLostHandOver
  <2>1. pending' # NoHeader => pending'.seq # seqid'[c]
      BY OwnHeaderStep DEF HandOverInv
  <2>2. CASE stop'
    <3>1. PICK d \in Calls : FindsOut(d)'
        BY <2>2, <1>2 DEF AllTold
    <3> QED
        BY <2>1, <3>1 DEF FindsOut, Comes, Awake
  <2>3. CASE ~stop'
      BY <1>1, <1>2, <2>1, <2>3, SomebodyAwakeStep DEF HandOverInv
  <2> QED
      BY <2>2, <2>3
<1> QED
    BY <1>1, <1>2, <1>3 DEF HandOverInv

\* The inductive invariant of the hand-over: monitors are those of the calls under way, a
\* header is left to one of them that comes for it, and wakeupSomeone stays up until one
\* of them reads.  A failing send may mark the connection dead between the test and the
\* wait of another call, whose notification is then lost: but a call that is about to
\* wait has another that comes for the mutex behind it, and while one sleeps on a dead
\* connection untold, there is one that is going to find out and tell it.
THEOREM HandOverInvariant == Spec => []HandOverInv
BY HandOverInit, HandOverStep, PTL DEF Spec

\* TConcurrentClientSyncInfo, for any number of threads and spurious wake-ups: while a
\* thread sleeps without a notification, another is awake and reads or will, and what is
\* pending is not the answer to the one that sleeps.
THEOREM DutyToReadIsNeverLost == Spec => []NoLostHandOver
<1>1. HandOverInv => NoLostHandOver
    BY DEF HandOverInv
<1> QED
    BY <1>1, HandOverInvariant, PTL

===============================================================================
