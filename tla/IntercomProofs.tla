----------------------------- MODULE IntercomProofs -----------------------------
(***************************************************************************)
(* Proofs about Intercom: what a client is told is true and about its own   *)
(* request, and Redis is clean afterwards - for any requests, files and     *)
(* chunk keys, and responses of any number of parts.                        *)
(***************************************************************************)
EXTENDS Intercom, SequenceTheorems, TLAPS

-----------------------------------------------------------------------------
(* The inductive invariant.                                                *)

Answers == {None, "content", "pair of None", "True", "False"}
Values == [answer : Answers, keys : Seq(ChunkKeys)]
ClientPhases == {"none", "new", "waiting", "reading", "answered", "failed", "gave_up"}
ThreadPhases == {"none", "started", "wait", "respond", "chunk", "ended"}
Clients == [phase : ClientPhases, answer : Answers, keys : Seq(ChunkKeys), read : SUBSET Requests]
ResponderThreads ==
    [phase : ThreadPhases, answer : Answers, keys : Seq(ChunkKeys), event : SUBSET Requests]

TypeInv ==
    /\ list \in [ConnectionTypes -> Seq(Requests)]
    /\ key \in [Requests -> {<<>>} \cup {<<v>> : v \in Values}]
    /\ chunk \in [ChunkKeys -> SUBSET Chunk]
    /\ client \in [Requests -> Clients]
    /\ listener \in [ConnectionTypes -> {<<>>} \cup {<<r>> : r \in Requests}]
    /\ thread \in [Requests -> ResponderThreads]
    /\ events \in [{Uid[r] : r \in Requests} -> SUBSET Requests]
    /\ analysis \in [Requests -> {"none", "running", "finished", "lost"}]

\* A request waits in the list of its type once, before its thread is started, and
\* its analysis is started once, after that
InOrder ==
    /\ \A c \in ConnectionTypes :
         /\ \A i \in 1..Len(list[c]) :
              /\ Connection[list[c][i]] = c
              /\ thread[list[c][i]].phase = "none"
              /\ client[list[c][i]].phase \in {"waiting", "gave_up"}
         /\ \A i, j \in 1..Len(list[c]) : list[c][i] = list[c][j] => i = j
         /\ listener[c] # <<>> =>
              /\ Connection[listener[c][1]] = c
              /\ thread[listener[c][1]].phase # "none"
              /\ analysis[listener[c][1]] = "none"
    /\ \A r \in Requests :
         /\ client[r].phase \in {"none", "new"} => thread[r].phase = "none"
         /\ thread[r].phase = "none" => analysis[r] = "none"

\* A response is at one place at a time: with its thread, under its key, or with
\* the client; it has as many chunks as it has parts
OneResponseOf(r) ==
    /\ thread[r].phase # "ended" =>
         /\ key[r] = <<>> /\ client[r].keys = <<>> /\ client[r].read = {}
         /\ client[r].phase \in {"none", "new", "waiting", "gave_up"}
         /\ client[r].answer = None
    /\ thread[r].phase \notin {"respond", "chunk"} => thread[r].keys = <<>>
    /\ thread[r].phase = "chunk" => thread[r].keys # <<>>
    /\ Len(thread[r].keys) <= Parts[r]
    /\ Parts[r] = 1 => thread[r].keys = <<>>
    /\ key[r] # <<>> =>
         /\ client[r].phase \in {"waiting", "gave_up"}
         /\ client[r].keys = <<>> /\ client[r].read = {}
         /\ IF Parts[r] > 1 THEN Len(key[r][1].keys) = Parts[r] ELSE key[r][1].keys = <<>>
    /\ client[r].phase = "reading" => client[r].keys # <<>> /\ Parts[r] > 1
    /\ client[r].phase = "answered" => client[r].keys = <<>>

OneResponse == \A r \in Requests : OneResponseOf(r)

\* The chunk keys of a request, wherever they are
HeldKeys(r) ==
    IF thread[r].phase # "ended" THEN thread[r].keys
    ELSE IF key[r] # <<>> THEN key[r][1].keys ELSE client[r].keys

\* the key of the last chunk is chosen and not yet written
Reserved(r, i) == thread[r].phase = "chunk" /\ i = Len(thread[r].keys)

ChunkIsOf(r, k) == chunk[k] # {} /\ \A c \in chunk[k] : c.of = r

\* The keys that a request holds are different, and all but a reserved one are written
KeysAreWritten(r) ==
    \A i \in 1..Len(HeldKeys(r)) :
        /\ IF Reserved(r, i) THEN chunk[HeldKeys(r)[i]] = {} ELSE ChunkIsOf(r, HeldKeys(r)[i])
        /\ \A j \in 1..Len(HeldKeys(r)) : HeldKeys(r)[i] = HeldKeys(r)[j] => i = j

\* Every chunk is held by the request that it belongs to
ChunksAreHeld ==
    \A k \in ChunkKeys : \A c \in chunk[k] :
        \E i \in 1..Len(HeldKeys(c.of)) : HeldKeys(c.of)[i] = k

\* A client reads its own chunks, all of them
ReadsAreOwn(r) ==
    /\ client[r].read \subseteq {r}
    /\ client[r].phase # "failed"
    /\ client[r].phase = "answered" /\ Parts[r] > 1 => client[r].read = {r}

\* Unless two threads chose one key
ChunksAreOwn ==
    hist.collided = {} =>
        /\ \A r \in Requests : KeysAreWritten(r)
        /\ ChunksAreHeld
        /\ \A r \in Requests : ReadsAreOwn(r)

\* The analysis that a request is told about
Analysed(r) == \E s \in {r} \cup hist.swapped : Uid[s] = Uid[r] /\ analysis[s] = "finished"

\* Events are about their file; True comes from a finished analysis
AnswersOf(r) ==
    /\ \A e \in thread[r].event : Uid[e] = Uid[r]
    /\ thread[r].answer = "True" => Analysed(r)
    /\ key[r] # <<>> /\ key[r][1].answer = "True" => Analysed(r)
    /\ client[r].answer = "True" => Analysed(r)

AnswersAreTrue ==
    /\ \A u \in DOMAIN events : events[u] \subseteq {r \in Requests : Uid[r] = u}
    /\ \A r \in Requests : AnswersOf(r)

\* The histories hold what is the case now
HistoriesAreKept ==
    /\ Collided \subseteq hist.collided
    /\ Swapped \subseteq hist.swapped /\ hist.swapped \subseteq Requests

IntercomInv ==
    /\ TypeInv
    /\ InOrder
    /\ OneResponse
    /\ ChunksAreOwn
    /\ AnswersAreTrue
    /\ HistoriesAreKept

-----------------------------------------------------------------------------
(* What the steps do.                                                      *)

\* The steps of the system
LEMMA Actions ==
    ASSUME Next
    PROVE  /\ Recorded
           /\ \/ \E r \in Requests, k \in ChunkKeys : NewChunkKey(r, k)
              \/ \E r \in Requests : StoreChunk(r)
              \/ \E r \in Requests : Set(r)
              \/ \E r \in Requests : Request(r)
              \/ \E r \in Requests : Poll(r)
              \/ \E r \in Requests : ReadChunk(r)
              \/ \E r \in Requests : GiveUp(r)
              \/ \E c \in ConnectionTypes : PreProcess(c)
              \/ \E c \in ConnectionTypes : Process(c)
              \/ \E r \in Requests : AnalysisFinishes(r) \/ AnalysisIsLost(r)
              \/ \E r \in Requests : GetResponse(r)
              \/ \E r \in Requests : PopEvent(r)
              \/ \E r \in Requests : WaitEnds(r)
BY DEF Next, Step, Receive, Respond

\* The answers of BinaryService, which never are the ones of a single file task
LEMMA Responses ==
    ASSUME NEW r \in Requests
    PROVE  Response(r) \in Answers \ {"True"}
BY DEF Response, Answers, None

\* What is stored under a key, if anything, is one value
LEMMA KeyFacts ==
    ASSUME TypeInv, NEW r \in Requests, key[r] # <<>>
    PROVE  key[r] = <<key[r][1]>> /\ key[r][1] \in Values /\ key[r][1].answer \in Answers
             /\ key[r][1].keys \in Seq(ChunkKeys)
BY DEF TypeInv, Values

\* The fields of a thread and of a client
LEMMA Fields ==
    ASSUME TypeInv, NEW r \in Requests
    PROVE  /\ thread[r].phase \in ThreadPhases /\ thread[r].answer \in Answers
           /\ thread[r].keys \in Seq(ChunkKeys) /\ thread[r].event \in SUBSET Requests
           /\ client[r].phase \in ClientPhases /\ client[r].answer \in Answers
           /\ client[r].keys \in Seq(ChunkKeys) /\ client[r].read \in SUBSET Requests
           /\ Parts[r] \in Nat \ {0}
BY IntercomConstants DEF TypeInv, ResponderThreads, Clients

\* A step of thread r: its new record, field by field, and the other records
ThreadIs(r, p, a, ks, e) ==
    /\ thread' \in [Requests -> ResponderThreads]
    /\ thread'[r].phase = p /\ thread'[r].answer = a
    /\ thread'[r].keys = ks /\ thread'[r].event = e
    /\ \A s \in Requests : s # r => thread'[s] = thread[s]

\* A step of the client of request r, in the same way
ClientIs(r, p, a, ks, d) ==
    /\ client' \in [Requests -> Clients]
    /\ client'[r].phase = p /\ client'[r].answer = a
    /\ client'[r].keys = ks /\ client'[r].read = d
    /\ \A s \in Requests : s # r => client'[s] = client[s]

\* A thread whose fields change
LEMMA ThreadBecomes ==
    ASSUME TypeInv, NEW r \in Requests, NEW p \in ThreadPhases, NEW a \in Answers,
           NEW ks \in Seq(ChunkKeys), NEW e \in SUBSET Requests,
           thread' = [thread EXCEPT ![r] = [phase |-> p, answer |-> a, keys |-> ks, event |-> e]]
    PROVE  ThreadIs(r, p, a, ks, e)
<1>1. [phase |-> p, answer |-> a, keys |-> ks, event |-> e] \in ResponderThreads
  BY DEF ResponderThreads
<1> QED
  BY <1>1 DEF TypeInv, ThreadIs

\* A client whose fields change
LEMMA ClientBecomes ==
    ASSUME TypeInv, NEW r \in Requests, NEW p \in ClientPhases, NEW a \in Answers,
           NEW ks \in Seq(ChunkKeys), NEW d \in SUBSET Requests,
           client' = [client EXCEPT ![r] = [phase |-> p, answer |-> a, keys |-> ks, read |-> d]]
    PROVE  ClientIs(r, p, a, ks, d)
<1>1. [phase |-> p, answer |-> a, keys |-> ks, read |-> d] \in Clients
  BY DEF Clients
<1> QED
  BY <1>1 DEF TypeInv, ClientIs

\* _get_new_chunk_key adds a key, and the thread is about to write its chunk
LEMMA NewChunkKeyEffect ==
    ASSUME TypeInv, NEW r \in Requests, NEW k \in ChunkKeys, NewChunkKey(r, k)
    PROVE  ThreadIs(r, "chunk", thread[r].answer, Append(thread[r].keys, k), thread[r].event)
<1>1. /\ thread[r].keys \in Seq(ChunkKeys)
      /\ thread[r].answer \in Answers /\ thread[r].event \in SUBSET Requests
  BY Fields
<1>2. Append(thread[r].keys, k) \in Seq(ChunkKeys) /\ "chunk" \in ThreadPhases
  BY <1>1 DEF ThreadPhases
<1> DEFINE new == [thread[r] EXCEPT !.phase = "chunk", !.keys = Append(thread[r].keys, k)]
<1>3. thread \in [Requests -> ResponderThreads] /\ thread[r] \in ResponderThreads
  BY DEF TypeInv
<1>4. thread' = [thread EXCEPT ![r] = new]
  BY DEF NewChunkKey
<1>5. /\ new.phase = "chunk" /\ new.answer = thread[r].answer
      /\ new.keys = Append(thread[r].keys, k) /\ new.event = thread[r].event
  BY <1>3 DEF ResponderThreads
<1>6. new \in ResponderThreads
  BY <1>2, <1>3 DEF ResponderThreads
<1> HIDE DEF new
<1>7. thread' \in [Requests -> ResponderThreads] /\ thread'[r] = new
  BY <1>3, <1>4, <1>6
<1>8. \A s \in Requests : s # r => thread'[s] = thread[s]
  BY <1>3, <1>4
<1> QED
  BY <1>5, <1>7, <1>8 DEF ThreadIs

\* The other steps of a thread change its phase, its answer and its event; it loses
\* its keys when it ends
LEMMA ThreadEffects ==
    ASSUME TypeInv, NEW r \in Requests
    PROVE  LET t == thread[r]
           IN  /\ StoreChunk(r) => ThreadIs(r, "respond", t.answer, t.keys, t.event)
               /\ Set(r) => ThreadIs(r, "ended", t.answer, <<>>, t.event)
               /\ GetResponse(r) => ThreadIs(r, "respond", Response(r), t.keys, t.event)
               /\ PopEvent(r) => ThreadIs(r, IF events[Uid[r]] = {} THEN "respond" ELSE "wait",
                                          "False", t.keys, events[Uid[r]])
               /\ WaitEnds(r) => ThreadIs(r, "respond", IF EventIsSet(r) THEN "True" ELSE "False",
                                          t.keys, t.event)
<1> DEFINE t == thread[r]
<1> DEFINE next(p, a, ks, e) ==
             thread' = [thread EXCEPT ![r] = [phase |-> p, answer |-> a, keys |-> ks, event |-> e]]
<1>0. /\ thread \in [Requests -> ResponderThreads]
      /\ t = [phase |-> t.phase, answer |-> t.answer, keys |-> t.keys, event |-> t.event]
  BY DEF TypeInv, ResponderThreads
<1>1. t.answer \in Answers /\ t.keys \in Seq(ChunkKeys) /\ t.event \in SUBSET Requests
  BY Fields
<1>2. events[Uid[r]] \in SUBSET Requests /\ Response(r) \in Answers /\ <<>> \in Seq(ChunkKeys)
  BY Responses DEF TypeInv
<1>3. {"respond", "wait", "ended"} \subseteq ThreadPhases /\ {"True", "False"} \subseteq Answers
  BY DEF ThreadPhases, Answers
<1>4. ASSUME StoreChunk(r) PROVE ThreadIs(r, "respond", t.answer, t.keys, t.event)
  <2>1. next("respond", t.answer, t.keys, t.event)
    <3>1. thread' = [thread EXCEPT ![r].phase = "respond"]
      BY <1>4 DEF StoreChunk
    <3>2. thread'[r] = [phase |-> "respond", answer |-> t.answer, keys |-> t.keys, event |-> t.event]
      BY <1>0, <3>1
    <3> QED
      BY <1>0, <3>1, <3>2
  <2> QED
    BY <1>1, <1>3, <2>1, ThreadBecomes
<1>5. ASSUME Set(r) PROVE ThreadIs(r, "ended", t.answer, <<>>, t.event)
  <2>1. next("ended", t.answer, <<>>, t.event)
    <3>1. thread' = [thread EXCEPT ![r].phase = "ended", ![r].keys = <<>>]
      BY <1>5 DEF Set
    <3>2. thread'[r] = [phase |-> "ended", answer |-> t.answer, keys |-> <<>>, event |-> t.event]
      BY <1>0, <3>1
    <3> QED
      BY <1>0, <3>1, <3>2
  <2> QED
    BY <1>1, <1>2, <1>3, <2>1, ThreadBecomes
<1>6. ASSUME GetResponse(r) PROVE ThreadIs(r, "respond", Response(r), t.keys, t.event)
  <2>1. next("respond", Response(r), t.keys, t.event)
    <3>1. thread' = [thread EXCEPT ![r].phase = "respond", ![r].answer = Response(r)]
      BY <1>6 DEF GetResponse
    <3>2. thread'[r] = [phase |-> "respond", answer |-> Response(r), keys |-> t.keys, event |-> t.event]
      BY <1>0, <3>1
    <3> QED
      BY <1>0, <3>1, <3>2
  <2> QED
    BY <1>1, <1>2, <1>3, <2>1, ThreadBecomes
<1>7. ASSUME PopEvent(r)
      PROVE  ThreadIs(r, IF events[Uid[r]] = {} THEN "respond" ELSE "wait", "False", t.keys,
                      events[Uid[r]])
  <2> DEFINE p == IF events[Uid[r]] = {} THEN "respond" ELSE "wait"
  <2>1. next(p, "False", t.keys, events[Uid[r]])
    <3>1. thread' = [thread EXCEPT ![r].event = events[Uid[r]], ![r].phase = p, ![r].answer = "False"]
      BY <1>7 DEF PopEvent
    <3>2. thread'[r] = [phase |-> p, answer |-> "False", keys |-> t.keys, event |-> events[Uid[r]]]
      BY <1>0, <3>1
    <3> QED
      BY <1>0, <3>1, <3>2
  <2>2. p \in ThreadPhases
    BY <1>3
  <2>3. ThreadIs(r, p, "False", t.keys, events[Uid[r]])
    <3> HIDE DEF p
    <3> QED
      BY <1>1, <1>2, <1>3, <2>1, <2>2, ThreadBecomes
  <2> QED
    BY <2>3
<1>8. ASSUME WaitEnds(r)
      PROVE  ThreadIs(r, "respond", IF EventIsSet(r) THEN "True" ELSE "False", t.keys, t.event)
  <2> DEFINE a == IF EventIsSet(r) THEN "True" ELSE "False"
  <2>1. next("respond", a, t.keys, t.event)
    <3>1. thread' = [thread EXCEPT ![r].phase = "respond", ![r].answer = a]
      BY <1>8 DEF WaitEnds
    <3>2. thread'[r] = [phase |-> "respond", answer |-> a, keys |-> t.keys, event |-> t.event]
      BY <1>0, <3>1
    <3> QED
      BY <1>0, <3>1, <3>2
  <2>2. a \in Answers
    BY <1>3
  <2>3. ThreadIs(r, "respond", a, t.keys, t.event)
    <3> HIDE DEF a
    <3> QED
      BY <1>1, <1>3, <2>1, <2>2, ThreadBecomes
  <2> QED
    BY <2>3
<1> QED
  BY <1>4, <1>5, <1>6, <1>7, <1>8

\* The client asks, takes the response from its key, reads chunks, gives up
LEMMA ClientEffects ==
    ASSUME TypeInv, OneResponse, NEW r \in Requests
    PROVE  LET my == client[r]
               v == key[r][1]
           IN  /\ Request(r) => ClientIs(r, "waiting", my.answer, my.keys, my.read)
               /\ Poll(r) => ClientIs(r, IF v.answer = None THEN "waiting"
                                         ELSE IF v.keys = <<>> THEN "answered" ELSE "reading",
                                      v.answer, v.keys, my.read)
               /\ ReadChunk(r) =>
                     /\ Head(my.keys) \in ChunkKeys
                     /\ ClientIs(r, IF chunk[Head(my.keys)] = {} THEN "failed"
                                    ELSE IF Len(my.keys) = 1 THEN "answered" ELSE "reading",
                                 my.answer, Tail(my.keys),
                                 my.read \cup {c.of : c \in chunk[Head(my.keys)]})
               /\ GiveUp(r) => ClientIs(r, "gave_up", my.answer, my.keys, my.read)
<1> DEFINE my == client[r]
<1> DEFINE next(p, a, ks, d) ==
             client' = [client EXCEPT ![r] = [phase |-> p, answer |-> a, keys |-> ks, read |-> d]]
<1>0. /\ client \in [Requests -> Clients]
      /\ my = [phase |-> my.phase, answer |-> my.answer, keys |-> my.keys, read |-> my.read]
  BY DEF TypeInv, Clients
<1>1. my.answer \in Answers /\ my.keys \in Seq(ChunkKeys) /\ my.read \in SUBSET Requests
  BY Fields
<1>2. {"waiting", "answered", "reading", "failed", "gave_up"} \subseteq ClientPhases
  BY DEF ClientPhases
<1>3. ASSUME Request(r) PROVE ClientIs(r, "waiting", my.answer, my.keys, my.read)
  <2>1. next("waiting", my.answer, my.keys, my.read)
    <3>1. client' = [client EXCEPT ![r].phase = "waiting"]
      BY <1>3 DEF Request
    <3>2. client'[r] = [phase |-> "waiting", answer |-> my.answer, keys |-> my.keys, read |-> my.read]
      BY <1>0, <3>1
    <3> QED
      BY <1>0, <3>1, <3>2
  <2> QED
    BY <1>1, <1>2, <2>1, ClientBecomes
<1>4. ASSUME GiveUp(r) PROVE ClientIs(r, "gave_up", my.answer, my.keys, my.read)
  <2>1. next("gave_up", my.answer, my.keys, my.read)
    <3>1. client' = [client EXCEPT ![r].phase = "gave_up"]
      BY <1>4 DEF GiveUp
    <3>2. client'[r] = [phase |-> "gave_up", answer |-> my.answer, keys |-> my.keys, read |-> my.read]
      BY <1>0, <3>1
    <3> QED
      BY <1>0, <3>1, <3>2
  <2> QED
    BY <1>1, <1>2, <2>1, ClientBecomes
<1>5. ASSUME Poll(r)
      PROVE  ClientIs(r, IF key[r][1].answer = None THEN "waiting"
                         ELSE IF key[r][1].keys = <<>> THEN "answered" ELSE "reading",
                      key[r][1].answer, key[r][1].keys, my.read)
  <2> DEFINE p == IF key[r][1].answer = None THEN "waiting"
                  ELSE IF key[r][1].keys = <<>> THEN "answered" ELSE "reading"
             v == key[r][1]
  <2>1. next(p, v.answer, v.keys, my.read)
    <3>1. client' = [client EXCEPT ![r].answer = v.answer, ![r].keys = v.keys, ![r].phase = p]
      BY <1>5 DEF Poll
    <3>2. client'[r] = [phase |-> p, answer |-> v.answer, keys |-> v.keys, read |-> my.read]
      BY <1>0, <3>1
    <3> QED
      BY <1>0, <3>1, <3>2
  <2>2. p \in ClientPhases
    BY <1>2
  <2>3. v.answer \in Answers /\ v.keys \in Seq(ChunkKeys)
    BY <1>5, KeyFacts DEF Poll
  <2>4. ClientIs(r, p, v.answer, v.keys, my.read)
    <3> HIDE DEF p, v
    <3> QED
      BY <1>1, <2>1, <2>2, <2>3, ClientBecomes
  <2> QED
    BY <2>4
<1>6. ASSUME ReadChunk(r)
      PROVE  /\ Head(my.keys) \in ChunkKeys
             /\ ClientIs(r, IF chunk[Head(my.keys)] = {} THEN "failed"
                            ELSE IF Len(my.keys) = 1 THEN "answered" ELSE "reading",
                         my.answer, Tail(my.keys),
                         my.read \cup {c.of : c \in chunk[Head(my.keys)]})
  <2> DEFINE p == IF chunk[Head(my.keys)] = {} THEN "failed"
                  ELSE IF Len(my.keys) = 1 THEN "answered" ELSE "reading"
             ks == Tail(my.keys)
             d == my.read \cup {c.of : c \in chunk[Head(my.keys)]}
  <2>1. next(p, my.answer, ks, d)
    <3>1. client' = [client EXCEPT ![r].keys = Tail(@), ![r].phase = p,
                                     ![r].read = @ \cup {c.of : c \in chunk[Head(my.keys)]}]
      BY <1>6 DEF ReadChunk
    <3>2. client'[r] = [phase |-> p, answer |-> my.answer, keys |-> ks, read |-> d]
      BY <1>0, <3>1
    <3> QED
      BY <1>0, <3>1, <3>2
  <2>2. my.keys # <<>>
    BY <1>6 DEF ReadChunk, OneResponse, OneResponseOf
  <2>3. Head(my.keys) \in ChunkKeys /\ ks \in Seq(ChunkKeys)
    BY <1>1, <2>2
  <2>4. p \in ClientPhases
    BY <1>2
  <2>5. d \in SUBSET Requests
    BY <1>1, <2>3 DEF TypeInv, Chunk
  <2>6. ClientIs(r, p, my.answer, ks, d)
    <3> HIDE DEF p, ks, d
    <3> QED
      BY <1>1, <2>1, <2>3, <2>4, <2>5, ClientBecomes
  <2> QED
    BY <2>3, <2>6
<1> QED
  BY <1>3, <1>4, <1>5, <1>6

\* The listener takes the first request of its list, whose thread is started
LEMMA PreProcessEffect ==
    ASSUME TypeInv, NEW c \in ConnectionTypes, PreProcess(c)
    PROVE  LET r == Head(list[c])
               t == thread[r]
           IN  /\ r \in Requests /\ r = list[c][1] /\ list[c] \in Seq(Requests) /\ list[c] # <<>>
               /\ ThreadIs(r, "started", t.answer, t.keys, t.event)
               /\ list' \in [ConnectionTypes -> Seq(Requests)] /\ list'[c] = Tail(list[c])
               /\ \A d \in ConnectionTypes : d # c => list'[d] = list[d]
               /\ listener'[c] = <<r>> /\ listener[c] = <<>>
               /\ \A d \in ConnectionTypes : d # c => listener'[d] = listener[d]
               /\ listener' \in [ConnectionTypes -> {<<>>} \cup {<<q>> : q \in Requests}]
               /\ events' \in [{Uid[q] : q \in Requests} -> SUBSET Requests]
               /\ \A u \in DOMAIN events : events'[u] = events[u] \/ (events'[u] = {r} /\ Uid[r] = u)
<1> DEFINE r == Head(list[c])
           t == thread[r]
<1>1. list[c] \in Seq(Requests) /\ list[c] # <<>> /\ list \in [ConnectionTypes -> Seq(Requests)]
  BY DEF TypeInv, PreProcess
<1>2. r \in Requests /\ r = list[c][1] /\ Tail(list[c]) \in Seq(Requests)
  BY <1>1
<1>3. /\ list' = [list EXCEPT ![c] = Tail(@)]
      /\ listener' = [listener EXCEPT ![c] = <<r>>] /\ listener[c] = <<>>
      /\ thread' = [thread EXCEPT ![r].phase = "started"]
      /\ events' = IF c = "single_file_task" THEN [events EXCEPT ![Uid[r]] = {r}] ELSE events
  BY DEF PreProcess
<1> HIDE DEF r
<1>4. /\ list' \in [ConnectionTypes -> Seq(Requests)] /\ list'[c] = Tail(list[c])
      /\ \A d \in ConnectionTypes : d # c => list'[d] = list[d]
  BY <1>1, <1>2, <1>3
<1>5. /\ listener'[c] = <<r>>
      /\ \A d \in ConnectionTypes : d # c => listener'[d] = listener[d]
      /\ listener' \in [ConnectionTypes -> {<<>>} \cup {<<q>> : q \in Requests}]
  BY <1>2, <1>3 DEF TypeInv
<1>6. /\ events' \in [{Uid[q] : q \in Requests} -> SUBSET Requests]
      /\ \A u \in DOMAIN events : events'[u] = events[u] \/ (events'[u] = {r} /\ Uid[r] = u)
  BY <1>2, <1>3 DEF TypeInv
<1>7. /\ thread \in [Requests -> ResponderThreads]
      /\ t = [phase |-> t.phase, answer |-> t.answer, keys |-> t.keys, event |-> t.event]
  BY <1>2 DEF TypeInv, ResponderThreads
<1>8. thread'[r] = [phase |-> "started", answer |-> t.answer, keys |-> t.keys, event |-> t.event]
  BY <1>2, <1>3, <1>7
<1>9. thread' = [thread EXCEPT ![r] = [phase |-> "started", answer |-> t.answer,
                                       keys |-> t.keys, event |-> t.event]]
  BY <1>2, <1>3, <1>7, <1>8
<1>10. /\ t.answer \in Answers /\ t.keys \in Seq(ChunkKeys) /\ t.event \in SUBSET Requests
       /\ "started" \in ThreadPhases
  BY <1>2, Fields DEF ThreadPhases
<1>11. ThreadIs(r, "started", t.answer, t.keys, t.event)
  BY <1>2, <1>9, <1>10, ThreadBecomes
<1> QED
  BY <1>1, <1>2, <1>3, <1>4, <1>5, <1>6, <1>11 DEF r

\* The listener calls the processing function, which starts an analysis at most
LEMMA ProcessEffect ==
    ASSUME TypeInv, NEW c \in ConnectionTypes, Process(c)
    PROVE  LET r == listener[c][1]
           IN  /\ r \in Requests
               /\ listener'[c] = <<>> /\ listener[c] # <<>>
               /\ \A d \in ConnectionTypes : d # c => listener'[d] = listener[d]
               /\ listener' \in [ConnectionTypes -> {<<>>} \cup {<<q>> : q \in Requests}]
               /\ analysis' \in [Requests -> {"none", "running", "finished", "lost"}]
               /\ \A s \in Requests : s # r => analysis'[s] = analysis[s]
<1>1. PICK r \in Requests : listener[c] = <<r>>
  BY DEF TypeInv, Process
<1>2. Head(listener[c]) = r /\ listener[c][1] = r /\ listener[c] # <<>>
  BY <1>1
<1>3. /\ listener' = [listener EXCEPT ![c] = <<>>]
      /\ analysis' = IF c = "single_file_task" THEN [analysis EXCEPT ![r] = "running"] ELSE analysis
  BY <1>2 DEF Process
<1> QED
  BY <1>2, <1>3 DEF TypeInv

\* Every step keeps the types
LEMMA TypeStep ==
    ASSUME TypeInv, OneResponse, Next
    PROVE  TypeInv'
<1>1. ASSUME NEW r \in Requests, NEW k \in ChunkKeys, NewChunkKey(r, k)
      PROVE  TypeInv'
  BY <1>1, NewChunkKeyEffect DEF ThreadIs, NewChunkKey, TypeInv
<1>2. ASSUME NEW r \in Requests, StoreChunk(r)
      PROVE  TypeInv'
  <2> DEFINE n == Len(thread[r].keys)
             v == {[of |-> r, part |-> n]}
  <2>1. thread[r].keys \in Seq(ChunkKeys) /\ thread[r].keys # <<>>
    BY <1>2, Fields DEF StoreChunk, OneResponse, OneResponseOf
  <2>2. n \in Nat /\ v \in SUBSET Chunk
    BY <2>1 DEF Chunk
  <2>3. chunk' = [chunk EXCEPT ![thread[r].keys[n]] = v]
    BY <1>2 DEF StoreChunk
  <2> HIDE DEF v
  <2>4. chunk' \in [ChunkKeys -> SUBSET Chunk]
    BY <2>2, <2>3 DEF TypeInv
  <2> QED
    BY <1>2, <2>4, ThreadEffects DEF ThreadIs, StoreChunk, TypeInv
<1>3. ASSUME NEW r \in Requests, Set(r)
      PROVE  TypeInv'
  <2> DEFINE v == [answer |-> thread[r].answer, keys |-> thread[r].keys]
  <2>1. v \in Values
    BY Fields DEF Values
  <2>2. key' = [key EXCEPT ![r] = <<v>>]
    BY <1>3 DEF Set
  <2> HIDE DEF v
  <2>3. key' \in [Requests -> {<<>>} \cup {<<w>> : w \in Values}]
    BY <2>1, <2>2 DEF TypeInv
  <2> QED
    BY <1>3, <2>3, ThreadEffects DEF ThreadIs, Set, TypeInv
<1>4. ASSUME NEW r \in Requests, Request(r)
      PROVE  TypeInv'
  <2>1. Connection[r] \in ConnectionTypes
    BY IntercomConstants
  <2>2. list[Connection[r]] \in Seq(Requests)
    BY <2>1 DEF TypeInv
  <2>3. Append(list[Connection[r]], r) \in Seq(Requests)
    BY <2>2
  <2>4. list' \in [ConnectionTypes -> Seq(Requests)]
    BY <1>4, <2>1, <2>3 DEF TypeInv, Request
  <2> QED
    BY <1>4, <2>4, ClientEffects DEF ClientIs, Request, TypeInv
<1>5. ASSUME NEW r \in Requests, Poll(r)
      PROVE  TypeInv'
  <2>1. key' \in [Requests -> {<<>>} \cup {<<w>> : w \in Values}]
    BY <1>5 DEF TypeInv, Poll
  <2>2. client' \in [Requests -> Clients]
    BY <1>5, ClientEffects DEF ClientIs
  <2> QED
    BY <1>5, <2>1, <2>2 DEF Poll, TypeInv
<1>6. ASSUME NEW r \in Requests, ReadChunk(r)
      PROVE  TypeInv'
  <2>1. chunk' \in [ChunkKeys -> SUBSET Chunk]
    BY <1>6 DEF TypeInv, ReadChunk
  <2>2. client' \in [Requests -> Clients]
    BY <1>6, ClientEffects DEF ClientIs
  <2> QED
    BY <1>6, <2>1, <2>2 DEF ReadChunk, TypeInv
<1>7. ASSUME NEW r \in Requests, GiveUp(r)
      PROVE  TypeInv'
  BY <1>7, ClientEffects DEF ClientIs, GiveUp, TypeInv
<1>8. ASSUME NEW c \in ConnectionTypes, PreProcess(c)
      PROVE  TypeInv'
  BY <1>8, PreProcessEffect DEF ThreadIs, PreProcess, TypeInv
<1>9. ASSUME NEW c \in ConnectionTypes, Process(c)
      PROVE  TypeInv'
  BY <1>9, ProcessEffect DEF Process, TypeInv
<1>10. ASSUME NEW r \in Requests, AnalysisFinishes(r) \/ AnalysisIsLost(r)
       PROVE  TypeInv'
  BY <1>10 DEF AnalysisFinishes, AnalysisIsLost, TypeInv
<1>11. ASSUME NEW r \in Requests, GetResponse(r)
       PROVE  TypeInv'
  BY <1>11, ThreadEffects DEF ThreadIs, GetResponse, TypeInv
<1>12. ASSUME NEW r \in Requests, PopEvent(r)
       PROVE  TypeInv'
  <2>1. events' \in [{Uid[q] : q \in Requests} -> SUBSET Requests]
    BY <1>12 DEF TypeInv, PopEvent
  <2>2. thread' \in [Requests -> ResponderThreads]
    BY <1>12, ThreadEffects DEF ThreadIs
  <2> QED
    BY <1>12, <2>1, <2>2 DEF PopEvent, TypeInv
<1>13. ASSUME NEW r \in Requests, WaitEnds(r)
       PROVE  TypeInv'
  <2>1. thread' \in [Requests -> ResponderThreads]
    BY <1>13, ThreadEffects DEF ThreadIs
  <2> QED
    BY <1>13, <2>1 DEF WaitEnds, TypeInv
<1> QED
  BY Actions, <1>1, <1>2, <1>3, <1>4, <1>5, <1>6, <1>7, <1>8, <1>9, <1>10, <1>11, <1>12, <1>13

-----------------------------------------------------------------------------
(* The order of lists, threads and analyses.                               *)

\* Steps of a thread that was started
LEMMA ThreadOrder ==
    ASSUME TypeInv, InOrder, NEW r \in Requests, thread[r].phase # "none",
           NEW p, NEW a, NEW ks, NEW e, ThreadIs(r, p, a, ks, e), p # "none",
           UNCHANGED <<list, listener, client, analysis>>
    PROVE  InOrder'
<1>1. \A s \in Requests : thread[s].phase = "none" <=> thread'[s].phase = "none"
  BY DEF ThreadIs
<1>2. \A c \in ConnectionTypes : \A i \in 1..Len(list[c]) : list[c][i] \in Requests
  BY DEF TypeInv
<1>3. \A c \in ConnectionTypes : listener[c] # <<>> => listener[c][1] \in Requests
  BY DEF TypeInv
<1> QED
  BY <1>1, <1>2, <1>3 DEF InOrder

\* Steps of a client that has asked
LEMMA ClientOrder ==
    ASSUME TypeInv, InOrder, NEW r \in Requests,
           NEW p, NEW a, NEW ks, NEW d, ClientIs(r, p, a, ks, d), p \notin {"none", "new"},
           p \in {"waiting", "gave_up"} \/ thread[r].phase # "none",
           UNCHANGED <<list, listener, thread, analysis>>
    PROVE  InOrder'
<1>1. \A c \in ConnectionTypes : \A i \in 1..Len(list[c]) : list[c][i] \in Requests
  BY DEF TypeInv
<1>2. ASSUME NEW c \in ConnectionTypes, NEW i \in 1..Len(list[c])
      PROVE  client'[list[c][i]].phase \in {"waiting", "gave_up"}
  BY <1>1 DEF ClientIs, InOrder
<1>3. \A s \in Requests : client'[s].phase \in {"none", "new"} => client[s].phase \in {"none", "new"}
  BY DEF ClientIs
<1> QED
  BY <1>2, <1>3 DEF InOrder

\* Every step keeps the order
LEMMA OrderStep ==
    ASSUME TypeInv, InOrder, OneResponse, Next
    PROVE  InOrder'
<1>1. ASSUME NEW r \in Requests, NEW k \in ChunkKeys, NewChunkKey(r, k)
      PROVE  InOrder'
  BY <1>1, NewChunkKeyEffect, ThreadOrder DEF NewChunkKey
<1>2. ASSUME NEW r \in Requests, StoreChunk(r)
      PROVE  InOrder'
  BY <1>2, ThreadEffects, ThreadOrder DEF StoreChunk
<1>3. ASSUME NEW r \in Requests, Set(r)
      PROVE  InOrder'
  BY <1>3, ThreadEffects, ThreadOrder DEF Set
<1>4. ASSUME NEW r \in Requests, Request(r)
      PROVE  InOrder'
  <2> DEFINE c == Connection[r]
  <2>1. c \in ConnectionTypes
    BY IntercomConstants
  <2>2. /\ client[r].phase = "new" /\ list' = [list EXCEPT ![c] = Append(@, r)]
        /\ UNCHANGED <<listener, thread, analysis>>
    BY <1>4 DEF Request
  <2>3. ClientIs(r, "waiting", client[r].answer, client[r].keys, client[r].read)
    BY <1>4, ClientEffects
  <2>4. /\ list[c] \in Seq(Requests) /\ list'[c] = Append(list[c], r)
        /\ \A d \in ConnectionTypes : d # c => list'[d] = list[d]
    BY <2>1, <2>2 DEF TypeInv
  <2> HIDE DEF c
  <2>5. /\ Len(list[c]) \in Nat /\ Len(list'[c]) = Len(list[c]) + 1
        /\ \A i \in 1..Len(list'[c]) : list'[c][i] = IF i <= Len(list[c]) THEN list[c][i] ELSE r
    BY <2>4
  <2>6. \A i \in 1..Len(list[c]) : list[c][i] # r
    BY <2>1, <2>2 DEF InOrder
  <2>7. thread[r].phase = "none" /\ Connection[r] = c
    BY <2>2 DEF InOrder, c
  <2>8. ASSUME NEW d \in ConnectionTypes, NEW i \in 1..Len(list'[d])
        PROVE  /\ Connection[list'[d][i]] = d
               /\ thread'[list'[d][i]].phase = "none"
               /\ client'[list'[d][i]].phase \in {"waiting", "gave_up"}
    <3>1. ASSUME NEW e \in ConnectionTypes, NEW j \in 1..Len(list[e])
          PROVE  /\ Connection[list[e][j]] = e
                 /\ thread'[list[e][j]].phase = "none"
                 /\ client'[list[e][j]].phase \in {"waiting", "gave_up"}
      <4>1. list[e][j] \in Requests
        BY DEF TypeInv
      <4> QED
        BY <2>2, <2>3, <4>1 DEF InOrder, ClientIs
    <3>2. CASE d # c
      BY <2>4, <3>1, <3>2
    <3>3. CASE d = c /\ i <= Len(list[c])
      BY <2>1, <2>5, <3>1, <3>3
    <3>4. CASE d = c /\ ~(i <= Len(list[c]))
      BY <2>2, <2>3, <2>5, <2>7, <3>4 DEF ClientIs
    <3> QED
      BY <3>2, <3>3, <3>4
  <2>9. ASSUME NEW d \in ConnectionTypes, NEW i \in 1..Len(list'[d]), NEW j \in 1..Len(list'[d]),
               list'[d][i] = list'[d][j]
        PROVE  i = j
    <3>1. CASE d # c
      BY <2>4, <2>9, <3>1 DEF InOrder
    <3>2. CASE d = c
      BY <2>1, <2>5, <2>6, <2>9, <3>2 DEF InOrder
    <3> QED
      BY <3>1, <3>2
  <2>10. \A s \in Requests : client'[s].phase \in {"none", "new"} => client[s].phase \in {"none", "new"}
    BY <2>3 DEF ClientIs
  <2> QED
    BY <2>2, <2>8, <2>9, <2>10 DEF InOrder
<1>5. ASSUME NEW r \in Requests, Poll(r)
      PROVE  InOrder'
  <2>1. thread[r].phase = "ended"
    BY <1>5 DEF Poll, OneResponse, OneResponseOf
  <2> DEFINE p == IF key[r][1].answer = None THEN "waiting"
                  ELSE IF key[r][1].keys = <<>> THEN "answered" ELSE "reading"
  <2>2. ClientIs(r, p, key[r][1].answer, key[r][1].keys, client[r].read)
    BY <1>5, ClientEffects
  <2>3. p \notin {"none", "new"}
    OBVIOUS
  <2> HIDE DEF p
  <2> QED
    BY <1>5, <2>1, <2>2, <2>3, ClientOrder DEF Poll
<1>6. ASSUME NEW r \in Requests, ReadChunk(r)
      PROVE  InOrder'
  <2>1. thread[r].phase = "ended"
    BY <1>6 DEF ReadChunk, OneResponse, OneResponseOf
  <2> DEFINE p == IF chunk[Head(client[r].keys)] = {} THEN "failed"
                  ELSE IF Len(client[r].keys) = 1 THEN "answered" ELSE "reading"
             d == client[r].read \cup {c.of : c \in chunk[Head(client[r].keys)]}
  <2>2. ClientIs(r, p, client[r].answer, Tail(client[r].keys), d)
    BY <1>6, ClientEffects
  <2>3. p \notin {"none", "new"}
    OBVIOUS
  <2> HIDE DEF p, d
  <2> QED
    BY <1>6, <2>1, <2>2, <2>3, ClientOrder DEF ReadChunk
<1>7. ASSUME NEW r \in Requests, GiveUp(r)
      PROVE  InOrder'
  BY <1>7, ClientEffects, ClientOrder DEF GiveUp
<1>8. ASSUME NEW c \in ConnectionTypes, PreProcess(c)
      PROVE  InOrder'
  <2> DEFINE r == Head(list[c])
  <2>1. /\ r \in Requests /\ r = list[c][1] /\ list[c] \in Seq(Requests) /\ list[c] # <<>>
        /\ ThreadIs(r, "started", thread[r].answer, thread[r].keys, thread[r].event)
        /\ list'[c] = Tail(list[c])
        /\ \A d \in ConnectionTypes : d # c => list'[d] = list[d]
        /\ listener'[c] = <<r>>
        /\ \A d \in ConnectionTypes : d # c => listener'[d] = listener[d]
        /\ UNCHANGED <<client, analysis>>
    BY <1>8, PreProcessEffect DEF PreProcess
  <2> HIDE DEF r
  <2>2. /\ 1 \in 1..Len(list[c])
        /\ \A i \in 1..Len(list'[c]) : list'[c][i] = list[c][i + 1] /\ i + 1 \in 1..Len(list[c])
        /\ Len(list'[c]) \in Nat
    BY <2>1
  <2>3. /\ thread[r].phase = "none" /\ Connection[r] = c /\ analysis[r] = "none"
        /\ client[r].phase \in {"waiting", "gave_up"}
    BY <2>1, <2>2 DEF InOrder
  <2>4. ASSUME NEW d \in ConnectionTypes, NEW i \in 1..Len(list'[d])
        PROVE  /\ list'[d][i] # r
               /\ Connection[list'[d][i]] = d
               /\ thread'[list'[d][i]].phase = "none"
               /\ client'[list'[d][i]].phase \in {"waiting", "gave_up"}
    <3>1. PICK j \in 1..Len(list[d]) : list'[d][i] = list[d][j] /\ (d = c => j # 1)
      <4>1. CASE d # c
        BY <2>1, <4>1
      <4>2. CASE d = c
        BY <2>2, <4>2
      <4> QED
        BY <4>1, <4>2
    <3>2. /\ Connection[list[d][j]] = d /\ thread[list[d][j]].phase = "none"
          /\ client[list[d][j]].phase \in {"waiting", "gave_up"} /\ list[d][j] \in Requests
      BY DEF InOrder, TypeInv
    <3>3. list[d][j] # r
      <4>1. CASE d # c
        BY <2>3, <3>2, <4>1
      <4>2. CASE d = c
        BY <2>1, <2>2, <3>1, <4>2 DEF InOrder
      <4> QED
        BY <4>1, <4>2
    <3> QED
      BY <2>1, <3>1, <3>2, <3>3 DEF ThreadIs
  <2>5. ASSUME NEW d \in ConnectionTypes, NEW i \in 1..Len(list'[d]), NEW j \in 1..Len(list'[d]),
               list'[d][i] = list'[d][j]
        PROVE  i = j
    <3>1. CASE d # c
      BY <2>1, <2>5, <3>1 DEF InOrder
    <3>2. CASE d = c
      <4>1. list[c][i + 1] = list[c][j + 1] /\ i + 1 \in 1..Len(list[c]) /\ j + 1 \in 1..Len(list[c])
        BY <2>2, <2>5, <3>2
      <4>2. i + 1 = j + 1
        BY <4>1 DEF InOrder
      <4> QED
        BY <2>2, <3>2, <4>2
    <3> QED
      BY <3>1, <3>2
  <2>6. ASSUME NEW d \in ConnectionTypes, listener'[d] # <<>>
        PROVE  /\ Connection[listener'[d][1]] = d
               /\ thread'[listener'[d][1]].phase # "none"
               /\ analysis'[listener'[d][1]] = "none"
    <3>1. CASE d = c
      BY <2>1, <2>3, <3>1 DEF ThreadIs
    <3>2. CASE d # c
      <4>1. listener[d][1] \in Requests
        BY <2>1, <2>6, <3>2 DEF TypeInv
      <4>2. thread'[listener[d][1]].phase # "none"
        BY <2>1, <2>6, <3>2, <4>1 DEF InOrder, ThreadIs
      <4> QED
        BY <2>1, <2>6, <3>2, <4>2 DEF InOrder
    <3> QED
      BY <3>1, <3>2
  <2>7. \A s \in Requests : /\ client'[s].phase \in {"none", "new"} => thread'[s].phase = "none"
                            /\ thread'[s].phase = "none" => analysis'[s] = "none"
    BY <2>1, <2>3 DEF InOrder, ThreadIs
  <2> QED
    BY <2>4, <2>5, <2>6, <2>7 DEF InOrder
<1>9. ASSUME NEW c \in ConnectionTypes, Process(c)
      PROVE  InOrder'
  <2> DEFINE r == listener[c][1]
  <2>1. /\ r \in Requests
        /\ listener'[c] = <<>> /\ listener[c] # <<>>
        /\ \A d \in ConnectionTypes : d # c => listener'[d] = listener[d]
        /\ \A s \in Requests : s # r => analysis'[s] = analysis[s]
        /\ UNCHANGED <<list, client, thread>>
    BY <1>9, ProcessEffect DEF Process
  <2>2. thread[r].phase # "none" /\ Connection[r] = c
    BY <2>1 DEF InOrder
  <2> HIDE DEF r
  <2>3. ASSUME NEW d \in ConnectionTypes, listener'[d] # <<>>
        PROVE  /\ Connection[listener'[d][1]] = d
               /\ thread'[listener'[d][1]].phase # "none"
               /\ analysis'[listener'[d][1]] = "none"
    <3>1. d # c /\ listener'[d] = listener[d]
      BY <2>1, <2>3
    <3>2. /\ listener[d][1] \in Requests /\ Connection[listener[d][1]] = d
          /\ thread[listener[d][1]].phase # "none" /\ analysis[listener[d][1]] = "none"
      BY <2>3, <3>1 DEF TypeInv, InOrder
    <3> QED
      BY <2>1, <2>2, <3>1, <3>2
  <2> QED
    BY <2>1, <2>2, <2>3 DEF InOrder
<1>10. ASSUME NEW r \in Requests, AnalysisFinishes(r) \/ AnalysisIsLost(r)
       PROVE  InOrder'
  <2>1. /\ analysis[r] = "running" /\ UNCHANGED <<list, client, thread, listener>>
        /\ \A s \in Requests : s # r => analysis'[s] = analysis[s]
    BY <1>10 DEF AnalysisFinishes, AnalysisIsLost, TypeInv
  <2>2. \A d \in ConnectionTypes : listener[d] # <<>> => listener[d][1] \in Requests
    BY DEF TypeInv
  <2> QED
    BY <2>1, <2>2 DEF InOrder
<1>11. ASSUME NEW r \in Requests, GetResponse(r)
       PROVE  InOrder'
  BY <1>11, ThreadEffects, ThreadOrder DEF GetResponse
<1>12. ASSUME NEW r \in Requests, PopEvent(r)
       PROVE  InOrder'
  <2> DEFINE p == IF events[Uid[r]] = {} THEN "respond" ELSE "wait"
  <2>1. ThreadIs(r, p, "False", thread[r].keys, events[Uid[r]]) /\ p # "none"
    BY <1>12, ThreadEffects
  <2> HIDE DEF p
  <2> QED
    BY <1>12, <2>1, ThreadOrder DEF PopEvent
<1>13. ASSUME NEW r \in Requests, WaitEnds(r)
       PROVE  InOrder'
  <2> DEFINE a == IF EventIsSet(r) THEN "True" ELSE "False"
  <2>1. ThreadIs(r, "respond", a, thread[r].keys, thread[r].event)
    BY <1>13, ThreadEffects
  <2> HIDE DEF a
  <2> QED
    BY <1>13, <2>1, ThreadOrder DEF WaitEnds
<1> QED
  BY Actions, <1>1, <1>2, <1>3, <1>4, <1>5, <1>6, <1>7, <1>8, <1>9, <1>10, <1>11, <1>12, <1>13

-----------------------------------------------------------------------------
(* One response per request, at one place.                                 *)

\* All but request r are where they were
OthersStay(r) ==
    \A s \in Requests : s # r =>
        thread'[s] = thread[s] /\ client'[s] = client[s] /\ key'[s] = key[s]

\* A step of one request concerns the response to that request
LEMMA LocalResponse ==
    ASSUME OneResponse, NEW r \in Requests, OthersStay(r), OneResponseOf(r)'
    PROVE  OneResponse'
BY DEF OneResponse, OneResponseOf, OthersStay

\* The response of r: what the steps of its thread and its client make of it
LEMMA StepsOfOne ==
    ASSUME TypeInv, OneResponse, InOrder, NEW r \in Requests
    PROVE  /\ \A k \in ChunkKeys : NewChunkKey(r, k) => OthersStay(r) /\ OneResponseOf(r)'
           /\ StoreChunk(r) => OthersStay(r) /\ OneResponseOf(r)'
           /\ Set(r) => OthersStay(r) /\ OneResponseOf(r)'
           /\ Request(r) => OthersStay(r) /\ OneResponseOf(r)'
           /\ Poll(r) => OthersStay(r) /\ OneResponseOf(r)'
           /\ ReadChunk(r) => OthersStay(r) /\ OneResponseOf(r)'
           /\ GiveUp(r) => OthersStay(r) /\ OneResponseOf(r)'
           /\ GetResponse(r) => OthersStay(r) /\ OneResponseOf(r)'
           /\ PopEvent(r) => OthersStay(r) /\ OneResponseOf(r)'
           /\ WaitEnds(r) => OthersStay(r) /\ OneResponseOf(r)'
<1>1. OneResponseOf(r) /\ Parts[r] \in Nat /\ Parts[r] >= 1
  BY Fields DEF OneResponse
<1>2. /\ thread[r].keys \in Seq(ChunkKeys) /\ client[r].keys \in Seq(ChunkKeys)
      /\ Len(thread[r].keys) \in Nat /\ Len(<<>>) = 0
  BY Fields
<1>3. ASSUME NEW k \in ChunkKeys, NewChunkKey(r, k)
      PROVE  OthersStay(r) /\ OneResponseOf(r)'
  <2>1. /\ ThreadIs(r, "chunk", thread[r].answer, Append(thread[r].keys, k), thread[r].event)
        /\ UNCHANGED <<client, key>> /\ Parts[r] > 1 /\ Len(thread[r].keys) < Parts[r]
        /\ thread[r].phase = "respond"
    BY <1>3, NewChunkKeyEffect DEF NewChunkKey
  <2>2. /\ Len(Append(thread[r].keys, k)) = Len(thread[r].keys) + 1
        /\ Append(thread[r].keys, k) # <<>>
    BY <1>2
  <2> QED
    BY <1>1, <1>2, <2>1, <2>2 DEF OthersStay, OneResponseOf, ThreadIs
<1>4. ASSUME StoreChunk(r)
      PROVE  OthersStay(r) /\ OneResponseOf(r)'
  <2>1. /\ ThreadIs(r, "respond", thread[r].answer, thread[r].keys, thread[r].event)
        /\ UNCHANGED <<client, key>> /\ thread[r].phase = "chunk"
    BY <1>4, ThreadEffects DEF StoreChunk
  <2> QED
    BY <1>1, <2>1 DEF OthersStay, OneResponseOf, ThreadIs
<1>5. ASSUME Set(r)
      PROVE  OthersStay(r) /\ OneResponseOf(r)'
  <2>1. /\ ThreadIs(r, "ended", thread[r].answer, <<>>, thread[r].event)
        /\ UNCHANGED client /\ thread[r].phase = "respond"
        /\ Parts[r] > 1 => Len(thread[r].keys) = Parts[r]
        /\ key' = [key EXCEPT ![r] = <<[answer |-> thread[r].answer, keys |-> thread[r].keys]>>]
    BY <1>5, ThreadEffects DEF Set
  <2>2. /\ key'[r] # <<>> /\ key'[r][1].keys = thread[r].keys
        /\ \A s \in Requests : s # r => key'[s] = key[s]
    BY <2>1 DEF TypeInv
  <2>3. client[r].phase \notin {"none", "new"}
    BY <2>1 DEF InOrder
  <2> QED
    BY <1>1, <1>2, <2>1, <2>2, <2>3 DEF OthersStay, OneResponseOf, ThreadIs
<1>6. ASSUME Request(r)
      PROVE  OthersStay(r) /\ OneResponseOf(r)'
  <2>1. /\ ClientIs(r, "waiting", client[r].answer, client[r].keys, client[r].read)
        /\ UNCHANGED <<thread, key>>
    BY <1>6, ClientEffects DEF Request
  <2> QED
    BY <1>1, <2>1 DEF OthersStay, OneResponseOf, ClientIs
<1>7. ASSUME Poll(r)
      PROVE  OthersStay(r) /\ OneResponseOf(r)'
  <2> DEFINE p == IF key[r][1].answer = None THEN "waiting"
                  ELSE IF key[r][1].keys = <<>> THEN "answered" ELSE "reading"
  <2>1. /\ ClientIs(r, p, key[r][1].answer, key[r][1].keys, client[r].read)
        /\ UNCHANGED thread /\ key[r] # <<>> /\ key' = [key EXCEPT ![r] = <<>>]
    BY <1>7, ClientEffects DEF Poll
  <2>2. key'[r] = <<>> /\ \A s \in Requests : s # r => key'[s] = key[s]
    BY <2>1 DEF TypeInv
  <2>3. thread[r].phase = "ended" /\ (p = "reading" => key[r][1].keys # <<>> /\ Parts[r] > 1)
        /\ p \in {"waiting", "answered", "reading"} /\ (p = "answered" => key[r][1].keys = <<>>)
    BY <1>1, <2>1 DEF OneResponseOf
  <2> HIDE DEF p
  <2> QED
    BY <1>1, <2>1, <2>2, <2>3 DEF OthersStay, OneResponseOf, ClientIs
<1>8. ASSUME ReadChunk(r)
      PROVE  OthersStay(r) /\ OneResponseOf(r)'
  <2> DEFINE p == IF chunk[Head(client[r].keys)] = {} THEN "failed"
                  ELSE IF Len(client[r].keys) = 1 THEN "answered" ELSE "reading"
             d == client[r].read \cup {c.of : c \in chunk[Head(client[r].keys)]}
  <2>1. /\ ClientIs(r, p, client[r].answer, Tail(client[r].keys), d)
        /\ UNCHANGED <<thread, key>> /\ client[r].phase = "reading"
    BY <1>8, ClientEffects DEF ReadChunk
  <2>2. /\ client[r].keys # <<>> /\ Parts[r] > 1 /\ thread[r].phase = "ended" /\ key[r] = <<>>
    BY <1>1, <2>1 DEF OneResponseOf
  <2>3. /\ Len(client[r].keys) = 1 => Tail(client[r].keys) = <<>>
        /\ Len(client[r].keys) # 1 => Tail(client[r].keys) # <<>>
    <3>1. /\ Tail(client[r].keys) \in Seq(ChunkKeys) /\ Len(client[r].keys) \in Nat
          /\ Len(Tail(client[r].keys)) = Len(client[r].keys) - 1
      BY <1>2, <2>2
    <3>2. \A q \in Seq(ChunkKeys) : q = <<>> <=> Len(q) = 0
      BY EmptySeq
    <3>3. Tail(client[r].keys) = <<>> <=> Len(Tail(client[r].keys)) = 0
      BY <3>1, <3>2
    <3> QED
      BY <3>1, <3>3
  <2>4. /\ p \in {"failed", "answered", "reading"}
        /\ p = "answered" => Tail(client[r].keys) = <<>>
        /\ p = "reading" => Tail(client[r].keys) # <<>>
    BY <2>3
  <2> HIDE DEF p, d
  <2> QED
    BY <1>1, <2>1, <2>2, <2>4 DEF OthersStay, OneResponseOf, ClientIs
<1>9. ASSUME GiveUp(r)
      PROVE  OthersStay(r) /\ OneResponseOf(r)'
  <2>1. /\ ClientIs(r, "gave_up", client[r].answer, client[r].keys, client[r].read)
        /\ UNCHANGED <<thread, key>> /\ client[r].phase = "waiting"
    BY <1>9, ClientEffects DEF GiveUp
  <2> QED
    BY <1>1, <2>1 DEF OthersStay, OneResponseOf, ClientIs
<1>10. ASSUME GetResponse(r)
       PROVE  OthersStay(r) /\ OneResponseOf(r)'
  <2>1. /\ ThreadIs(r, "respond", Response(r), thread[r].keys, thread[r].event)
        /\ UNCHANGED <<client, key>> /\ thread[r].phase = "started"
    BY <1>10, ThreadEffects DEF GetResponse
  <2> QED
    BY <1>1, <2>1 DEF OthersStay, OneResponseOf, ThreadIs
<1>11. ASSUME PopEvent(r)
       PROVE  OthersStay(r) /\ OneResponseOf(r)'
  <2> DEFINE p == IF events[Uid[r]] = {} THEN "respond" ELSE "wait"
  <2>1. /\ ThreadIs(r, p, "False", thread[r].keys, events[Uid[r]])
        /\ UNCHANGED <<client, key>> /\ thread[r].phase = "started" /\ p \in {"respond", "wait"}
    BY <1>11, ThreadEffects DEF PopEvent
  <2> HIDE DEF p
  <2> QED
    BY <1>1, <2>1 DEF OthersStay, OneResponseOf, ThreadIs
<1>12. ASSUME WaitEnds(r)
       PROVE  OthersStay(r) /\ OneResponseOf(r)'
  <2> DEFINE a == IF EventIsSet(r) THEN "True" ELSE "False"
  <2>1. /\ ThreadIs(r, "respond", a, thread[r].keys, thread[r].event)
        /\ UNCHANGED <<client, key>> /\ thread[r].phase = "wait"
    BY <1>12, ThreadEffects DEF WaitEnds
  <2> HIDE DEF a
  <2> QED
    BY <1>1, <2>1 DEF OthersStay, OneResponseOf, ThreadIs
<1> QED
  BY <1>3, <1>4, <1>5, <1>6, <1>7, <1>8, <1>9, <1>10, <1>11, <1>12

\* The listener starts a thread that was not there
LEMMA PreProcessOfOne ==
    ASSUME TypeInv, OneResponse, InOrder, NEW c \in ConnectionTypes, PreProcess(c)
    PROVE  \E r \in Requests : /\ r = Head(list[c]) /\ thread[r].phase = "none"
                              /\ OthersStay(r) /\ OneResponseOf(r)'
<1>1. PICK r \in Requests : r = Head(list[c])
  BY PreProcessEffect
<1>2. /\ r = list[c][1] /\ list[c] \in Seq(Requests) /\ list[c] # <<>>
      /\ ThreadIs(r, "started", thread[r].answer, thread[r].keys, thread[r].event)
      /\ UNCHANGED <<client, key>>
  BY <1>1, PreProcessEffect DEF PreProcess
<1>3. 1 \in 1..Len(list[c])
  BY <1>2
<1>4. thread[r].phase = "none"
  BY <1>2, <1>3 DEF InOrder
<1>5. OneResponseOf(r)
  BY DEF OneResponse
<1>6. OthersStay(r) /\ OneResponseOf(r)'
  BY <1>2, <1>4, <1>5 DEF OthersStay, OneResponseOf, ThreadIs
<1> QED
  BY <1>1, <1>4, <1>6

\* Every step keeps one response per request
LEMMA ResponseStep ==
    ASSUME TypeInv, OneResponse, InOrder, Next
    PROVE  OneResponse'
<1>1. ASSUME NEW c \in ConnectionTypes, PreProcess(c)
      PROVE  OneResponse'
  <2>1. PICK r \in Requests : OthersStay(r) /\ OneResponseOf(r)'
    BY <1>1, PreProcessOfOne
  <2> QED
    BY <2>1, LocalResponse
<1>2. CASE UNCHANGED <<thread, client, key>>
  BY <1>2 DEF OneResponse, OneResponseOf
<1> QED
  BY Actions, StepsOfOne, LocalResponse, <1>1, <1>2 DEF Process, AnalysisFinishes, AnalysisIsLost

-----------------------------------------------------------------------------
(* Histories and answers.                                                  *)

\* The histories grow and hold what is the case
LEMMA HistoryStep ==
    ASSUME HistoriesAreKept, Recorded
    PROVE  /\ HistoriesAreKept'
           /\ hist.collided \subseteq hist'.collided /\ hist.swapped \subseteq hist'.swapped
<1>1. /\ hist'.collided = hist.collided \cup Collided'
      /\ hist'.swapped = hist.swapped \cup Swapped'
  BY DEF Recorded
<1>2. Swapped' \subseteq Requests
  BY DEF Swapped
<1> QED
  BY <1>1, <1>2 DEF HistoriesAreKept

\* A finished analysis stays finished, so that what a request is told stays true
LEMMA AnalysedStays ==
    ASSUME TypeInv, InOrder, HistoriesAreKept, Next
    PROVE  \A r \in Requests : Analysed(r) => Analysed(r)'
<1>1. hist.swapped \subseteq hist'.swapped /\ hist.swapped \subseteq Requests
  BY Actions, HistoryStep DEF HistoriesAreKept
<1>2. \A s \in Requests : analysis[s] = "finished" => analysis'[s] = "finished"
  <2>1. ASSUME NEW c \in ConnectionTypes, Process(c)
        PROVE  \A s \in Requests : analysis[s] = "finished" => analysis'[s] = "finished"
    <3>1. /\ listener[c][1] \in Requests /\ listener[c] # <<>>
          /\ \A s \in Requests : s # listener[c][1] => analysis'[s] = analysis[s]
      BY <2>1, ProcessEffect
    <3>2. analysis[listener[c][1]] = "none"
      BY <3>1 DEF InOrder
    <3> QED
      BY <3>1, <3>2
  <2>2. ASSUME NEW r \in Requests, AnalysisFinishes(r) \/ AnalysisIsLost(r)
        PROVE  \A s \in Requests : analysis[s] = "finished" => analysis'[s] = "finished"
    BY <2>2 DEF AnalysisFinishes, AnalysisIsLost, TypeInv
  <2>3. CASE UNCHANGED analysis
    BY <2>3
  <2> QED
    BY Actions, <2>1, <2>2, <2>3 DEF NewChunkKey, StoreChunk, Set, Request, Poll, ReadChunk, GiveUp,
       PreProcess, GetResponse, PopEvent, WaitEnds
<1> QED
  BY <1>1, <1>2 DEF Analysed

\* Every step keeps the answers true
LEMMA AnswersStep ==
    ASSUME TypeInv, InOrder, OneResponse, HistoriesAreKept, AnswersAreTrue, Next
    PROVE  AnswersAreTrue'
<1>1. \A r \in Requests : Analysed(r) => Analysed(r)'
  BY AnalysedStays
<1>2. ASSUME NEW r \in Requests, OthersStay(r), AnswersOf(r)', UNCHANGED events
      PROVE  AnswersAreTrue'
  BY <1>1, <1>2 DEF AnswersAreTrue, AnswersOf, OthersStay
<1>3. ASSUME NEW r \in Requests
      PROVE  AnswersOf(r)
  BY DEF AnswersAreTrue
<1>4. ASSUME NEW r \in Requests, NEW k \in ChunkKeys, NewChunkKey(r, k)
      PROVE  AnswersAreTrue'
  <2>1. OthersStay(r) /\ UNCHANGED <<events, client, key>>
    BY <1>4, StepsOfOne DEF NewChunkKey
  <2>2. thread'[r].answer = thread[r].answer /\ thread'[r].event = thread[r].event
    BY <1>4, NewChunkKeyEffect DEF ThreadIs
  <2>3. AnswersOf(r)'
    BY <1>1, <1>3, <2>1, <2>2 DEF AnswersOf
  <2> QED
    BY <1>2, <2>1, <2>3
<1>5. ASSUME NEW r \in Requests, StoreChunk(r)
      PROVE  AnswersAreTrue'
  <2>1. OthersStay(r) /\ UNCHANGED <<events, client, key>>
    BY <1>5, StepsOfOne DEF StoreChunk
  <2>2. thread'[r].answer = thread[r].answer /\ thread'[r].event = thread[r].event
    BY <1>5, ThreadEffects DEF ThreadIs
  <2>3. AnswersOf(r)'
    BY <1>1, <1>3, <2>1, <2>2 DEF AnswersOf
  <2> QED
    BY <1>2, <2>1, <2>3
<1>6. ASSUME NEW r \in Requests, Set(r)
      PROVE  AnswersAreTrue'
  <2>1. /\ OthersStay(r) /\ UNCHANGED <<events, client>>
        /\ key' = [key EXCEPT ![r] = <<[answer |-> thread[r].answer, keys |-> thread[r].keys]>>]
    BY <1>6, StepsOfOne DEF Set
  <2>2. thread'[r].answer = thread[r].answer /\ thread'[r].event = thread[r].event
    BY <1>6, ThreadEffects DEF ThreadIs
  <2>3. key'[r][1].answer = thread[r].answer
    BY <2>1 DEF TypeInv
  <2>4. AnswersOf(r)'
    BY <1>1, <1>3, <2>1, <2>2, <2>3 DEF AnswersOf
  <2> QED
    BY <1>2, <2>1, <2>4
<1>7. ASSUME NEW r \in Requests, Request(r)
      PROVE  AnswersAreTrue'
  <2>1. OthersStay(r) /\ UNCHANGED <<events, thread, key>>
    BY <1>7, StepsOfOne DEF Request
  <2>2. client'[r].answer = client[r].answer
    BY <1>7, ClientEffects DEF ClientIs
  <2>3. AnswersOf(r)'
    BY <1>1, <1>3, <2>1, <2>2 DEF AnswersOf
  <2> QED
    BY <1>2, <2>1, <2>3
<1>8. ASSUME NEW r \in Requests, Poll(r)
      PROVE  AnswersAreTrue'
  <2>1. /\ OthersStay(r) /\ UNCHANGED <<events, thread>> /\ key[r] # <<>>
        /\ key' = [key EXCEPT ![r] = <<>>]
    BY <1>8, StepsOfOne DEF Poll
  <2>2. client'[r].answer = key[r][1].answer
    BY <1>8, ClientEffects DEF ClientIs
  <2>3. key'[r] = <<>>
    BY <2>1 DEF TypeInv
  <2>4. AnswersOf(r)'
    BY <1>1, <1>3, <2>1, <2>2, <2>3 DEF AnswersOf
  <2> QED
    BY <1>2, <2>1, <2>4
<1>9. ASSUME NEW r \in Requests, ReadChunk(r)
      PROVE  AnswersAreTrue'
  <2>1. OthersStay(r) /\ UNCHANGED <<events, thread, key>>
    BY <1>9, StepsOfOne DEF ReadChunk
  <2>2. client'[r].answer = client[r].answer
    BY <1>9, ClientEffects DEF ClientIs
  <2>3. AnswersOf(r)'
    BY <1>1, <1>3, <2>1, <2>2 DEF AnswersOf
  <2> QED
    BY <1>2, <2>1, <2>3
<1>10. ASSUME NEW r \in Requests, GiveUp(r)
       PROVE  AnswersAreTrue'
  <2>1. OthersStay(r) /\ UNCHANGED <<events, thread, key>>
    BY <1>10, StepsOfOne DEF GiveUp
  <2>2. client'[r].answer = client[r].answer
    BY <1>10, ClientEffects DEF ClientIs
  <2>3. AnswersOf(r)'
    BY <1>1, <1>3, <2>1, <2>2 DEF AnswersOf
  <2> QED
    BY <1>2, <2>1, <2>3
<1>11. ASSUME NEW c \in ConnectionTypes, PreProcess(c)
       PROVE  AnswersAreTrue'
  <2>1. PICK r \in Requests : r = Head(list[c]) /\ OthersStay(r)
    BY <1>11, PreProcessOfOne
  <2>2. /\ thread'[r].answer = thread[r].answer /\ thread'[r].event = thread[r].event
        /\ events' \in [{Uid[q] : q \in Requests} -> SUBSET Requests]
        /\ \A u \in DOMAIN events : events'[u] = events[u] \/ (events'[u] = {r} /\ Uid[r] = u)
        /\ UNCHANGED <<client, key>>
    BY <1>11, <2>1, PreProcessEffect DEF ThreadIs, PreProcess
  <2>3. DOMAIN events' = DOMAIN events
    BY <2>2 DEF TypeInv
  <2>4. \A u \in DOMAIN events' : events'[u] \subseteq {q \in Requests : Uid[q] = u}
    BY <2>2, <2>3 DEF AnswersAreTrue
  <2>5. ASSUME NEW s \in Requests
        PROVE  AnswersOf(s)'
    BY <1>1, <1>3, <2>1, <2>2 DEF AnswersOf, OthersStay
  <2> QED
    BY <2>4, <2>5 DEF AnswersAreTrue
<1>12. CASE UNCHANGED <<thread, client, key, events>>
  BY <1>1, <1>12 DEF AnswersAreTrue, AnswersOf
<1>13. ASSUME NEW r \in Requests, GetResponse(r)
       PROVE  AnswersAreTrue'
  <2>1. OthersStay(r) /\ UNCHANGED <<events, client, key>>
    BY <1>13, StepsOfOne DEF GetResponse
  <2>2. thread'[r].answer # "True" /\ thread'[r].event = thread[r].event
    BY <1>13, ThreadEffects, Responses DEF ThreadIs
  <2>3. AnswersOf(r)'
    BY <1>1, <1>3, <2>1, <2>2 DEF AnswersOf
  <2> QED
    BY <1>2, <2>1, <2>3
<1>14. ASSUME NEW r \in Requests, PopEvent(r)
       PROVE  AnswersAreTrue'
  <2>1. OthersStay(r) /\ UNCHANGED <<client, key>> /\ events' = [events EXCEPT ![Uid[r]] = {}]
    BY <1>14, StepsOfOne DEF PopEvent
  <2>2. thread'[r].answer = "False" /\ thread'[r].event = events[Uid[r]]
    BY <1>14, ThreadEffects DEF ThreadIs
  <2>3. \A e \in events[Uid[r]] : Uid[e] = Uid[r]
    BY DEF AnswersAreTrue, TypeInv
  <2>4. \A u \in DOMAIN events' : events'[u] \subseteq {q \in Requests : Uid[q] = u}
    BY <2>1 DEF AnswersAreTrue
  <2>5. ASSUME NEW s \in Requests
        PROVE  AnswersOf(s)'
    BY <1>1, <1>3, <2>1, <2>2, <2>3 DEF AnswersOf, OthersStay
  <2> QED
    BY <2>4, <2>5 DEF AnswersAreTrue
<1>15. ASSUME NEW r \in Requests, WaitEnds(r)
       PROVE  AnswersAreTrue'
  <2>1. OthersStay(r) /\ UNCHANGED <<events, client, key>>
    BY <1>15, StepsOfOne DEF WaitEnds
  <2>2. thread'[r].answer = (IF EventIsSet(r) THEN "True" ELSE "False")
        /\ thread'[r].event = thread[r].event
    BY <1>15, ThreadEffects DEF ThreadIs
  <2>3. ASSUME EventIsSet(r)
        PROVE  Analysed(r)
    <3>1. PICK e \in thread[r].event : analysis[e] = "finished"
      BY <2>3 DEF EventIsSet
    <3>2. e \in Requests /\ Uid[e] = Uid[r]
      BY <1>3, Fields DEF AnswersOf
    <3>3. e = r \/ e \in hist.swapped
      BY <3>1, <3>2 DEF HistoriesAreKept, Swapped
    <3> QED
      BY <3>1, <3>2, <3>3 DEF Analysed
  <2>4. AnswersOf(r)'
    BY <1>1, <1>3, <2>1, <2>2, <2>3 DEF AnswersOf
  <2> QED
    BY <1>2, <2>1, <2>4
<1> QED
  BY Actions, <1>4, <1>5, <1>6, <1>7, <1>8, <1>9, <1>10, <1>11, <1>12, <1>13, <1>14, <1>15
     DEF Process, AnalysisFinishes, AnalysisIsLost

-----------------------------------------------------------------------------
(* Chunks.                                                                 *)

\* The keys that a request holds are chunk keys
LEMMA HeldType ==
    ASSUME TypeInv, NEW r \in Requests
    PROVE  HeldKeys(r) \in Seq(ChunkKeys)
BY Fields, KeyFacts DEF HeldKeys

\* A step of r leaves the others their keys
LEMMA HeldByOthers ==
    ASSUME NEW r \in Requests, OthersStay(r)
    PROVE  \A s \in Requests : s # r =>
             /\ HeldKeys(s)' = HeldKeys(s)
             /\ \A i : Reserved(s, i)' <=> Reserved(s, i)
BY DEF OthersStay, HeldKeys, Reserved

\* A thread that holds its keys before and after a step
LEMMA HeldByThread ==
    ASSUME NEW r \in Requests, thread[r].phase \notin {"ended", "chunk"},
           NEW p, p \notin {"ended", "chunk"}, NEW a, NEW e,
           ThreadIs(r, p, a, thread[r].keys, e)
    PROVE  /\ HeldKeys(r)' = HeldKeys(r)
           /\ \A i : Reserved(r, i)' <=> Reserved(r, i)
BY DEF ThreadIs, HeldKeys, Reserved

\* What moves a response leaves its keys and the chunks as they are
LEMMA HeldStays ==
    ASSUME TypeInv, OneResponse, InOrder, Next,
           \A r \in Requests : /\ ~StoreChunk(r) /\ ~ReadChunk(r)
                               /\ \A k \in ChunkKeys : ~NewChunkKey(r, k)
    PROVE  /\ UNCHANGED chunk
           /\ \A s \in Requests : /\ HeldKeys(s)' = HeldKeys(s)
                                  /\ \A i : Reserved(s, i)' <=> Reserved(s, i)
<1>1. ASSUME NEW r \in Requests, Set(r)
      PROVE  /\ UNCHANGED chunk /\ OthersStay(r)
             /\ HeldKeys(r)' = HeldKeys(r) /\ \A i : Reserved(r, i)' <=> Reserved(r, i)
  <2>1. /\ thread'[r].phase = "ended" /\ thread[r].phase = "respond"
        /\ key' = [key EXCEPT ![r] = <<[answer |-> thread[r].answer, keys |-> thread[r].keys]>>]
        /\ UNCHANGED chunk /\ OthersStay(r)
    BY <1>1, ThreadEffects, StepsOfOne DEF ThreadIs, Set
  <2>2. key'[r] # <<>> /\ key'[r][1].keys = thread[r].keys
    BY <2>1 DEF TypeInv
  <2> QED
    BY <2>1, <2>2 DEF HeldKeys, Reserved
<1>2. ASSUME NEW r \in Requests, Request(r)
      PROVE  /\ UNCHANGED chunk /\ OthersStay(r)
             /\ HeldKeys(r)' = HeldKeys(r) /\ \A i : Reserved(r, i)' <=> Reserved(r, i)
  <2>1. UNCHANGED <<chunk, thread, key>> /\ client'[r].keys = client[r].keys /\ OthersStay(r)
    BY <1>2, ClientEffects, StepsOfOne DEF ClientIs, Request
  <2> QED
    BY <2>1 DEF HeldKeys, Reserved
<1>3. ASSUME NEW r \in Requests, Poll(r)
      PROVE  /\ UNCHANGED chunk /\ OthersStay(r)
             /\ HeldKeys(r)' = HeldKeys(r) /\ \A i : Reserved(r, i)' <=> Reserved(r, i)
  <2>1. /\ UNCHANGED <<chunk, thread>> /\ client'[r].keys = key[r][1].keys /\ OthersStay(r)
        /\ key[r] # <<>> /\ key' = [key EXCEPT ![r] = <<>>]
    BY <1>3, ClientEffects, StepsOfOne DEF ClientIs, Poll
  <2>2. key'[r] = <<>> /\ thread[r].phase = "ended"
    BY <2>1 DEF TypeInv, OneResponse, OneResponseOf
  <2> QED
    BY <2>1, <2>2 DEF HeldKeys, Reserved
<1>4. ASSUME NEW r \in Requests, GiveUp(r)
      PROVE  /\ UNCHANGED chunk /\ OthersStay(r)
             /\ HeldKeys(r)' = HeldKeys(r) /\ \A i : Reserved(r, i)' <=> Reserved(r, i)
  <2>1. UNCHANGED <<chunk, thread, key>> /\ client'[r].keys = client[r].keys /\ OthersStay(r)
    BY <1>4, ClientEffects, StepsOfOne DEF ClientIs, GiveUp
  <2> QED
    BY <2>1 DEF HeldKeys, Reserved
<1>5. ASSUME NEW c \in ConnectionTypes, PreProcess(c)
      PROVE  \E r \in Requests :
                /\ UNCHANGED chunk /\ OthersStay(r)
                /\ HeldKeys(r)' = HeldKeys(r) /\ \A i : Reserved(r, i)' <=> Reserved(r, i)
  <2>1. PICK r \in Requests : r = Head(list[c]) /\ thread[r].phase = "none" /\ OthersStay(r)
    BY <1>5, PreProcessOfOne
  <2>2. /\ ThreadIs(r, "started", thread[r].answer, thread[r].keys, thread[r].event)
        /\ UNCHANGED chunk
    BY <1>5, <2>1, PreProcessEffect DEF PreProcess
  <2> QED
    BY <2>1, <2>2, HeldByThread
<1>6. CASE UNCHANGED <<thread, client, key, chunk>>
  BY <1>6 DEF HeldKeys, Reserved
<1>7. ASSUME NEW r \in Requests, GetResponse(r)
      PROVE  /\ UNCHANGED chunk /\ OthersStay(r)
             /\ HeldKeys(r)' = HeldKeys(r) /\ \A i : Reserved(r, i)' <=> Reserved(r, i)
  <2>1. /\ ThreadIs(r, "respond", Response(r), thread[r].keys, thread[r].event)
        /\ UNCHANGED chunk /\ thread[r].phase = "started" /\ OthersStay(r)
    BY <1>7, ThreadEffects, StepsOfOne DEF GetResponse
  <2> QED
    BY <2>1, HeldByThread
<1>8. ASSUME NEW r \in Requests, PopEvent(r)
      PROVE  /\ UNCHANGED chunk /\ OthersStay(r)
             /\ HeldKeys(r)' = HeldKeys(r) /\ \A i : Reserved(r, i)' <=> Reserved(r, i)
  <2> DEFINE p == IF events[Uid[r]] = {} THEN "respond" ELSE "wait"
  <2>1. /\ ThreadIs(r, p, "False", thread[r].keys, events[Uid[r]])
        /\ UNCHANGED chunk /\ thread[r].phase = "started" /\ OthersStay(r)
        /\ p \notin {"ended", "chunk"}
    BY <1>8, ThreadEffects, StepsOfOne DEF PopEvent
  <2> HIDE DEF p
  <2> QED
    BY <2>1, HeldByThread
<1>9. ASSUME NEW r \in Requests, WaitEnds(r)
      PROVE  /\ UNCHANGED chunk /\ OthersStay(r)
             /\ HeldKeys(r)' = HeldKeys(r) /\ \A i : Reserved(r, i)' <=> Reserved(r, i)
  <2> DEFINE a == IF EventIsSet(r) THEN "True" ELSE "False"
  <2>1. /\ ThreadIs(r, "respond", a, thread[r].keys, thread[r].event)
        /\ UNCHANGED chunk /\ thread[r].phase = "wait" /\ OthersStay(r)
    BY <1>9, ThreadEffects, StepsOfOne DEF WaitEnds
  <2> HIDE DEF a
  <2> QED
    BY <2>1, HeldByThread
<1>10. ASSUME \E r \in Requests :
                 /\ UNCHANGED chunk /\ OthersStay(r)
                 /\ HeldKeys(r)' = HeldKeys(r) /\ \A i : Reserved(r, i)' <=> Reserved(r, i)
       PROVE  /\ UNCHANGED chunk
              /\ \A s \in Requests : /\ HeldKeys(s)' = HeldKeys(s)
                                     /\ \A i : Reserved(s, i)' <=> Reserved(s, i)
  <2>1. PICK r \in Requests :
                 /\ UNCHANGED chunk /\ OthersStay(r)
                 /\ HeldKeys(r)' = HeldKeys(r) /\ \A i : Reserved(r, i)' <=> Reserved(r, i)
    BY <1>10
  <2>2. ASSUME NEW s \in Requests
        PROVE  HeldKeys(s)' = HeldKeys(s) /\ \A i : Reserved(s, i)' <=> Reserved(s, i)
    <3>1. CASE s = r
      BY <2>1, <3>1
    <3>2. CASE s # r
      BY <2>1, <3>2, HeldByOthers
    <3> QED
      BY <3>1, <3>2
  <2> QED
    BY <2>1, <2>2
<1>11. CASE \E r \in Requests : Set(r) \/ Request(r) \/ Poll(r) \/ GiveUp(r) \/ GetResponse(r)
                                \/ PopEvent(r) \/ WaitEnds(r)
  <2>1. \E r \in Requests :
                 /\ UNCHANGED chunk /\ OthersStay(r)
                 /\ HeldKeys(r)' = HeldKeys(r) /\ \A i : Reserved(r, i)' <=> Reserved(r, i)
    BY <1>1, <1>2, <1>3, <1>4, <1>7, <1>8, <1>9, <1>11
  <2> QED
    BY <1>10, <2>1
<1>12. CASE \E c \in ConnectionTypes : PreProcess(c)
  BY <1>5, <1>10, <1>12
<1>13. CASE \/ \E c \in ConnectionTypes : Process(c)
            \/ \E r \in Requests : AnalysisFinishes(r) \/ AnalysisIsLost(r)
  BY <1>6, <1>13 DEF Process, AnalysisFinishes, AnalysisIsLost
<1> QED
  BY Actions, <1>11, <1>12, <1>13

\* _get_new_chunk_key reserves a key that holds no chunk
LEMMA NewChunkKeyKeeps ==
    ASSUME TypeInv, OneResponse, InOrder, ChunksAreHeld, \A s \in Requests : KeysAreWritten(s),
           NEW r \in Requests, NEW k \in ChunkKeys, NewChunkKey(r, k)
    PROVE  ChunksAreHeld' /\ \A s \in Requests : KeysAreWritten(s)'
<1>1. PICK q \in Seq(ChunkKeys) : q = thread[r].keys
  BY Fields
<1>2. /\ thread[r].phase = "respond" /\ chunk[k] = {} /\ UNCHANGED chunk
      /\ thread'[r].phase = "chunk" /\ thread'[r].keys = Append(q, k) /\ OthersStay(r)
  BY <1>1, NewChunkKeyEffect, StepsOfOne DEF NewChunkKey, Free, ThreadIs
<1>3. HeldKeys(r) = q /\ HeldKeys(r)' = Append(q, k)
  BY <1>1, <1>2 DEF HeldKeys
<1>4. \A s \in Requests : s # r =>
             /\ HeldKeys(s)' = HeldKeys(s)
             /\ \A i : Reserved(s, i)' <=> Reserved(s, i)
  BY <1>2, HeldByOthers
<1>5. /\ Len(q) \in Nat /\ Len(Append(q, k)) = Len(q) + 1
      /\ \A i \in 1..Len(q) : Append(q, k)[i] = q[i]
      /\ Append(q, k)[Len(q) + 1] = k
  BY <1>1
<1>6. \A i \in 1..Len(q) : /\ ChunkIsOf(r, q[i])
                           /\ \A j \in 1..Len(q) : q[i] = q[j] => i = j
  BY <1>2, <1>3 DEF KeysAreWritten, Reserved
<1>7. \A i \in 1..Len(q) : q[i] # k
  BY <1>2, <1>6 DEF ChunkIsOf
<1>8. ASSUME NEW i \in 1..Len(HeldKeys(r)')
      PROVE  /\ IF Reserved(r, i)' THEN chunk'[HeldKeys(r)'[i]] = {} ELSE ChunkIsOf(r, HeldKeys(r)'[i])
             /\ \A j \in 1..Len(HeldKeys(r)') : HeldKeys(r)'[i] = HeldKeys(r)'[j] => i = j
  <2>1. Reserved(r, i)' <=> i = Len(q) + 1
    BY <1>2, <1>5 DEF Reserved
  <2>2. CASE i = Len(q) + 1
    BY <1>2, <1>3, <1>5, <1>7, <2>1, <2>2
  <2>3. CASE i \in 1..Len(q)
    BY <1>3, <1>5, <1>6, <1>7, <2>1, <2>3
  <2>4. i = Len(q) + 1 \/ i \in 1..Len(q)
    <3>1. i \in 1..(Len(q) + 1)
      BY <1>3, <1>5
    <3> QED
      BY <1>5, <3>1
  <2> QED
    BY <2>2, <2>3, <2>4
<1>9. KeysAreWritten(r)'
  BY <1>2, <1>8 DEF KeysAreWritten, ChunkIsOf
<1>10. ASSUME NEW s \in Requests, s # r
       PROVE  KeysAreWritten(s)'
  <2>1. KeysAreWritten(s)
    OBVIOUS
  <2> QED
    BY <1>2, <1>4, <1>10, <2>1 DEF KeysAreWritten, ChunkIsOf
<1>11. ASSUME NEW l \in ChunkKeys, NEW c \in chunk'[l]
       PROVE  \E i \in 1..Len(HeldKeys(c.of)') : HeldKeys(c.of)'[i] = l
  <2>1. c \in chunk[l] /\ c.of \in Requests
    BY <1>2 DEF TypeInv, Chunk
  <2>2. PICK i \in 1..Len(HeldKeys(c.of)) : HeldKeys(c.of)[i] = l
    BY <2>1 DEF ChunksAreHeld
  <2>3. CASE c.of = r
    BY <1>3, <1>5, <2>2, <2>3
  <2>4. CASE c.of # r
    BY <1>4, <2>1, <2>2, <2>4
  <2> QED
    BY <2>3, <2>4
<1>12. ChunksAreHeld'
  BY <1>11 DEF ChunksAreHeld
<1> QED
  BY <1>9, <1>10, <1>12

\* _store_chunks writes the key that was reserved, which no other thread holds
LEMMA StoreChunkKeeps ==
    ASSUME TypeInv, OneResponse, InOrder, ChunksAreHeld, \A s \in Requests : KeysAreWritten(s),
           Collided = {}, NEW r \in Requests, StoreChunk(r)
    PROVE  ChunksAreHeld' /\ \A s \in Requests : KeysAreWritten(s)'
<1>1. PICK q \in Seq(ChunkKeys) : q = thread[r].keys
  BY Fields
<1>2. thread[r].phase = "chunk" /\ q # <<>>
  BY <1>1 DEF StoreChunk, OneResponse, OneResponseOf
<1>3. Len(q) \in Nat /\ Len(q) \in 1..Len(q)
  BY <1>1, <1>2
<1>4. PICK k \in ChunkKeys : k = q[Len(q)]
  BY <1>1, <1>3
<1>5. PICK new \in Chunk : new.of = r /\ chunk' = [chunk EXCEPT ![k] = {new}]
  <2> DEFINE new == [of |-> r, part |-> Len(q)]
  <2>1. new \in Chunk /\ new.of = r
    BY <1>3 DEF Chunk
  <2>2. chunk' = [chunk EXCEPT ![k] = {new}]
    BY <1>1, <1>4 DEF StoreChunk
  <2> QED
    BY <2>1, <2>2
<1>6. chunk'[k] = {new} /\ \A l \in ChunkKeys : l # k => chunk'[l] = chunk[l]
  BY <1>5 DEF TypeInv
<1>7. thread'[r].phase = "respond" /\ thread'[r].keys = q /\ OthersStay(r)
  BY <1>1, ThreadEffects, StepsOfOne DEF ThreadIs
<1>8. HeldKeys(r) = q /\ HeldKeys(r)' = q
  BY <1>1, <1>2, <1>7 DEF HeldKeys
<1>9. \A s \in Requests : s # r =>
             /\ HeldKeys(s)' = HeldKeys(s)
             /\ \A i : Reserved(s, i)' <=> Reserved(s, i)
  BY <1>7, HeldByOthers
<1>10. /\ \A i \in 1..Len(q) : i # Len(q) => ChunkIsOf(r, q[i])
       /\ \A i, j \in 1..Len(q) : q[i] = q[j] => i = j
       /\ chunk[k] = {}
  BY <1>1, <1>2, <1>3, <1>4, <1>8 DEF KeysAreWritten, Reserved
<1>11. \A i \in 1..Len(q) : q[i] \in ChunkKeys /\ (i # Len(q) => q[i] # k)
  BY <1>1, <1>3, <1>4, <1>10
<1>12. ASSUME NEW s \in Requests, s # r, NEW i \in 1..Len(HeldKeys(s))
       PROVE  HeldKeys(s)[i] # k /\ HeldKeys(s)[i] \in ChunkKeys
  <2>1. HeldKeys(s)[i] \in ChunkKeys
    BY HeldType
  <2>2. KeysAreWritten(s)
    OBVIOUS
  <2>3. CASE ~Reserved(s, i)
    BY <1>10, <2>1, <2>2, <2>3 DEF KeysAreWritten, ChunkIsOf
  <2>4. CASE Reserved(s, i)
    <3>1. HeldKeys(s) = thread[s].keys
      BY <2>4 DEF Reserved, HeldKeys
    <3>2. SUFFICES ASSUME thread[s].keys[i] = thread[r].keys[Len(q)] PROVE FALSE
      BY <1>1, <1>4, <2>1, <3>1
    <3>3. r \in Collided
      BY <1>1, <1>3, <1>12, <3>1, <3>2 DEF Collided
    <3> QED
      BY <3>3
  <2> QED
    BY <2>1, <2>3, <2>4
<1>13. KeysAreWritten(r)'
  <2>1. ASSUME NEW i \in 1..Len(q)
        PROVE  ~Reserved(r, i)' /\ ChunkIsOf(r, q[i])'
    <3>1. ~Reserved(r, i)'
      BY <1>7 DEF Reserved
    <3>2. chunk'[q[i]] # {} /\ \A c \in chunk'[q[i]] : c.of = r
      <4>1. CASE i = Len(q)
        BY <1>4, <1>5, <1>6, <4>1
      <4>2. CASE i # Len(q)
        BY <1>6, <1>10, <1>11, <4>2 DEF ChunkIsOf
      <4> QED
        BY <4>1, <4>2
    <3>3. UNCHANGED q
      OBVIOUS
    <3> QED
      BY <3>1, <3>2, <3>3 DEF ChunkIsOf
  <2>2. ASSUME NEW i \in 1..Len(HeldKeys(r)')
        PROVE  /\ ~Reserved(r, i)' /\ chunk'[HeldKeys(r)'[i]] # {}
               /\ \A c \in chunk'[HeldKeys(r)'[i]] : c.of = r
               /\ \A j \in 1..Len(HeldKeys(r)') : HeldKeys(r)'[i] = HeldKeys(r)'[j] => i = j
    BY <1>8, <1>10, <2>1 DEF ChunkIsOf
  <2> QED
    BY <2>2 DEF KeysAreWritten, ChunkIsOf
<1>14. ASSUME NEW s \in Requests, s # r
       PROVE  KeysAreWritten(s)'
  <2>1. KeysAreWritten(s)
    OBVIOUS
  <2>2. \A i \in 1..Len(HeldKeys(s)) : chunk'[HeldKeys(s)[i]] = chunk[HeldKeys(s)[i]]
    BY <1>6, <1>12, <1>14
  <2> QED
    BY <1>9, <1>14, <2>1, <2>2 DEF KeysAreWritten, ChunkIsOf
<1>15. ASSUME NEW l \in ChunkKeys, NEW c \in chunk'[l]
       PROVE  \E i \in 1..Len(HeldKeys(c.of)') : HeldKeys(c.of)'[i] = l
  <2>1. CASE l = k
    BY <1>3, <1>4, <1>5, <1>6, <1>8, <2>1
  <2>2. CASE l # k
    <3>1. c \in chunk[l] /\ c.of \in Requests
      BY <1>6, <2>2 DEF TypeInv, Chunk
    <3>2. PICK i \in 1..Len(HeldKeys(c.of)) : HeldKeys(c.of)[i] = l
      BY <3>1 DEF ChunksAreHeld
    <3>3. HeldKeys(c.of)' = HeldKeys(c.of)
      BY <1>8, <1>9, <3>1
    <3> QED
      BY <3>2, <3>3
  <2> QED
    BY <2>1, <2>2
<1>16. ChunksAreHeld'
  BY <1>15 DEF ChunksAreHeld
<1> QED
  BY <1>13, <1>14, <1>16

\* _combine_chunks takes a chunk that is the client's own
LEMMA ReadChunkKeeps ==
    ASSUME TypeInv, OneResponse, InOrder, ChunksAreHeld, \A s \in Requests : KeysAreWritten(s),
           NEW r \in Requests, ReadChunk(r)
    PROVE  /\ ChunksAreHeld' /\ \A s \in Requests : KeysAreWritten(s)'
           /\ ChunkIsOf(r, Head(client[r].keys))
<1>1. PICK q \in Seq(ChunkKeys) : q = client[r].keys
  BY Fields
<1>2. thread[r].phase = "ended" /\ key[r] = <<>> /\ q # <<>>
  BY <1>1 DEF ReadChunk, OneResponse, OneResponseOf
<1>3. PICK k \in ChunkKeys : k = Head(q)
  BY <1>1, <1>2
<1>4. /\ chunk' = [chunk EXCEPT ![k] = {}] /\ UNCHANGED <<thread, key>>
      /\ client'[r].keys = Tail(q) /\ OthersStay(r)
  <2>1. chunk' = [chunk EXCEPT ![k] = {}] /\ UNCHANGED <<thread, key>>
    BY <1>1, <1>3 DEF ReadChunk
  <2>2. client'[r].keys = Tail(client[r].keys)
    BY ClientEffects DEF ClientIs
  <2>3. OthersStay(r)
    BY StepsOfOne
  <2> QED
    BY <1>1, <2>1, <2>2, <2>3
<1>5. chunk'[k] = {} /\ \A l \in ChunkKeys : l # k => chunk'[l] = chunk[l]
  BY <1>4 DEF TypeInv
<1>6. HeldKeys(r) = q /\ HeldKeys(r)' = Tail(q)
  BY <1>1, <1>2, <1>4 DEF HeldKeys
<1>7. \A s \in Requests : s # r =>
             /\ HeldKeys(s)' = HeldKeys(s)
             /\ \A i : Reserved(s, i)' <=> Reserved(s, i)
  BY <1>4, HeldByOthers
<1>8. /\ Len(q) \in Nat /\ 1 \in 1..Len(q) /\ q[1] = k /\ Len(Tail(q)) = Len(q) - 1
      /\ \A i \in 1..Len(Tail(q)) : Tail(q)[i] = q[i + 1] /\ i + 1 \in 1..Len(q)
  BY <1>1, <1>2, <1>3
<1>9. \A i \in 1..Len(q) : /\ ChunkIsOf(r, q[i]) /\ q[i] \in ChunkKeys
                           /\ \A j \in 1..Len(q) : q[i] = q[j] => i = j
  BY <1>1, <1>2, <1>6 DEF KeysAreWritten, Reserved
<1>10. ChunkIsOf(r, k)
  BY <1>8, <1>9
<1>11. ASSUME NEW s \in Requests, s # r, NEW i \in 1..Len(HeldKeys(s))
       PROVE  HeldKeys(s)[i] # k /\ HeldKeys(s)[i] \in ChunkKeys
  <2>1. HeldKeys(s)[i] \in ChunkKeys
    BY HeldType
  <2>2. KeysAreWritten(s)
    OBVIOUS
  <2>3. chunk[HeldKeys(s)[i]] = {} \/ ChunkIsOf(s, HeldKeys(s)[i])
    BY <2>2 DEF KeysAreWritten
  <2> QED
    BY <1>10, <1>11, <2>1, <2>3 DEF ChunkIsOf
<1>12. KeysAreWritten(r)'
  <2>1. ASSUME NEW i \in 1..Len(HeldKeys(r)')
        PROVE  /\ ~Reserved(r, i)' /\ chunk'[HeldKeys(r)'[i]] # {}
               /\ \A c \in chunk'[HeldKeys(r)'[i]] : c.of = r
               /\ \A j \in 1..Len(HeldKeys(r)') : HeldKeys(r)'[i] = HeldKeys(r)'[j] => i = j
    <3>1. i \in 1..Len(Tail(q)) /\ HeldKeys(r)'[i] = q[i + 1] /\ i + 1 \in 1..Len(q) /\ i + 1 # 1
      BY <1>6, <1>8
    <3>2. ~Reserved(r, i)'
      BY <1>2, <1>4 DEF Reserved
    <3>3. q[i + 1] # k /\ chunk'[q[i + 1]] = chunk[q[i + 1]] /\ ChunkIsOf(r, q[i + 1])
      BY <1>5, <1>8, <1>9, <3>1
    <3>4. ASSUME NEW j \in 1..Len(HeldKeys(r)'), HeldKeys(r)'[i] = HeldKeys(r)'[j]
          PROVE  i = j
      <4>1. j \in 1..Len(Tail(q)) /\ j + 1 \in 1..Len(q) /\ q[i + 1] = q[j + 1]
        BY <1>6, <1>8, <3>1, <3>4
      <4>2. i + 1 = j + 1
        BY <1>9, <3>1, <4>1
      <4> QED
        BY <3>1, <4>1, <4>2
    <3> QED
      BY <3>1, <3>2, <3>3, <3>4 DEF ChunkIsOf
  <2> QED
    BY <2>1 DEF KeysAreWritten, ChunkIsOf
<1>13. ASSUME NEW s \in Requests, s # r
       PROVE  KeysAreWritten(s)'
  <2>1. KeysAreWritten(s)
    OBVIOUS
  <2>2. \A i \in 1..Len(HeldKeys(s)) : chunk'[HeldKeys(s)[i]] = chunk[HeldKeys(s)[i]]
    BY <1>5, <1>11, <1>13
  <2> QED
    BY <1>7, <1>13, <2>1, <2>2 DEF KeysAreWritten, ChunkIsOf
<1>14. ASSUME NEW l \in ChunkKeys, NEW c \in chunk'[l]
       PROVE  \E i \in 1..Len(HeldKeys(c.of)') : HeldKeys(c.of)'[i] = l
  <2>1. l # k /\ c \in chunk[l] /\ c.of \in Requests
    BY <1>5 DEF TypeInv, Chunk
  <2>2. PICK i \in 1..Len(HeldKeys(c.of)) : HeldKeys(c.of)[i] = l
    BY <2>1 DEF ChunksAreHeld
  <2>3. CASE c.of = r
    <3>1. i \in 1..Len(q) /\ q[i] = l /\ i # 1
      BY <1>6, <1>8, <2>1, <2>2, <2>3
    <3>2. i - 1 \in 1..Len(Tail(q)) /\ Tail(q)[i - 1] = q[i]
      BY <1>8, <3>1
    <3> QED
      BY <1>6, <2>3, <3>1, <3>2
  <2>4. CASE c.of # r
    BY <1>7, <2>1, <2>2, <2>4
  <2> QED
    BY <2>3, <2>4
<1>15. ChunksAreHeld'
  BY <1>14 DEF ChunksAreHeld
<1> QED
  BY <1>1, <1>3, <1>10, <1>12, <1>13, <1>15

\* Keys and chunks that stay as they are stay apart
LEMMA ChunksStay ==
    ASSUME TypeInv, ChunksAreHeld, \A s \in Requests : KeysAreWritten(s), UNCHANGED chunk,
           \A s \in Requests : /\ HeldKeys(s)' = HeldKeys(s)
                               /\ \A i : Reserved(s, i)' <=> Reserved(s, i)
    PROVE  ChunksAreHeld' /\ \A s \in Requests : KeysAreWritten(s)'
<1>1. \A k \in ChunkKeys : \A c \in chunk[k] : c.of \in Requests
  BY DEF TypeInv, Chunk
<1>2. ChunksAreHeld'
  BY <1>1 DEF ChunksAreHeld
<1>3. ASSUME NEW s \in Requests
      PROVE  KeysAreWritten(s)'
  <2>1. KeysAreWritten(s) /\ HeldKeys(s)' = HeldKeys(s) /\ \A i : Reserved(s, i)' <=> Reserved(s, i)
    OBVIOUS
  <2> QED
    BY <2>1 DEF KeysAreWritten, ChunkIsOf
<1> QED
  BY <1>2, <1>3

\* Every step keeps the chunks apart, unless two threads choose one key
LEMMA ChunksStep ==
    ASSUME TypeInv, OneResponse, InOrder, ChunksAreOwn, HistoriesAreKept, Next
    PROVE  ChunksAreOwn'
<1> SUFFICES ASSUME hist'.collided = {}
             PROVE  /\ \A r \in Requests : KeysAreWritten(r)'
                    /\ ChunksAreHeld'
                    /\ \A r \in Requests : ReadsAreOwn(r)'
  BY DEF ChunksAreOwn
<1>1. hist.collided = {} /\ Collided = {}
  BY Actions, HistoryStep DEF HistoriesAreKept
<1>2. /\ \A s \in Requests : KeysAreWritten(s)
      /\ ChunksAreHeld
      /\ \A s \in Requests : ReadsAreOwn(s)
  BY <1>1 DEF ChunksAreOwn
<1>3. ASSUME NEW r \in Requests, OthersStay(r), ReadsAreOwn(r)'
      PROVE  \A s \in Requests : ReadsAreOwn(s)'
  BY <1>2, <1>3 DEF OthersStay, ReadsAreOwn
<1>4. CASE UNCHANGED client
  <2>1. \A r \in Requests : ReadsAreOwn(r)'
    BY <1>2, <1>4 DEF ReadsAreOwn
  <2>2. ASSUME NEW r \in Requests, NEW k \in ChunkKeys, NewChunkKey(r, k)
        PROVE  ChunksAreHeld' /\ \A s \in Requests : KeysAreWritten(s)'
    BY <1>2, <2>2, NewChunkKeyKeeps
  <2>3. ASSUME NEW r \in Requests, StoreChunk(r)
        PROVE  ChunksAreHeld' /\ \A s \in Requests : KeysAreWritten(s)'
    BY <1>1, <1>2, <2>3, StoreChunkKeeps
  <2>4. ASSUME NEW r \in Requests, ReadChunk(r)
        PROVE  ChunksAreHeld' /\ \A s \in Requests : KeysAreWritten(s)'
    BY <1>2, <2>4, ReadChunkKeeps
  <2>5. ASSUME \A r \in Requests : /\ ~StoreChunk(r) /\ ~ReadChunk(r)
                                   /\ \A k \in ChunkKeys : ~NewChunkKey(r, k)
        PROVE  ChunksAreHeld' /\ \A s \in Requests : KeysAreWritten(s)'
    <3>1. /\ UNCHANGED chunk
          /\ \A s \in Requests : /\ HeldKeys(s)' = HeldKeys(s)
                                 /\ \A i : Reserved(s, i)' <=> Reserved(s, i)
      BY <2>5, HeldStays
    <3> QED
      BY <1>2, <3>1, ChunksStay
  <2> QED
    BY <2>1, <2>2, <2>3, <2>4, <2>5
<1>5. CASE ~UNCHANGED client
  <2>1. PICK r \in Requests : Request(r) \/ Poll(r) \/ ReadChunk(r) \/ GiveUp(r)
    BY Actions, <1>5 DEF NewChunkKey, StoreChunk, Set, PreProcess, Process, AnalysisFinishes,
       AnalysisIsLost, GetResponse, PopEvent, WaitEnds
  <2>2. CASE ReadChunk(r)
    <3>1. /\ ChunksAreHeld' /\ \A s \in Requests : KeysAreWritten(s)'
          /\ chunk[Head(client[r].keys)] # {}
          /\ \A c \in chunk[Head(client[r].keys)] : c.of = r
      BY <1>2, <2>2, ReadChunkKeeps DEF ChunkIsOf
    <3>2. {c.of : c \in chunk[Head(client[r].keys)]} = {r}
      BY <3>1
    <3>3. /\ client'[r].read = client[r].read \cup {r}
          /\ client'[r].phase # "failed" /\ OthersStay(r)
      BY <2>2, <3>1, <3>2, ClientEffects, StepsOfOne DEF ClientIs
    <3>4. ReadsAreOwn(r)'
      BY <1>2, <3>3 DEF ReadsAreOwn
    <3> QED
      BY <1>3, <3>1, <3>3, <3>4
  <2>3. CASE Request(r) \/ Poll(r) \/ GiveUp(r)
    <3>1. \A s \in Requests : /\ ~StoreChunk(s) /\ ~ReadChunk(s)
                              /\ \A k \in ChunkKeys : ~NewChunkKey(s, k)
      <4>1. \A s \in Requests : ~StoreChunk(s) /\ \A k \in ChunkKeys : ~NewChunkKey(s, k)
        BY <1>5 DEF StoreChunk, NewChunkKey
      <4>2. ASSUME NEW s \in Requests, ReadChunk(s)
            PROVE  FALSE
        <5>1. /\ OthersStay(s) /\ client[s].phase = "reading" /\ client[s].keys \in Seq(ChunkKeys)
              /\ client[s].keys # <<>> /\ client'[s].keys = Tail(client[s].keys)
          BY <4>2, StepsOfOne, ClientEffects, Fields
             DEF ReadChunk, ClientIs, OneResponse, OneResponseOf
        <5>2. client'[s] # client[s]
          <6>1. Len(client'[s].keys) = Len(client[s].keys) - 1 /\ Len(client[s].keys) \in Nat
            BY <5>1
          <6> QED
            BY <6>1
        <5>3. OthersStay(r) /\ client[r].phase \in {"new", "waiting"}
          BY <2>3, StepsOfOne DEF Request, Poll, GiveUp
        <5> QED
          BY <5>1, <5>2, <5>3 DEF OthersStay
      <4> QED
        BY <4>1, <4>2
    <3>2. /\ UNCHANGED chunk
          /\ \A s \in Requests : /\ HeldKeys(s)' = HeldKeys(s)
                                 /\ \A i : Reserved(s, i)' <=> Reserved(s, i)
      BY <3>1, HeldStays
    <3>4. ChunksAreHeld' /\ \A s \in Requests : KeysAreWritten(s)'
      BY <1>2, <3>2, ChunksStay
    <3>6. ReadsAreOwn(r)'
      <4>1. CASE Request(r) \/ GiveUp(r)
        <5>1. client'[r].read = client[r].read /\ client'[r].phase \in {"waiting", "gave_up"}
          BY <4>1, ClientEffects DEF ClientIs
        <5> QED
          BY <1>2, <5>1 DEF ReadsAreOwn
      <4>2. CASE Poll(r)
        <5>1. /\ client'[r].read = client[r].read /\ client'[r].phase # "failed"
              /\ client'[r].phase = "answered" => key[r][1].keys = <<>>
          BY <4>2, ClientEffects DEF ClientIs
        <5>2. Parts[r] > 1 => key[r][1].keys # <<>>
          <6>1. key[r] # <<>> /\ Parts[r] \in Nat
            BY <4>2, Fields DEF Poll
          <6>2. Parts[r] > 1 => Len(key[r][1].keys) = Parts[r]
            BY <6>1 DEF OneResponse, OneResponseOf
          <6> QED
            BY <6>1, <6>2, EmptySeq
        <5> QED
          BY <1>2, <5>1, <5>2 DEF ReadsAreOwn
      <4> QED
        BY <2>3, <4>1, <4>2
    <3>7. OthersStay(r)
      BY <2>3, StepsOfOne
    <3> QED
      BY <1>3, <3>4, <3>6, <3>7
  <2> QED
    BY <2>1, <2>2, <2>3
<1> QED
  BY <1>4, <1>5

-----------------------------------------------------------------------------
(* The theorem.                                                            *)

\* The invariant holds at the start
LEMMA IntercomInit == Init => IntercomInv
<1> SUFFICES ASSUME Init PROVE IntercomInv
  OBVIOUS
<1>1. PICK s \in Scenarios :
         client = [r \in Requests |-> [phase |-> IF r \in s THEN "new" ELSE "none",
                                       answer |-> None, keys |-> <<>>, read |-> {}]]
  BY DEF Init
<1>2. /\ list = [c \in ConnectionTypes |-> <<>>] /\ key = [r \in Requests |-> <<>>]
      /\ chunk = [k \in ChunkKeys |-> {}] /\ listener = [c \in ConnectionTypes |-> <<>>]
      /\ thread = [r \in Requests |->
            [phase |-> "none", answer |-> None, keys |-> <<>>, event |-> {}]]
      /\ events = [u \in {Uid[r] : r \in Requests} |-> {}]
      /\ analysis = [r \in Requests |-> "none"]
      /\ hist = [collided |-> {}, swapped |-> {}]
  BY DEF Init
<1>3. /\ None \in Answers /\ {"new", "none"} \subseteq ClientPhases /\ "none" \in ThreadPhases
      /\ <<>> \in Seq(ChunkKeys) /\ Len(<<>>) = 0 /\ <<>> \in Seq(Requests)
  BY DEF Answers, ClientPhases, ThreadPhases
<1>4. \A r \in Requests :
         /\ thread[r] \in ResponderThreads /\ thread[r].phase = "none" /\ thread[r].keys = <<>>
         /\ thread[r].event = {} /\ thread[r].answer = None
         /\ client[r] \in Clients /\ client[r].phase \in {"new", "none"} /\ client[r].keys = <<>>
         /\ client[r].read = {} /\ client[r].answer = None /\ key[r] = <<>>
         /\ Parts[r] \in Nat \ {0}
  BY <1>1, <1>2, <1>3, IntercomConstants DEF ResponderThreads, Clients
<1>5. TypeInv
  <2>1. client \in [Requests -> Clients] /\ thread \in [Requests -> ResponderThreads]
    BY <1>1, <1>2, <1>4
  <2> QED
    BY <1>2, <1>3, <2>1 DEF TypeInv
<1>6. InOrder
  BY <1>2, <1>3, <1>4 DEF InOrder
<1>7. OneResponse
  BY <1>3, <1>4 DEF OneResponse, OneResponseOf
<1>8. \A r \in Requests : HeldKeys(r) = <<>>
  BY <1>4 DEF HeldKeys
<1>9. ChunksAreOwn
  <2>1. \A r \in Requests : KeysAreWritten(r)
    BY <1>3, <1>8 DEF KeysAreWritten
  <2>2. ChunksAreHeld
    BY <1>2 DEF ChunksAreHeld
  <2>3. \A r \in Requests : ReadsAreOwn(r)
    BY <1>4 DEF ReadsAreOwn
  <2> QED
    BY <2>1, <2>2, <2>3 DEF ChunksAreOwn
<1>10. AnswersAreTrue
  BY <1>2, <1>4 DEF AnswersAreTrue, AnswersOf, None
<1>11. HistoriesAreKept
  <2>1. Collided = {} /\ Swapped = {}
    BY <1>3, <1>4 DEF Collided, Swapped
  <2> QED
    BY <1>2, <2>1 DEF HistoriesAreKept
<1> QED
  BY <1>5, <1>6, <1>7, <1>9, <1>10, <1>11 DEF IntercomInv

\* The invariant is inductive
LEMMA IntercomInductive == IntercomInv /\ [Next]_vars => IntercomInv'
<1> SUFFICES ASSUME IntercomInv, [Next]_vars PROVE IntercomInv'
  OBVIOUS
<1>1. CASE Next
  <2>1. TypeInv /\ InOrder /\ OneResponse /\ ChunksAreOwn /\ AnswersAreTrue /\ HistoriesAreKept
    BY DEF IntercomInv
  <2> QED
    BY <1>1, <2>1, Actions, TypeStep, OrderStep, ResponseStep, ChunksStep, AnswersStep, HistoryStep
       DEF IntercomInv
<1>2. CASE UNCHANGED vars
  <2>1. UNCHANGED <<list, key, chunk, client, listener, thread, events, analysis, hist>>
    BY <1>2 DEF vars
  <2>2. TypeInv' /\ InOrder'
    BY <2>1 DEF IntercomInv, TypeInv, InOrder
  <2>3. OneResponse' /\ AnswersAreTrue'
    BY <2>1 DEF IntercomInv, OneResponse, OneResponseOf, AnswersAreTrue, AnswersOf, Analysed
  <2>4. HistoriesAreKept'
    BY <2>1 DEF IntercomInv, HistoriesAreKept, Collided, Swapped
  <2>5. \A s \in Requests : /\ HeldKeys(s)' = HeldKeys(s)
                            /\ \A i : Reserved(s, i)' <=> Reserved(s, i)
    BY <2>1 DEF HeldKeys, Reserved
  <2>6. hist.collided = {} => ChunksAreHeld' /\ \A s \in Requests : KeysAreWritten(s)'
    BY <2>1, <2>5, ChunksStay DEF IntercomInv, ChunksAreOwn
  <2>7. hist.collided = {} => \A s \in Requests : ReadsAreOwn(s)'
    BY <2>1 DEF IntercomInv, ChunksAreOwn, ReadsAreOwn
  <2> QED
    BY <2>1, <2>2, <2>3, <2>4, <2>6, <2>7 DEF IntercomInv, ChunksAreOwn
<1> QED
  BY <1>1, <1>2

\* What a client is told is the whole response to its own request, True means that
\* the analysis has finished, and nothing of an answered request is left in Redis -
\* except where two threads chose one chunk key, or requests for one file took each
\* other's events (InterComFrontEndBinding, InterComBackEndSingleFileTask,
\* RedisInterface)
THEOREM SoundResponses == Spec => []ResponsesAreSound
<1>1. IntercomInv => ResponsesAreSound
  <2> SUFFICES ASSUME IntercomInv PROVE ResponsesAreSound
    OBVIOUS
  <2>1. TypeInv /\ InOrder /\ OneResponse /\ ChunksAreOwn /\ AnswersAreTrue
    BY DEF IntercomInv
  <2>2. TypeOK
    BY <2>1, Fields DEF TypeOK, TypeInv, AnswersAreTrue, ClientPhases, ThreadPhases, OneResponse,
       OneResponseOf
  <2>3. OwnResponse
    BY <2>1 DEF OwnResponse, ChunksAreOwn, ReadsAreOwn
  <2>4. TrueMeansAnalysed
    BY <2>1 DEF TrueMeansAnalysed, AnswersAreTrue, AnswersOf, Analysed
  <2>5. NothingIsLeft
    <3>1. ASSUME NEW r \in Requests, client[r].phase \notin {"waiting", "reading", "gave_up"},
                 hist.collided = {}
          PROVE  key[r] = <<>> /\ \A k \in ChunkKeys : \A c \in chunk[k] : c.of # r
      <4>1. client[r].phase # "failed"
        BY <2>1, <3>1 DEF ChunksAreOwn, ReadsAreOwn
      <4>2. client[r].phase \in {"none", "new", "answered"}
        BY <2>1, <3>1, <4>1, Fields DEF ClientPhases
      <4>3. key[r] = <<>>
        BY <2>1, <3>1 DEF OneResponse, OneResponseOf
      <4>4. HeldKeys(r) = <<>>
        <5>1. CASE client[r].phase = "answered"
          BY <2>1, <4>3, <5>1 DEF OneResponse, OneResponseOf, HeldKeys
        <5>2. CASE client[r].phase # "answered"
          BY <2>1, <4>2, <5>2 DEF InOrder, OneResponse, OneResponseOf, HeldKeys
        <5> QED
          BY <5>1, <5>2
      <4>5. \A k \in ChunkKeys : \A c \in chunk[k] : c.of # r
        BY <2>1, <3>1, <4>4, EmptySeq DEF ChunksAreOwn, ChunksAreHeld
      <4> QED
        BY <4>3, <4>5
    <3> QED
      BY <3>1 DEF NothingIsLeft
  <2> QED
    BY <2>2, <2>3, <2>4, <2>5 DEF ResponsesAreSound
<1> QED
  BY <1>1, IntercomInit, IntercomInductive, PTL DEF Spec
=============================================================================
