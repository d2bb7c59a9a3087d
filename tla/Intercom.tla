-------------------------------- MODULE Intercom --------------------------------
(***************************************************************************)
(* Requests of the front end to the back end over Redis                    *)
(* (src/src/intercom, src/src/storage/redis_interface.py).                 *)
(*                                                                         *)
(* A request is appended to a list, one list per connection type; the      *)
(* listener process of that type takes it, starts a thread that computes   *)
(* the response, and runs the processing function.  The front end polls    *)
(* the key of its response until a timeout.  Values above a limit are      *)
(* stored in chunks under random keys.  A single file task answers once    *)
(* the analysis that it starts has finished, or after a timeout.           *)
(***************************************************************************)
EXTENDS Naturals, Sequences, FiniteSets

CONSTANTS
    Requests,       \* ids of requests (generate_task_id)
    Connection,     \* the connection type of each request
    Uid,            \* the file each request is about
    Parts,          \* number of chunks of the response, 1 if it is not split
    ChunkKeys,      \* stands for chunk_0 to chunk_9999
    Files,          \* the files that are in the database
    Scenarios,      \* bound: sets of requests that are made in one behaviour
    MaxErrors       \* bound: errors of Redis and analyses that never finish

ConnectionTypes == {"single_file_task", "raw_download_task", "file_diff_task"}

ASSUME IntercomConstants ==
    /\ Connection \in [Requests -> ConnectionTypes]
    /\ Parts \in [Requests -> Nat \ {0}]
    /\ \A r \in Requests : Connection[r] = "single_file_task" => Parts[r] = 1
    /\ Scenarios \subseteq SUBSET Requests
    /\ MaxErrors \in Nat

VARIABLES
    list,           \* the lists of requests in Redis, per connection type
    key,            \* the keys of responses: what is stored there, <<>> if nothing
    chunk,          \* the chunk keys in use and the requests whose value they hold
    client,         \* the front end's side of each request
    listener,       \* the listener processes
    thread,         \* the responder thread of each request
    events,         \* InterComBackEndSingleFileTask.events: per file, the request of the event
    analysis,       \* the analyses that single file tasks start
    errors,         \* what is left of the bound
    hist            \* history, read by no action

vars == <<list, key, chunk, client, listener, thread, events, analysis, errors, hist>>

None == "None"
Chunk == [of : Requests, part : Nat]

(***************************************************************************)
(* Redis values.  A stored value is a sequence of parts; of a value in     *)
(* chunks the sequence holds the keys, of any other the value itself.      *)
(***************************************************************************)

Free == {k \in ChunkKeys : chunk[k] = {}}

\* Mutant: any key will do
NewChunkKeyUnchecked(r, k) ==
    /\ thread[r].phase = "respond"
    /\ Parts[r] > 1
    /\ Len(thread[r].keys) < Parts[r]
    /\ thread' = [thread EXCEPT ![r].phase = "chunk", ![r].keys = Append(@, k)]
    /\ UNCHANGED <<list, key, chunk, client, listener, events, analysis, errors>>

\* _get_new_chunk_key: the key is free when it is looked at
NewChunkKey(r, k) ==
    /\ thread[r].phase = "respond"
    /\ Parts[r] > 1
    /\ Len(thread[r].keys) < Parts[r]
    /\ k \in Free
    /\ thread' = [thread EXCEPT ![r].phase = "chunk", ![r].keys = Append(@, k)]
    /\ UNCHANGED <<list, key, chunk, client, listener, events, analysis, errors>>

\* _store_chunks: the chunk is stored, whether the key is still free or not
StoreChunk(r) ==
    LET k == thread[r].keys[Len(thread[r].keys)]
    IN  /\ thread[r].phase = "chunk"
        /\ chunk' = [chunk EXCEPT ![k] = {[of |-> r, part |-> Len(thread[r].keys)]}]
        /\ thread' = [thread EXCEPT ![r].phase = "respond"]
        /\ UNCHANGED <<list, key, client, listener, events, analysis, errors>>

\* set: the response itself, or the keys of its chunks
Set(r) ==
    /\ thread[r].phase = "respond"
    /\ Parts[r] > 1 => Len(thread[r].keys) = Parts[r]
    /\ key' = [key EXCEPT ![r] = <<[answer |-> thread[r].answer, keys |-> thread[r].keys]>>]
    /\ thread' = [thread EXCEPT ![r].phase = "ended", ![r].keys = <<>>]
    /\ UNCHANGED <<list, chunk, client, listener, events, analysis, errors>>

(***************************************************************************)
(* Front end                                                               *)
(***************************************************************************)

\* _request_response_listener: queue_put, then wait
Request(r) ==
    /\ client[r].phase = "new"
    /\ list' = [list EXCEPT ![Connection[r]] = Append(@, r)]
    /\ client' = [client EXCEPT ![r].phase = "waiting"]
    /\ UNCHANGED <<key, chunk, listener, thread, events, analysis, errors>>

\* _response_listener finds something; None is no response
Poll(r) ==
    /\ client[r].phase = "waiting"
    /\ key[r] # <<>>
    /\ key' = [key EXCEPT ![r] = <<>>]
    /\ client' = [client EXCEPT ![r].answer = key[r][1].answer, ![r].keys = key[r][1].keys,
                                ![r].phase = IF key[r][1].answer = None THEN "waiting"
                                             ELSE IF key[r][1].keys = <<>> THEN "answered"
                                             ELSE "reading"]
    /\ UNCHANGED <<list, chunk, listener, thread, events, analysis, errors>>

\* _combine_chunks pops one chunk after the other; without one join raises
ReadChunk(r) ==
    LET k == Head(client[r].keys)
    IN  /\ client[r].phase = "reading"
        /\ client' = [client EXCEPT
                ![r].keys = Tail(@),
                ![r].read = @ \cup {c.of : c \in chunk[k]},
                ![r].phase = IF chunk[k] = {} THEN "failed"
                             ELSE IF Len(client[r].keys) = 1 THEN "answered" ELSE "reading"]
        /\ chunk' = [chunk EXCEPT ![k] = {}]
        /\ UNCHANGED <<list, key, listener, thread, events, analysis, errors>>

\* the loop ends with the timeout
GiveUp(r) ==
    /\ client[r].phase = "waiting"
    /\ client' = [client EXCEPT ![r].phase = "gave_up"]
    /\ UNCHANGED <<list, key, chunk, listener, thread, events, analysis, errors>>

(***************************************************************************)
(* Listeners                                                               *)
(***************************************************************************)

\* get_next_task and pre_process: a thread for the response is started; a
\* single file task replaces the event of its file
PreProcess(c) ==
    LET r == Head(list[c])
    IN  /\ listener[c] = <<>> /\ list[c] # <<>>
        /\ list' = [list EXCEPT ![c] = Tail(@)]
        /\ listener' = [listener EXCEPT ![c] = <<r>>]
        /\ thread' = [thread EXCEPT ![r].phase = "started"]
        /\ events' = IF c = "single_file_task" THEN [events EXCEPT ![Uid[r]] = {r}] ELSE events
        /\ UNCHANGED <<key, chunk, client, analysis, errors>>

\* the processing function: update_analysis_of_single_object, or none
Process(c) ==
    /\ listener[c] # <<>>
    /\ listener' = [listener EXCEPT ![c] = <<>>]
    /\ analysis' = IF c = "single_file_task"
                   THEN [analysis EXCEPT ![Head(listener[c])] = "running"] ELSE analysis
    /\ UNCHANGED <<list, key, chunk, client, thread, events, errors>>

\* _do_callback: the event of the object is set
AnalysisFinishes(r) ==
    /\ analysis[r] = "running"
    /\ analysis' = [analysis EXCEPT ![r] = "finished"]
    /\ UNCHANGED <<list, key, chunk, client, listener, thread, events, errors>>

\* a task runner that dies takes the analysis with it
AnalysisIsLost(r) ==
    /\ errors > 0
    /\ analysis[r] = "running"
    /\ errors' = errors - 1
    /\ analysis' = [analysis EXCEPT ![r] = "lost"]
    /\ UNCHANGED <<list, key, chunk, client, listener, thread, events>>

(***************************************************************************)
(* Responder threads                                                       *)
(***************************************************************************)

\* Mutant: a missing file is answered by None
ResponseNone(r) == IF Uid[r] \in Files THEN "content" ELSE None

\* what BinaryService answers, file or not; only the diff answers None
Response(r) ==
    IF Connection[r] = "file_diff_task" /\ Uid[r] \notin Files THEN None
    ELSE IF Uid[r] \in Files THEN "content" ELSE "pair of None"

\* get_response of everything but single file tasks
GetResponse(r) ==
    /\ thread[r].phase = "started"
    /\ Connection[r] # "single_file_task"
    /\ thread' = [thread EXCEPT ![r].phase = "respond", ![r].answer = Response(r)]
    /\ UNCHANGED <<list, key, chunk, client, listener, events, analysis, errors>>

\* get_response of a single file task: the event of the file, if it is there
PopEvent(r) ==
    /\ thread[r].phase = "started"
    /\ Connection[r] = "single_file_task"
    /\ events' = [events EXCEPT ![Uid[r]] = {}]
    /\ thread' = [thread EXCEPT ![r].event = events[Uid[r]],
                                ![r].phase = IF events[Uid[r]] = {} THEN "respond" ELSE "wait",
                                ![r].answer = "False"]
    /\ UNCHANGED <<list, key, chunk, client, listener, analysis, errors>>

EventIsSet(r) == \E e \in thread[r].event : analysis[e] = "finished"

\* wait returns with the event or with the timeout; is_set tells which
WaitEnds(r) ==
    /\ thread[r].phase = "wait"
    /\ thread' = [thread EXCEPT ![r].phase = "respond",
                                ![r].answer = IF EventIsSet(r) THEN "True" ELSE "False"]
    /\ UNCHANGED <<list, key, chunk, client, listener, events, analysis, errors>>

(***************************************************************************)
(* Specification                                                           *)
(***************************************************************************)

Init ==
    /\ \E s \in Scenarios :
         client = [r \in Requests |-> [phase |-> IF r \in s THEN "new" ELSE "none",
                                       answer |-> None, keys |-> <<>>, read |-> {}]]
    /\ list = [c \in ConnectionTypes |-> <<>>]
    /\ key = [r \in Requests |-> <<>>]
    /\ chunk = [k \in ChunkKeys |-> {}]
    /\ listener = [c \in ConnectionTypes |-> <<>>]
    /\ thread = [r \in Requests |-> [phase |-> "none", answer |-> None, keys |-> <<>>, event |-> {}]]
    /\ events = [u \in {Uid[r] : r \in Requests} |-> {}]
    /\ analysis = [r \in Requests |-> "none"]
    /\ errors = MaxErrors
    /\ hist = [collided |-> {}, swapped |-> {}]

Respond(r) ==
    \/ \E k \in ChunkKeys : NewChunkKey(r, k)
    \/ StoreChunk(r) \/ Set(r) \/ GetResponse(r) \/ PopEvent(r)

Receive(r) == Poll(r) \/ ReadChunk(r)

Step ==
    \/ \E r \in Requests : \/ Request(r) \/ Receive(r) \/ GiveUp(r)
                           \/ Respond(r) \/ WaitEnds(r)
                           \/ AnalysisFinishes(r) \/ AnalysisIsLost(r)
    \/ \E c \in ConnectionTypes : PreProcess(c) \/ Process(c)

\* two threads hold the same chunk key, both believe it to be theirs
Collided == {r \in Requests : \E s \in Requests \ {r} :
    \E i \in 1..Len(thread[r].keys) : \E j \in 1..Len(thread[s].keys) :
        thread[r].keys[i] = thread[s].keys[j]}

\* a request whose event was replaced or taken by another one
Swapped == {r \in Requests : \E s \in Requests \ {r} : r \in thread[s].event}

Recorded == hist' = [collided |-> hist.collided \cup Collided', swapped |-> hist.swapped \cup Swapped']

Next == Step /\ Recorded

\* Processes and threads of the operating system run on, and both waits have a
\* timeout.  Polling goes on; that a client gives up is not required.
Fairness ==
    /\ \A c \in ConnectionTypes : /\ WF_vars(PreProcess(c) /\ Recorded)
                                  /\ WF_vars(Process(c) /\ Recorded)
    /\ \A r \in Requests : /\ WF_vars(Respond(r) /\ Recorded)
                           /\ WF_vars(WaitEnds(r) /\ Recorded)
                           /\ WF_vars(Receive(r) /\ Recorded)

Spec == Init /\ [][Next]_vars
FairSpec == Spec /\ Fairness

(***************************************************************************)
(* Properties                                                              *)
(***************************************************************************)

\* Types; an event belongs to a request for its file.
TypeOK ==
    /\ list \in [ConnectionTypes -> Seq(Requests)]
    /\ chunk \in [ChunkKeys -> SUBSET Chunk]
    /\ \A u \in DOMAIN events : events[u] \subseteq {r \in Requests : Uid[r] = u}
    /\ \A r \in Requests :
         /\ client[r].phase \in {"none", "new", "waiting", "reading", "answered", "failed", "gave_up"}
         /\ thread[r].phase \in {"none", "started", "wait", "respond", "chunk", "ended"}
         /\ analysis[r] \in {"none", "running", "finished", "lost"}
         /\ Len(thread[r].keys) <= Parts[r]

\* A client gets the whole response to its own request.  The one exception is
\* that two threads chose the same chunk key (_get_new_chunk_key looks for the
\* key and _store_chunks sets it in two commands).
OwnResponse ==
    \A r \in Requests :
        \/ hist.collided # {}
        \/ /\ client[r].phase # "failed"
           /\ client[r].phase = "answered" /\ Parts[r] > 1 => client[r].read = {r}

\* Redis does not fill up: a response and its chunks are there for a client
\* that is still waiting for them, or for one whose timeout came first.
NothingIsLeft ==
    \A r \in Requests :
        \/ client[r].phase \in {"waiting", "reading", "gave_up"}
        \/ hist.collided # {}
        \/ /\ key[r] = <<>>
           /\ \A k \in ChunkKeys : \A c \in chunk[k] : c.of # r

\* True for a single file task means that the analysis it asked for has
\* finished, or, if requests for one file took each other's events, that one.
TrueMeansAnalysed ==
    \A r \in Requests :
        client[r].phase = "answered" /\ client[r].answer = "True" =>
            \E s \in {r} \cup hist.swapped : Uid[s] = Uid[r] /\ analysis[s] = "finished"

\* What a client is told is true and about its own request, and Redis is clean
\* afterwards (InterComFrontEndBinding, RedisInterface).
ResponsesAreSound ==
    /\ TypeOK
    /\ OwnResponse
    /\ TrueMeansAnalysed
    /\ NothingIsLeft

\* Whoever waits gets a response while the back end runs, even if the analysis
\* never ends.  What leaves a client polling until its timeout is a diff of a
\* missing file, whose response is None, and a lack of free chunk keys, which
\* the chunks of clients that gave up use up for good.
EveryRequestIsAnswered ==
    \A r \in Requests :
        (client[r].phase = "waiting") ~>
            \/ client[r].phase \in {"answered", "failed", "gave_up"}
            \/ Connection[r] = "file_diff_task" /\ thread[r].phase = "ended" /\ thread[r].answer = None
            \/ Free = {}
================================================================================
