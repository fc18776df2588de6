------------------------------ MODULE JudgeHost ------------------------------
(***************************************************************************)
(* The inside of one judge agent process: a consume loop per request       *)
(* stream, the slot limiter the loops share, the goroutine that serves     *)
(* each request, and the testcase cache with its single flight per set.    *)
(*                                                                         *)
(* JudgePipeline sees an agent as the atomic steps that take a request,    *)
(* publish a result and acknowledge; this module looks inside them.        *)
(*                                                                         *)
(* Left out: verdicts and measurements of a judgement, tracing, metrics.   *)
(* A stream's messages are fixed; how many of them have arrived when a     *)
(* loop asks is the choice Consume makes.                                  *)
(***************************************************************************)
EXTENDS Integers, Sequences, FiniteSets, FiniteSetsExt, SequencesExt

CONSTANTS
    Loops,          \* the consume loops, one per request stream
    Requests,
    Stream,         \* Stream[l]: the requests of l's stream in their order
    LanguageOf,     \* LanguageOf[r]: the language slug of the request
    RefOf,          \* RefOf[r]: its testcase set reference; None for a self run
    SizeOf,         \* SizeOf[k]: bytes of the cases of the set with key k
    Parallelism,    \* judge.parallelism
    LanguageSlots,  \* judge.language_slots, as parsed
    MaxBatch,       \* judge.max_batch
    MaxBytes,       \* the cache's byte budget
    MaxFaults,      \* bound: failures of storage, streams and sandbox
    None

VARIABLES
    stream,         \* stream[l]: what Redis has not delivered yet
    loop,           \* loop[l]: where l is, its limit and the rest of its batch
    failed,         \* loops with an error in their errCh
    canceled,       \* runCtx is canceled
    globalUsed,     \* len(limiter.global)
    languageUsed,   \* len(limiter.languages[k])
    at,             \* at[r]: where request r is
    got,            \* got[r]: the testcases r judges against, or None
    lru,            \* the cache's entries, most recently used first
    currentBytes,
    flights,        \* flights[k]: the requests in the single flight of set k
    published, deadLettered, acked,
    faults          \* history: failures so far

slots == <<globalUsed, languageUsed>>
cache == <<lru, currentBytes, flights>>
answers == <<published, deadLettered, acked>>
vars == <<stream, loop, failed, canceled, slots, at, got, cache,
          answers, faults>>

------------------------------------------------------------------------------
(* The slot limiter *)

\* newJudgeAgentSlotLimiter: a parallelism below one counts as one, a language
\* without a positive number of slots has no limit of its own.
GlobalSlots == IF Parallelism <= 0 THEN 1 ELSE Parallelism
limiterLanguages == {k \in DOMAIN LanguageSlots : LanguageSlots[k] > 0}

HasLanguageSlots(r) == LanguageOf[r] \in limiterLanguages

Available == GlobalSlots - globalUsed

\* Where a goroutine serves a request and holds every slot it acquired.
Serving == {"source", "get", "do", "download", "deliver", "shared",
            "judge", "publish", "ack", "dead", "deadAck", "release"}

ASSUME HostAssumption ==
    /\ IsFiniteSet(Requests)
    /\ Stream \in [Loops -> Seq(Requests)]
    /\ \A l, m \in Loops : l # m =>
           {Stream[l][i] : i \in DOMAIN Stream[l]} \cap
               {Stream[m][i] : i \in DOMAIN Stream[m]} = {}
    /\ \A l \in Loops : \A i, j \in DOMAIN Stream[l] :
           i # j => Stream[l][i] # Stream[l][j]
    /\ DOMAIN LanguageOf = Requests /\ DOMAIN RefOf = Requests
    \* A reference names a set that exists; None is neither a set nor its cases.
    /\ \A r \in Requests : RefOf[r] # None =>
           /\ RefOf[r].key \in DOMAIN SizeOf \ {None}
           /\ [content |-> RefOf[r].key, limits |-> RefOf[r].limits] # None
    /\ LanguageSlots \in [DOMAIN LanguageSlots -> Int]
    /\ Parallelism \in Int /\ MaxBatch \in Int
    /\ MaxBytes \in Nat /\ MaxFaults \in Nat
    /\ \A k \in DOMAIN SizeOf : SizeOf[k] \in Nat

Moves(r, from, to) ==
    /\ at[r] = from
    /\ at' = [at EXCEPT ![r] = to]

\* A call to storage, a stream or the sandbox takes the context: it may fail,
\* and does once the context is canceled.
Succeeds == ~canceled /\ UNCHANGED faults
Fault ==
    \/ canceled /\ UNCHANGED faults
    \/ ~canceled /\ faults < MaxFaults /\ faults' = faults + 1

------------------------------------------------------------------------------
(* The consume loop: runJudgeAgentLoop *)

LoopTo(l, to, limit, batch) ==
    loop' = [loop EXCEPT ![l] = [at |-> to, limit |-> limit, batch |-> batch]]

LoopOf(r) == CHOOSE l \in Loops : \E i \in DOMAIN Stream[l] : Stream[l][i] = r

\* A batch is no larger than the free slots.
consumeLimit == IF MaxBatch <= 0 \/ MaxBatch > Available THEN Available ELSE MaxBatch

\* The head of the loop reads errCh, the context and the free slots.
LoopTop(l) ==
    /\ loop[l].at = "top"
    /\ IF l \in failed \/ canceled
       THEN LoopTo(l, "drain", 0, <<>>)
       ELSE /\ Available > 0
            /\ LoopTo(l, "consume", consumeLimit, <<>>)
    /\ UNCHANGED <<stream, failed, canceled, slots, at, got, cache,
                   answers, faults>>

\* XREADGROUP delivers what has arrived, up to the limit, or nothing when the
\* block time passes.
Consume(l) ==
    /\ loop[l].at = "consume" /\ Succeeds
    /\ \E n \in 0..Min({loop[l].limit, Len(stream[l])}) :
         LET batch == SubSeq(stream[l], 1, n) IN
         /\ stream' = [stream EXCEPT ![l] = SubSeq(stream[l], n + 1, Len(stream[l]))]
         /\ at' = [r \in Requests |->
                     IF \E i \in DOMAIN batch : batch[i] = r THEN "batch" ELSE at[r]]
         /\ LoopTo(l, "acquire", 0, batch)
    /\ UNCHANGED <<failed, canceled, slots, got, cache, answers>>

ConsumeFails(l) ==
    /\ loop[l].at = "consume"
    /\ Fault
    /\ LoopTo(l, "drain", 0, <<>>)
    /\ UNCHANGED <<stream, failed, canceled, slots, at, got, cache, answers>>

\* The goroutine for the head of the batch starts, and the loop turns to the rest.
Start(l, r) ==
    /\ at' = [at EXCEPT ![r] = "source"]
    /\ LoopTo(l, "acquire", 0, Tail(loop[l].batch))

\* Acquire, first select: the global slot.
AcquireGlobal(l) ==
    /\ loop[l].at = "acquire" /\ loop[l].batch # <<>>
    /\ LET r == Head(loop[l].batch) IN
       /\ at[r] = "batch"
       /\ globalUsed < GlobalSlots
       /\ globalUsed' = globalUsed + 1
       /\ IF HasLanguageSlots(r)
          THEN at' = [at EXCEPT ![r] = "language"] /\ UNCHANGED loop
          ELSE Start(l, r)
    /\ UNCHANGED <<stream, failed, canceled, languageUsed, got, cache,
                   answers, faults>>

\* Acquire, second select: the language's slot, waited for with the global one
\* in hand.
AcquireLanguage(l) ==
    /\ loop[l].at = "acquire" /\ loop[l].batch # <<>>
    /\ LET r == Head(loop[l].batch)
           k == LanguageOf[r] IN
       /\ at[r] = "language"
       /\ languageUsed[k] < LanguageSlots[k]
       /\ languageUsed' = [languageUsed EXCEPT ![k] = @ + 1]
       /\ Start(l, r)
    /\ UNCHANGED <<stream, failed, canceled, globalUsed, got, cache,
                   answers, faults>>

\* Mutant: a canceled wait for the language keeps the global slot.
returnedKept(r) == 0

\* Slots a canceled Acquire gives back.
returned(r) == IF at[r] = "language" THEN 1 ELSE 0

\* Either select may take ctx.Done: the loop returns and leaves its batch
\* unserved, delivered to this consumer and never acknowledged.
AcquireCanceled(l) ==
    /\ loop[l].at = "acquire" /\ loop[l].batch # <<>>
    /\ canceled
    /\ LET r == Head(loop[l].batch) IN
       /\ globalUsed' = globalUsed - returned(r)
       /\ at' = [at EXCEPT ![r] = "batch"]
    /\ LoopTo(l, "drain", 0, <<>>)
    /\ UNCHANGED <<stream, failed, canceled, languageUsed, got, cache,
                   answers, faults>>

BatchDone(l) ==
    /\ loop[l].at = "acquire" /\ loop[l].batch = <<>>
    /\ LoopTo(l, "top", 0, <<>>)
    /\ UNCHANGED <<stream, failed, canceled, slots, at, got, cache,
                   answers, faults>>

\* The deferred wg.Wait; the loop's error then ends RunJudgeAgent's wait, which
\* cancels every other loop.
LoopReturns(l) ==
    /\ loop[l].at = "drain"
    /\ \A r \in Requests :
         LoopOf(r) = l => at[r] \notin Serving
    /\ LoopTo(l, "returned", 0, <<>>)
    /\ canceled' = TRUE
    /\ UNCHANGED <<stream, failed, slots, at, got, cache, answers, faults>>

\* A signal, or the health server failing.
Shutdown ==
    /\ ~canceled /\ canceled' = TRUE
    /\ UNCHANGED <<stream, loop, failed, slots, at, got, cache, answers, faults>>

------------------------------------------------------------------------------
(* The testcase cache *)

\* testcaseCacheKeyFromRef: the set's id and checksum, not the limits.
Key(r) == RefOf[r].key

Entry(k) == CHOOSE i \in DOMAIN lru : lru[i].key = k
Cached(k) == \E i \in DOMAIN lru : lru[i].key = k

toFront(k) == <<lru[Entry(k)]>> \o RemoveAt(lru, Entry(k))

\* The bytes of a list of entries, added up from its front.
bytesOf(entries) ==
    LET sum[i \in 0..Len(entries)] ==
            IF i = 0 THEN 0 ELSE sum[i - 1] + SizeOf[entries[i].key]
    IN  sum[Len(entries)]

\* Mutant: evicted entries stay in the byte count.
uncounted(n) == currentBytes

\* What is left of currentBytes once the entries after the n-th are dropped.
remainingBytes(n) == currentBytes - bytesOf(SubSeq(lru, n + 1, Len(lru)))

\* put drops entries from the back until the new one fits or none is left.
evictedTo(k) ==
    LET fits(n) == \/ n = 0
                   \/ remainingBytes(n) + SizeOf[k] <= MaxBytes
    IN  Max({n \in 0..Len(lru) : fits(n)})

put(k, cases) ==
    IF SizeOf[k] > MaxBytes \/ Cached(k) THEN UNCHANGED <<lru, currentBytes>>
    ELSE LET n == evictedTo(k)
             kept == SubSeq(lru, 1, n) IN
         /\ lru' = <<[key |-> k, cases |-> cases]>> \o kept
         /\ currentBytes' = remainingBytes(n) + SizeOf[k]

\* Mutant: the checksum is not compared.
checksumIgnored(r, content) == TRUE

\* LoadArchive: the bytes must have the checksum of the reference; the cases
\* carry the limits of the reference that loaded them.
checksumMatches(r, content) == content = Key(r)

\* get: a hit moves the entry to the front and returns its cases.
get(r) ==
    IF Cached(Key(r))
    THEN /\ got' = [got EXCEPT ![r] = lru[Entry(Key(r))].cases]
         /\ lru' = toFront(Key(r))
    ELSE UNCHANGED <<got, lru>>

\* Load, before the flight.
LoadGet(r) ==
    /\ Moves(r, "get", IF Cached(Key(r)) THEN "judge" ELSE "do")
    /\ get(r)
    /\ UNCHANGED <<currentBytes, flights, stream, loop, failed, canceled, slots, answers, faults>>

\* singleflight.Do: join the flight of the key, or lead a new one and look
\* again before downloading.
LoadDo(r) ==
    /\ \/ /\ at[r] = "do" /\ flights[Key(r)] # {}
          /\ Moves(r, "do", "shared")
          /\ UNCHANGED <<got, lru>>
       \/ /\ at[r] = "do" /\ flights[Key(r)] = {}
          /\ Moves(r, "do", IF Cached(Key(r)) THEN "deliver" ELSE "download")
          /\ get(r)
    /\ flights' = [flights EXCEPT ![Key(r)] = @ \cup {r}]
    /\ UNCHANGED <<stream, loop, failed, canceled, slots, currentBytes, answers, faults>>

Archive(r, content) == [content |-> content, limits |-> RefOf[r].limits]

\* download and LoadArchive: the object, an object with other bytes, or an
\* error.  Only cases with the right checksum reach the cache.
Download(r) ==
    /\ Moves(r, "download", "deliver")
    /\ \E content \in {Key(r), None} :
         /\ \/ content = Key(r) /\ Succeeds
            \/ content = None /\ Fault
         /\ IF checksumMatches(r, content)
            THEN /\ got' = [got EXCEPT ![r] = Archive(r, content)]
                 /\ put(Key(r), Archive(r, content))
            ELSE UNCHANGED <<got, lru, currentBytes>>
    /\ UNCHANGED <<stream, loop, failed, canceled, slots, flights, answers>>

\* The flight ends: its leader and everyone who joined share the cases, or the
\* error (None).
Deliver(r) ==
    /\ at[r] = "deliver"
    /\ LET shared == flights[Key(r)] IN
       /\ at' = [q \in Requests |->
                   IF q \in shared THEN IF got[r] = None THEN "dead" ELSE "judge"
                   ELSE at[q]]
       /\ got' = [q \in Requests |-> IF q \in shared THEN got[r] ELSE got[q]]
       /\ flights' = [flights EXCEPT ![Key(r)] = {}]
    /\ UNCHANGED <<stream, loop, failed, canceled, slots, lru,
                   currentBytes, answers, faults>>

------------------------------------------------------------------------------
(* A request's goroutine: ProcessRequestMessage and what the loop does with *)
(* its error                                                                *)

quiet == UNCHANGED <<stream, loop, canceled, cache>>

\* An unreadable request, an unknown language or a source that storage does not
\* give is an error; a self run never reaches the testcase loader.
Source(r) ==
    /\ \/ Moves(r, "source", IF RefOf[r] = None THEN "judge" ELSE "get") /\ Succeeds
       \/ Moves(r, "source", "dead") /\ Fault
    /\ UNCHANGED <<failed, slots, answers, got>> /\ quiet

\* Judge and Run: prepare, compile, run; any sandbox error is the request's.
Judge(r) ==
    /\ \/ Moves(r, "judge", "publish") /\ Succeeds
       \/ Moves(r, "judge", "dead") /\ Fault
    /\ got' = [got EXCEPT ![r] = None]
    /\ UNCHANGED <<failed, slots, answers>> /\ quiet

\* Mutant: the request is acknowledged all the same.
publishErrorIgnored == "ack"

\* Where a failed PublishResult leads.
afterPublishError == "dead"

publishAsyncResult(r) ==
    /\ \/ Moves(r, "publish", "ack") /\ published' = published \cup {r} /\ Succeeds
       \/ Moves(r, "publish", afterPublishError) /\ Fault /\ UNCHANGED published
    /\ UNCHANGED <<failed, slots, deadLettered, acked, got>> /\ quiet

\* A failed Ack is an error of the request, although its result is published.
Ack(r) ==
    /\ \/ Moves(r, "ack", "release") /\ acked' = acked \cup {r} /\ Succeeds
       \/ Moves(r, "ack", "dead") /\ Fault /\ UNCHANGED acked
    /\ UNCHANGED <<failed, slots, published, deadLettered, got>> /\ quiet

DeadLetter(r) ==
    /\ \/ /\ Moves(r, "dead", "deadAck") /\ deadLettered' = deadLettered \cup {r}
          /\ Succeeds /\ UNCHANGED failed
       \/ /\ Moves(r, "dead", "release") /\ Fault
          /\ failed' = failed \cup {LoopOf(r)} /\ UNCHANGED deadLettered
    /\ UNCHANGED <<slots, published, acked, got>> /\ quiet

DeadAck(r) ==
    /\ Moves(r, "deadAck", "release")
    /\ \/ acked' = acked \cup {r} /\ Succeeds /\ UNCHANGED failed
       \/ Fault /\ failed' = failed \cup {LoopOf(r)} /\ UNCHANGED acked
    /\ UNCHANGED <<slots, published, deadLettered, got>> /\ quiet

\* Mutant: the language's slot is not released.
freedNone(r) == languageUsed

\* release: the language's slot and the global one.
freed(r) == IF HasLanguageSlots(r)
            THEN [languageUsed EXCEPT ![LanguageOf[r]] = @ - 1] ELSE languageUsed

release(r) ==
    /\ Moves(r, "release", "ended")
    /\ languageUsed' = freed(r)
    /\ globalUsed' = globalUsed - 1
    /\ UNCHANGED <<failed, answers, faults, got>> /\ quiet

------------------------------------------------------------------------------
Init ==
    /\ stream = Stream
    /\ loop = [l \in Loops |-> [at |-> "top", limit |-> 0, batch |-> <<>>]]
    /\ failed = {} /\ canceled = FALSE
    /\ globalUsed = 0 /\ languageUsed = [k \in limiterLanguages |-> 0]
    /\ at = [r \in Requests |-> "stream"]
    /\ got = [r \in Requests |-> None]
    /\ lru = <<>> /\ currentBytes = 0
    /\ flights = [k \in DOMAIN SizeOf |-> {}]
    /\ published = {} /\ deadLettered = {} /\ acked = {}
    /\ faults = 0

LoopStep(l) ==
    \/ LoopTop(l) \/ Consume(l) \/ ConsumeFails(l)
    \/ AcquireGlobal(l) \/ AcquireLanguage(l) \/ AcquireCanceled(l)
    \/ BatchDone(l) \/ LoopReturns(l)

RequestStep(r) ==
    \/ Source(r)
    \/ LoadGet(r) \/ LoadDo(r) \/ Download(r)
    \/ Deliver(r)
    \/ Judge(r) \/ publishAsyncResult(r) \/ Ack(r)
    \/ DeadLetter(r) \/ DeadAck(r)
    \/ release(r)

Next ==
    \/ \E l \in Loops : LoopStep(l)
    \/ \E r \in Requests : RequestStep(r)
    \/ Shutdown

\* Until the agent is canceled the Go scheduler keeps running goroutines that
\* can run: each loop, and some request as long as one can move (each has only so
\* many steps).  A loop that waits for a slot competes with the other loops for
\* it, so its Acquire needs more than weak fairness: a channel serves its senders
\* in turn.  Nothing is assumed once the context is canceled: RunJudgeAgent
\* returns after the first error it receives, the health server's among them,
\* waits for no other loop, and the process ends wherever its goroutines are.
Fairness ==
    /\ \A l \in Loops : /\ WF_vars(~canceled /\ LoopStep(l))
                        /\ SF_vars(~canceled /\ (AcquireGlobal(l) \/ AcquireLanguage(l)))
    /\ WF_vars(~canceled /\ \E r \in Requests : RequestStep(r))

Spec == Init /\ [][Next]_vars /\ Fairness

------------------------------------------------------------------------------
(* Properties *)

GlobalHolders == {r \in Requests : at[r] \in Serving \cup {"language"}}
LanguageHolders(k) == {r \in Requests : LanguageOf[r] = k /\ at[r] \in Serving}

\* The two channels count exactly the requests that hold a slot, whether they
\* are being served or their loop still waits for the language, and neither
\* exceeds its capacity: no failure, cancellation or release loses or doubles
\* a slot (Acquire, release).  A loop never holds more messages than the agent
\* has slots for.
SlotsAccounted ==
    /\ \A l \in Loops : Len(loop[l].batch) <= GlobalSlots
    /\ globalUsed = Cardinality(GlobalHolders)
    /\ globalUsed <= GlobalSlots
    /\ \A k \in limiterLanguages :
         /\ languageUsed[k] = Cardinality(LanguageHolders(k))
         /\ languageUsed[k] <= LanguageSlots[k]

\* However loads, hits and evictions interleave, the cache holds one entry per
\* set, its byte count is the sum of its entries, and it never exceeds the
\* budget (TestcaseCache.get, put).
CacheWithinBudget ==
    /\ \A i, j \in DOMAIN lru : lru[i].key = lru[j].key => i = j
    /\ currentBytes = bytesOf(lru)
    /\ currentBytes <= MaxBytes

\* A submission that reached the sandbox has the cases of the set its request
\* names, whoever downloaded them and whatever storage returned: the checksum
\* is checked before the cases are shared or cached.  (Their limits may be
\* those of another request for the same set.)
JudgedAgainstItsSet ==
    \A r \in Requests :
        at[r] = "judge" /\ RefOf[r] # None =>
            got[r] # None /\ got[r].content = Key(r)

\* A request leaves the pending list only once its result is in the result
\* stream or it is in the dead stream, at whatever call the agent fails or is
\* canceled.
AckedIsAnswered == acked \subseteq published \cup deadLettered

Unsettled == {r \in Requests : at[r] # "stream"} \ acked

\* Every delivered request is acknowledged unless the agent stops: no request
\* waits for ever for a slot behind requests of its language, for a flight
\* whose leader failed, or behind the head of its loop's batch.  (A stream
\* delivers each request once, so that all are settled again means each is.)
DeliveredIsSettled == Unsettled # {} ~> (Unsettled = {} \/ canceled)
==============================================================================
