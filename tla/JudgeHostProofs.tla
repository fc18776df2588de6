--------------------------- MODULE JudgeHostProofs ---------------------------
(***************************************************************************)
(* Machine-checked theorems about JudgeHost, for any loops, streams,       *)
(* languages, testcase sets and limits: answers before acknowledgements,   *)
(* the slots, the testcases a submission is judged against and the bytes   *)
(* of the cache.                                                           *)
(***************************************************************************)
EXTENDS JudgeHost, FiniteSetTheorems, SequenceTheorems, WellFoundedInduction, TLAPS

WithSet == {r \in Requests : RefOf[r] # None}

\* What a cache entry may be: a set's key with the cases some request loaded.
CacheEntry == {[key |-> Key(r), cases |-> Archive(r, Key(r))] : r \in WithSet}

Places == {"stream", "batch", "language", "ended"} \cup Serving
LoopPlaces == {"top", "consume", "acquire", "drain", "returned"}

\* Where a request is in the flight of its set.
InFlight == {"shared", "download", "deliver"}
Loading == InFlight \cup {"get", "do"}

HostTypes ==
    /\ stream \in [Loops -> Seq(Requests)]
    /\ loop \in [Loops -> [at : LoopPlaces, limit : Int, batch : Seq(Requests)]]
    /\ globalUsed \in Int
    /\ languageUsed \in [limiterLanguages -> Int]
    /\ at \in [Requests -> Places]
    /\ got = [r \in Requests |-> got[r]]
    /\ lru \in Seq(CacheEntry)
    /\ currentBytes \in Int
    /\ flights \in [DOMAIN SizeOf -> SUBSET Requests]

\* Requests in a stream are not delivered yet.  Those in a loop's batch are
\* waiting, and only the head of a batch waits for its language's slot.  No
\* request is in two places.
StreamWaits ==
    \A l \in Loops : \A i \in DOMAIN stream[l] : at[stream[l][i]] = "stream"
StreamsDistinct ==
    \A l, m \in Loops : \A i \in DOMAIN stream[l], j \in DOMAIN stream[m] :
        stream[l][i] = stream[m][j] => l = m /\ i = j
BatchWaits ==
    \A l \in Loops : \A i \in DOMAIN loop[l].batch : at[loop[l].batch[i]] \in {"batch", "language"}
BatchesDistinct ==
    \A l, m \in Loops : \A i \in DOMAIN loop[l].batch, j \in DOMAIN loop[m].batch :
        loop[l].batch[i] = loop[m].batch[j] => l = m /\ i = j

\* A flight holds the requests that lead or share it, all for one set.
FlightsAreLoading ==
    \A k \in DOMAIN SizeOf : \A r \in flights[k] : at[r] \in InFlight /\ RefOf[r] # None /\ Key(r) = k

\* Only requests with a testcase set load one.
LoadersHaveSets == \A r \in Requests : at[r] \in Loading => RefOf[r] # None

\* Only a language with slots of its own is waited for.
WaitersHaveSlots == \A r \in Requests : at[r] = "language" => HasLanguageSlots(r)

PlaceInv ==
    /\ HostTypes
    /\ StreamWaits /\ StreamsDistinct
    /\ BatchWaits /\ BatchesDistinct
    /\ FlightsAreLoading /\ LoadersHaveSets /\ WaitersHaveSlots

-----------------------------------------------------------------------------
LEMMA KeysAreSets ==
    ASSUME NEW r \in WithSet
    PROVE  Key(r) \in DOMAIN SizeOf /\ Key(r) # None /\ Archive(r, Key(r)) # None
BY HostAssumption DEF WithSet, Key, Archive

LEMMA PlacesInitially == Init => PlaceInv
<1> SUFFICES ASSUME Init
             PROVE  PlaceInv
  OBVIOUS
<1>1. HostTypes
  <2>1. lru \in Seq(CacheEntry) /\ loop \in [Loops -> [at : LoopPlaces, limit : Int, batch : Seq(Requests)]]
    BY EmptySeq DEF Init, LoopPlaces
  <2> QED
    BY <2>1, HostAssumption DEF Init, HostTypes, Places
<1>2. StreamWaits
  <2>1. \A l \in Loops : \A i \in DOMAIN stream[l] : stream[l][i] \in Requests
    BY <1>1, ElementOfSeq DEF HostTypes
  <2> QED
    BY <2>1 DEF Init, StreamWaits
<1>3. StreamsDistinct
  <2> SUFFICES ASSUME NEW l \in Loops, NEW m \in Loops,
                      NEW i \in DOMAIN Stream[l], NEW j \in DOMAIN Stream[m],
                      Stream[l][i] = Stream[m][j]
               PROVE  l = m /\ i = j
    BY DEF Init, StreamsDistinct
  <2>1. CASE l # m
    <3>1. Stream[l][i] \in {Stream[l][x] : x \in DOMAIN Stream[l]}
          /\ Stream[l][i] \in {Stream[m][x] : x \in DOMAIN Stream[m]}
      OBVIOUS
    <3> QED
      BY <2>1, <3>1, HostAssumption
  <2>2. CASE l = m
    BY <2>2, HostAssumption
  <2> QED
    BY <2>1, <2>2
<1>4. BatchWaits /\ BatchesDistinct
  BY DEF Init, BatchWaits, BatchesDistinct
<1>5. FlightsAreLoading /\ LoadersHaveSets /\ WaitersHaveSlots
  BY DEF Init, FlightsAreLoading, LoadersHaveSets, WaitersHaveSlots, Loading, InFlight
<1> QED
  BY <1>1, <1>2, <1>3, <1>4, <1>5 DEF PlaceInv

-----------------------------------------------------------------------------
(* The loops: what is in a stream, in a batch and in a goroutine *)

LEMMA LoopTyped ==
    ASSUME PlaceInv, NEW l \in Loops
    PROVE  /\ stream[l] \in Seq(Requests)
           /\ loop[l] \in [at : LoopPlaces, limit : Int, batch : Seq(Requests)]
           /\ loop[l].limit \in Int
           /\ loop[l].batch \in Seq(Requests)
           /\ GlobalSlots \in Int /\ consumeLimit \in Int
BY HostAssumption DEF PlaceInv, HostTypes, GlobalSlots, consumeLimit, Available

\* A loop that turns with an empty batch moves no request.
LEMMA EmptyBatchStep ==
    ASSUME PlaceInv, NEW l \in Loops, NEW to \in LoopPlaces, NEW limit \in Int,
           LoopTo(l, to, limit, <<>>),
           UNCHANGED <<stream, globalUsed, languageUsed, at, got, lru, currentBytes, flights>>
    PROVE  PlaceInv'
<1>1. <<>> \in Seq(Requests)
  BY EmptySeq
<1>2. HostTypes'
  BY <1>1 DEF PlaceInv, HostTypes, LoopTo
<1>3. \A m \in Loops : loop'[m].batch = <<>> \/ loop'[m].batch = loop[m].batch
  BY DEF PlaceInv, HostTypes, LoopTo
<1>4. BatchWaits' /\ BatchesDistinct'
  BY <1>3 DEF PlaceInv, BatchWaits, BatchesDistinct
<1>5. StreamWaits' /\ StreamsDistinct' /\ FlightsAreLoading' /\ LoadersHaveSets' /\ WaitersHaveSlots'
  BY DEF PlaceInv, StreamWaits, StreamsDistinct, FlightsAreLoading, LoadersHaveSets,
         WaitersHaveSlots, HasLanguageSlots, limiterLanguages, Key
<1> QED
  BY <1>2, <1>4, <1>5 DEF PlaceInv

LEMMA MinOfTwo ==
    ASSUME NEW a \in Int, NEW b \in Int
    PROVE  Min({a, b}) \in Int /\ Min({a, b}) <= a /\ Min({a, b}) <= b
<1>1. \E x \in {a, b} : \A y \in {a, b} : x <= y
  BY a <= b \/ b <= a
<1>2. Min({a, b}) \in {a, b} /\ \A y \in {a, b} : Min({a, b}) <= y
  BY <1>1 DEF Min
<1> QED
  BY <1>2

\* What Consume may take: no more than its limit, no more than the stream has.
LEMMA WithinLimit ==
    ASSUME NEW limit \in Int, NEW s \in Seq(Requests), NEW n \in 0..Min({limit, Len(s)})
    PROVE  n \in 0..Len(s) /\ n <= limit
<1> DEFINE most == Min({limit, Len(s)})
<1>1. Len(s) \in Int
  BY LenProperties
<1>2. most \in Int /\ most <= Len(s) /\ most <= limit
  BY <1>1, MinOfTwo, Zenon
<1>3. n \in 0..most
  OBVIOUS
<1> HIDE DEF most
<1> QED
  BY <1>1, <1>2, <1>3

\* The parts of a sequence before and after its n-th element.
LEMMA Parts ==
    ASSUME NEW S, NEW s \in Seq(S), NEW n \in 0..Len(s)
    PROVE  /\ SubSeq(s, 1, n) \in Seq(S)
           /\ Len(SubSeq(s, 1, n)) = n
           /\ DOMAIN SubSeq(s, 1, n) = 1..n
           /\ \A i \in 1..n : SubSeq(s, 1, n)[i] = s[i]
           /\ SubSeq(s, n + 1, Len(s)) \in Seq(S)
           /\ Len(SubSeq(s, n + 1, Len(s))) = Len(s) - n
           /\ DOMAIN SubSeq(s, n + 1, Len(s)) = 1..(Len(s) - n)
           /\ \A i \in 1..(Len(s) - n) : SubSeq(s, n + 1, Len(s))[i] = s[n + i]
<1>1. Len(s) \in Nat /\ n \in Nat /\ \A i \in 1..Len(s) : s[i] \in S
  BY LenProperties, ElementOfSeq
<1> DEFINE a == SubSeq(s, 1, n)
           b == SubSeq(s, n + 1, Len(s))
<1>2. a \in Seq(S) /\ Len(a) = n /\ \A i \in 1..n : a[i] = s[i]
  <2>1. \A i \in 1..n : s[i] \in S
    BY <1>1
  <2>2. /\ a \in Seq(S) /\ Len(a) = IF 1 <= n THEN n - 1 + 1 ELSE 0
        /\ \A i \in 1..(n - 1 + 1) : a[i] = s[1 + i - 1]
    BY <1>1, <2>1, SubSeqProperties
  <2> HIDE DEF a
  <2> QED
    BY <1>1, <2>2
<1>3. b \in Seq(S) /\ Len(b) = Len(s) - n /\ \A i \in 1..(Len(s) - n) : b[i] = s[n + i]
  <2>1. \A i \in (n + 1)..Len(s) : s[i] \in S
    BY <1>1
  <2>2. /\ b \in Seq(S) /\ Len(b) = IF n + 1 <= Len(s) THEN Len(s) - (n + 1) + 1 ELSE 0
        /\ \A i \in 1..(Len(s) - (n + 1) + 1) : b[i] = s[(n + 1) + i - 1]
    BY <1>1, <2>1, SubSeqProperties
  <2> HIDE DEF b
  <2>3. \A i \in 1..(Len(s) - n) : (n + 1) + i - 1 = n + i
    BY <1>1
  <2> QED
    BY <1>1, <2>2, <2>3
<1> HIDE DEF a, b
<1>4. DOMAIN a = 1..n /\ DOMAIN b = 1..(Len(s) - n)
  BY <1>2, <1>3, LenProperties
<1> QED
  BY <1>2, <1>3, <1>4 DEF a, b

LEMMA ConsumePlaces ==
    ASSUME PlaceInv, NEW l \in Loops, Consume(l)
    PROVE  PlaceInv'
<1>1. stream[l] \in Seq(Requests) /\ loop[l].limit \in Int /\ Len(stream[l]) \in Nat
  BY LoopTyped, LenProperties
<1>2. PICK n \in 0..Min({loop[l].limit, Len(stream[l])}) :
         /\ stream' = [stream EXCEPT ![l] = SubSeq(stream[l], n + 1, Len(stream[l]))]
         /\ at' = [r \in Requests |->
                     IF \E i \in DOMAIN SubSeq(stream[l], 1, n) : SubSeq(stream[l], 1, n)[i] = r
                     THEN "batch" ELSE at[r]]
         /\ LoopTo(l, "acquire", 0, SubSeq(stream[l], 1, n))
  BY DEF Consume
<1>3. n \in 0..Len(stream[l])
  BY <1>1, <1>2, WithinLimit
<1> DEFINE s == stream[l]
           batch == SubSeq(s, 1, n)
           rest == SubSeq(s, n + 1, Len(s))
<1>4. /\ batch \in Seq(Requests) /\ DOMAIN batch = 1..n /\ \A i \in 1..n : batch[i] = s[i]
      /\ rest \in Seq(Requests) /\ DOMAIN rest = 1..(Len(s) - n)
      /\ \A i \in 1..(Len(s) - n) : rest[i] = s[n + i]
  <2>1. s \in Seq(Requests) /\ n \in 0..Len(s)
    BY <1>1, <1>3
  <2> HIDE DEF s
  <2> QED
    BY <2>1, Parts
<1>5. /\ stream' = [stream EXCEPT ![l] = rest]
      /\ at' = [r \in Requests |-> IF \E i \in DOMAIN batch : batch[i] = r THEN "batch" ELSE at[r]]
      /\ loop' = [loop EXCEPT ![l] = [at |-> "acquire", limit |-> 0, batch |-> batch]]
      /\ UNCHANGED <<globalUsed, languageUsed, got, lru, currentBytes, flights>>
  BY <1>2 DEF LoopTo, Consume, slots, cache
<1>6. DOMAIN s = 1..Len(s) /\ \A i \in DOMAIN s : s[i] \in Requests
  BY <1>1, LenProperties, ElementOfSeq
<1> HIDE DEF batch, rest
<1>7. HostTypes'
  BY <1>4, <1>5 DEF PlaceInv, HostTypes, LoopPlaces, Places
<1>8. /\ \A m \in Loops : stream'[m] = IF m = l THEN rest ELSE stream[m]
      /\ \A m \in Loops : loop'[m].batch = IF m = l THEN batch ELSE loop[m].batch
      /\ \A r \in Requests : at'[r] = "batch" \/ at'[r] = at[r]
      /\ \A r \in Requests : (\A i \in DOMAIN batch : batch[i] # r) => at'[r] = at[r]
      /\ \A i \in DOMAIN batch : at'[batch[i]] = "batch"
  BY <1>4, <1>5, ElementOfSeq DEF PlaceInv, HostTypes
<1>9. StreamsDistinct'
  <2> SUFFICES ASSUME NEW m \in Loops, NEW o \in Loops,
                      NEW i \in DOMAIN stream'[m], NEW j \in DOMAIN stream'[o],
                      stream'[m][i] = stream'[o][j]
               PROVE  m = o /\ i = j
    BY DEF StreamsDistinct
  <2>0. \A h \in DOMAIN rest : n + h \in DOMAIN s /\ rest[h] = s[n + h] /\ h \in Int
    BY <1>1, <1>3, <1>4, <1>6
  <2>1. m = l => n + i \in DOMAIN s /\ stream'[m][i] = s[n + i] /\ i \in Int
    BY <1>8, <2>0
  <2>2. o = l => n + j \in DOMAIN s /\ stream'[o][j] = s[n + j] /\ j \in Int
    BY <1>8, <2>0
  <2>3. CASE m = l /\ o = l
    BY <1>1, <1>3, <2>1, <2>2, <2>3 DEF PlaceInv, StreamsDistinct
  <2>4. CASE m = l /\ o # l
    BY <1>8, <2>1, <2>4 DEF PlaceInv, StreamsDistinct
  <2>5. CASE m # l /\ o = l
    BY <1>8, <2>2, <2>5 DEF PlaceInv, StreamsDistinct
  <2>6. CASE m # l /\ o # l
    BY <1>8, <2>6 DEF PlaceInv, StreamsDistinct
  <2> QED
    BY <2>3, <2>4, <2>5, <2>6
<1>10. StreamWaits'
  <2> SUFFICES ASSUME NEW m \in Loops, NEW i \in DOMAIN stream'[m]
               PROVE  at'[stream'[m][i]] = "stream"
    BY DEF StreamWaits
  <2>1. CASE m = l
    <3>0. stream'[m] = rest /\ i \in 1..(Len(s) - n)
      BY <1>4, <1>8, <2>1
    <3>1. n + i \in DOMAIN s /\ stream'[m][i] = s[n + i]
      BY <1>1, <1>3, <1>4, <1>6, <3>0
    <3>2. \A j \in DOMAIN batch : batch[j] # s[n + i]
      <4> SUFFICES ASSUME NEW j \in 1..n, s[j] = s[n + i]
                   PROVE  FALSE
        BY <1>4
      <4>1. j \in DOMAIN s /\ j # n + i
        BY <1>1, <1>3, <1>4, <1>6, <1>8, <2>1
      <4> QED
        BY <3>1, <4>1 DEF PlaceInv, StreamsDistinct
    <3> QED
      BY <1>6, <1>8, <3>1, <3>2 DEF PlaceInv, StreamWaits
  <2>2. CASE m # l
    <3>1. stream'[m] = stream[m] /\ stream[m][i] \in Requests
      BY <1>8, <2>2, LoopTyped, ElementOfSeq
    <3>2. \A j \in DOMAIN batch : batch[j] # stream[m][i]
      BY <1>1, <1>3, <1>4, <1>6, <2>2, <3>1 DEF PlaceInv, StreamsDistinct
    <3> QED
      BY <1>8, <3>1, <3>2 DEF PlaceInv, StreamWaits
  <2> QED
    BY <2>1, <2>2
<1>11. \A i \in DOMAIN batch : i \in DOMAIN s /\ batch[i] = s[i] /\ at[batch[i]] = "stream"
  BY <1>1, <1>3, <1>4, <1>6 DEF PlaceInv, StreamWaits
<1>12. \A m \in Loops : \A i \in DOMAIN loop[m].batch : loop[m].batch[i] \in Requests
  BY LoopTyped, ElementOfSeq
<1>13. BatchWaits'
  BY <1>8, <1>12 DEF PlaceInv, BatchWaits
<1>14. BatchesDistinct'
  <2> SUFFICES ASSUME NEW m \in Loops, NEW o \in Loops,
                      NEW i \in DOMAIN loop'[m].batch, NEW j \in DOMAIN loop'[o].batch,
                      loop'[m].batch[i] = loop'[o].batch[j]
               PROVE  m = o /\ i = j
    BY DEF BatchesDistinct
  <2>1. \A p \in Loops : \A x \in DOMAIN loop[p].batch : at[loop[p].batch[x]] # "stream"
    BY DEF PlaceInv, BatchWaits
  <2>2. CASE m = l /\ o = l
    BY <1>8, <1>11, <2>2 DEF PlaceInv, StreamsDistinct
  <2>3. CASE m = l /\ o # l
    BY <1>8, <1>11, <2>1, <2>3
  <2>4. CASE m # l /\ o = l
    BY <1>8, <1>11, <2>1, <2>4
  <2>5. CASE m # l /\ o # l
    BY <1>8, <2>5 DEF PlaceInv, BatchesDistinct
  <2> QED
    BY <2>2, <2>3, <2>4, <2>5
<1>15. \A r \in Requests : at[r] # "stream" => at'[r] = at[r]
  BY <1>8, <1>11
<1>16. FlightsAreLoading' /\ LoadersHaveSets' /\ WaitersHaveSlots'
  <2>1. \A k \in DOMAIN SizeOf : \A r \in flights[k] : r \in Requests
    BY DEF PlaceInv, HostTypes
  <2> QED
    BY <1>5, <1>8, <1>15, <2>1 DEF PlaceInv, FlightsAreLoading, LoadersHaveSets, WaitersHaveSlots,
                         InFlight, Loading, HasLanguageSlots, limiterLanguages, Key
<1> QED
  BY <1>7, <1>9, <1>10, <1>13, <1>14, <1>16 DEF PlaceInv

\* The head of a batch and the rest of it.
LEMMA HeadOfBatch ==
    ASSUME PlaceInv, NEW l \in Loops, loop[l].batch # <<>>
    PROVE  /\ Head(loop[l].batch) \in Requests
           /\ 1 \in DOMAIN loop[l].batch /\ loop[l].batch[1] = Head(loop[l].batch)
           /\ at[Head(loop[l].batch)] \in {"batch", "language"}
           /\ Tail(loop[l].batch) \in Seq(Requests)
           /\ \A i \in DOMAIN Tail(loop[l].batch) :
                 i + 1 \in DOMAIN loop[l].batch /\ Tail(loop[l].batch)[i] = loop[l].batch[i + 1] /\ i \in Nat \ {0}
           /\ Len(Tail(loop[l].batch)) = Len(loop[l].batch) - 1
           /\ Len(loop[l].batch) \in Nat
<1> DEFINE b == loop[l].batch
<1>1. b \in Seq(Requests)
  BY LoopTyped
<1> HIDE DEF b
<1>2. b # <<>>
  BY DEF b
<1>3. /\ Tail(b) \in Seq(Requests) /\ Len(Tail(b)) = Len(b) - 1 /\ Head(b) \in Requests
      /\ \A i \in 1..Len(Tail(b)) : Tail(b)[i] = b[i + 1]
  BY <1>1, <1>2, HeadTailProperties
<1>4. DOMAIN b = 1..Len(b) /\ Len(b) \in Nat /\ DOMAIN Tail(b) = 1..Len(Tail(b))
  BY <1>1, <1>3, LenProperties
<1>5. Len(b) # 0 /\ b[1] = Head(b)
  BY <1>1, <1>2, EmptySeq
<1>6. 1 \in DOMAIN b /\ at[b[1]] \in {"batch", "language"}
  BY <1>4, <1>5 DEF PlaceInv, BatchWaits, b
<1> QED
  BY <1>3, <1>4, <1>5, <1>6 DEF b

\* The loop hands the head of its batch on, or drops the batch: the requests
\* that stay in batches keep their places.
LEMMA HeadLeaves ==
    ASSUME PlaceInv, NEW l \in Loops, loop[l].batch # <<>>,
           NEW to \in {"source", "batch"}, NEW where \in LoopPlaces, NEW rest \in {Tail(loop[l].batch), <<>>},
           at' = [at EXCEPT ![Head(loop[l].batch)] = to],
           LoopTo(l, where, 0, rest),
           UNCHANGED <<stream, got, lru, currentBytes, flights>>,
           globalUsed' \in Int, languageUsed' \in [limiterLanguages -> Int]
    PROVE  PlaceInv'
<1> DEFINE r == Head(loop[l].batch)
<1>1. /\ r \in Requests /\ at[r] \in {"batch", "language"}
      /\ 1 \in DOMAIN loop[l].batch /\ loop[l].batch[1] = r
      /\ Tail(loop[l].batch) \in Seq(Requests)
      /\ \A i \in DOMAIN Tail(loop[l].batch) :
            i + 1 \in DOMAIN loop[l].batch /\ Tail(loop[l].batch)[i] = loop[l].batch[i + 1] /\ i \in Nat \ {0}
  BY HeadOfBatch
<1>2. at' = [at EXCEPT ![r] = to]
  OBVIOUS
<1> HIDE DEF r
<1>3. rest \in Seq(Requests)
      /\ \A i \in DOMAIN rest : i + 1 \in DOMAIN loop[l].batch /\ rest[i] = loop[l].batch[i + 1] /\ i \in Nat \ {0}
  <2>1. CASE rest = Tail(loop[l].batch)
    BY <1>1, <2>1
  <2>2. CASE rest = <<>>
    BY <2>2, EmptySeq
  <2> QED
    BY <2>1, <2>2
<1>4. HostTypes'
  BY <1>1, <1>2, <1>3 DEF PlaceInv, HostTypes, LoopTo, LoopPlaces, Places, Serving
<1>5. /\ \A m \in Loops : loop'[m].batch = IF m = l THEN rest ELSE loop[m].batch
      /\ \A q \in Requests : at'[q] = IF q = r THEN to ELSE at[q]
  BY <1>2 DEF PlaceInv, HostTypes, LoopTo
<1>6. StreamsDistinct' /\ StreamWaits'
  <2>1. \A m \in Loops : \A i \in DOMAIN stream[m] : stream[m][i] \in Requests
    BY LoopTyped, ElementOfSeq
  <2> QED
    BY <1>1, <1>5, <2>1 DEF PlaceInv, StreamsDistinct, StreamWaits
<1>7. \A m \in Loops : \A i \in DOMAIN loop[m].batch : loop[m].batch[i] \in Requests
  BY LoopTyped, ElementOfSeq
<1>8. \A m \in Loops : \A i \in DOMAIN loop'[m].batch :
         loop'[m].batch[i] \in Requests /\ loop'[m].batch[i] # r /\ at[loop'[m].batch[i]] \in {"batch", "language"}
  <2> SUFFICES ASSUME NEW m \in Loops, NEW i \in DOMAIN loop'[m].batch
               PROVE  loop'[m].batch[i] \in Requests /\ loop'[m].batch[i] # r
                      /\ at[loop'[m].batch[i]] \in {"batch", "language"}
    OBVIOUS
  <2>1. CASE m = l
    <3>1. i + 1 \in DOMAIN loop[l].batch /\ loop'[m].batch[i] = loop[l].batch[i + 1] /\ i \in Nat \ {0}
      BY <1>3, <1>5, <2>1
    <3>2. i + 1 # 1
      BY <3>1
    <3> QED
      BY <1>1, <1>7, <3>1, <3>2 DEF PlaceInv, BatchesDistinct, BatchWaits
  <2>2. CASE m # l
    BY <1>1, <1>5, <1>7, <2>2 DEF PlaceInv, BatchesDistinct, BatchWaits
  <2> QED
    BY <2>1, <2>2
<1>9. BatchWaits'
  BY <1>5, <1>8 DEF BatchWaits
<1>10. BatchesDistinct'
  <2> SUFFICES ASSUME NEW m \in Loops, NEW o \in Loops,
                      NEW i \in DOMAIN loop'[m].batch, NEW j \in DOMAIN loop'[o].batch,
                      loop'[m].batch[i] = loop'[o].batch[j]
               PROVE  m = o /\ i = j
    BY DEF BatchesDistinct
  <2>1. m = l => i + 1 \in DOMAIN loop[l].batch /\ loop'[m].batch[i] = loop[l].batch[i + 1] /\ i \in Nat \ {0}
    BY <1>3, <1>5
  <2>2. o = l => j + 1 \in DOMAIN loop[l].batch /\ loop'[o].batch[j] = loop[l].batch[j + 1] /\ j \in Nat \ {0}
    BY <1>3, <1>5
  <2>3. CASE m = l /\ o = l
    BY <2>1, <2>2, <2>3 DEF PlaceInv, BatchesDistinct
  <2>4. CASE m = l /\ o # l
    <3>1. loop'[o].batch = loop[o].batch
      BY <1>5, <2>4
    <3> QED
      BY <2>1, <2>4, <3>1 DEF PlaceInv, BatchesDistinct
  <2>5. CASE m # l /\ o = l
    <3>1. loop'[m].batch = loop[m].batch
      BY <1>5, <2>5
    <3> QED
      BY <2>2, <2>5, <3>1 DEF PlaceInv, BatchesDistinct
  <2>6. CASE m # l /\ o # l
    BY <1>5, <2>6 DEF PlaceInv, BatchesDistinct
  <2> QED
    BY <2>3, <2>4, <2>5, <2>6
<1>11. FlightsAreLoading' /\ LoadersHaveSets' /\ WaitersHaveSlots'
  <2>1. \A k \in DOMAIN SizeOf : \A q \in flights[k] : q \in Requests
    BY DEF PlaceInv, HostTypes
  <2> QED
    BY <1>1, <1>5, <2>1 DEF PlaceInv, FlightsAreLoading, LoadersHaveSets, WaitersHaveSlots,
                         InFlight, Loading, HasLanguageSlots, limiterLanguages, Key
<1> QED
  BY <1>4, <1>6, <1>9, <1>10, <1>11 DEF PlaceInv

\* The head of a batch has its global slot and waits for its language's.
LEMMA HeadWaits ==
    ASSUME PlaceInv, NEW l \in Loops, loop[l].batch # <<>>,
           HasLanguageSlots(Head(loop[l].batch)),
           at' = [at EXCEPT ![Head(loop[l].batch)] = "language"],
           UNCHANGED <<stream, loop, languageUsed, got, lru, currentBytes, flights>>,
           globalUsed' \in Int
    PROVE  PlaceInv'
<1> DEFINE r == Head(loop[l].batch)
<1>1. r \in Requests /\ at[r] \in {"batch", "language"} /\ HasLanguageSlots(r)
      /\ at' = [at EXCEPT ![r] = "language"]
  BY HeadOfBatch
<1> HIDE DEF r
<1>2. HostTypes'
  BY <1>1 DEF PlaceInv, HostTypes, Places
<1>3. \A q \in Requests : at'[q] = IF q = r THEN "language" ELSE at[q]
  BY <1>1 DEF PlaceInv, HostTypes
<1>4. \A m \in Loops : (\A i \in DOMAIN stream[m] : stream[m][i] \in Requests)
                       /\ (\A i \in DOMAIN loop[m].batch : loop[m].batch[i] \in Requests)
  BY LoopTyped, ElementOfSeq
<1>5. \A k \in DOMAIN SizeOf : \A q \in flights[k] : q \in Requests
  BY DEF PlaceInv, HostTypes
<1>6. StreamWaits' /\ StreamsDistinct'
  BY <1>1, <1>3, <1>4 DEF PlaceInv, StreamWaits, StreamsDistinct
<1>7. BatchWaits' /\ BatchesDistinct'
  BY <1>1, <1>3, <1>4 DEF PlaceInv, BatchWaits, BatchesDistinct
<1>8. FlightsAreLoading' /\ LoadersHaveSets' /\ WaitersHaveSlots'
  BY <1>1, <1>3, <1>5 DEF PlaceInv, FlightsAreLoading, LoadersHaveSets, WaitersHaveSlots,
                         InFlight, Loading, HasLanguageSlots, limiterLanguages, Key
<1> QED
  BY <1>2, <1>6, <1>7, <1>8 DEF PlaceInv

LEMMA LoopPlacesKept ==
    ASSUME PlaceInv, NEW l \in Loops, LoopStep(l)
    PROVE  PlaceInv'
<1> USE DEF slots, cache
<1>g. globalUsed \in Int /\ languageUsed \in [limiterLanguages -> Int]
  BY DEF PlaceInv, HostTypes
<1>t. \A p \in {"top", "consume", "acquire", "drain", "returned"} : p \in LoopPlaces
  BY DEF LoopPlaces
<1>1. CASE LoopTop(l)
  <2>1. LoopTo(l, "drain", 0, <<>>) \/ LoopTo(l, "consume", consumeLimit, <<>>)
    BY <1>1 DEF LoopTop
  <2>2. UNCHANGED <<stream, globalUsed, languageUsed, at, got, lru, currentBytes, flights>>
    BY <1>1 DEF LoopTop
  <2> QED
    BY <1>t, <2>1, <2>2, LoopTyped, EmptyBatchStep
<1>2. CASE Consume(l)
  BY <1>2, ConsumePlaces
<1>3. CASE ConsumeFails(l)
  BY <1>3, <1>t, EmptyBatchStep DEF ConsumeFails
<1>4. CASE AcquireGlobal(l)
  <2>1. loop[l].batch # <<>> /\ globalUsed' \in Int
        /\ UNCHANGED <<stream, languageUsed, got, lru, currentBytes, flights>>
    BY <1>4, <1>g DEF AcquireGlobal
  <2>2. CASE HasLanguageSlots(Head(loop[l].batch))
    BY <1>4, <2>1, <2>2, HeadWaits DEF AcquireGlobal
  <2>3. CASE ~HasLanguageSlots(Head(loop[l].batch))
    <3>1. Start(l, Head(loop[l].batch))
      BY <1>4, <2>3 DEF AcquireGlobal
    <3> QED
      BY <1>g, <1>t, <2>1, <3>1, HeadLeaves DEF Start
  <2> QED
    BY <2>2, <2>3
<1>5. CASE AcquireLanguage(l)
  <2> DEFINE k == LanguageOf[Head(loop[l].batch)]
  <2>1. /\ loop[l].batch # <<>> /\ UNCHANGED <<stream, globalUsed, got, lru, currentBytes, flights>>
        /\ Start(l, Head(loop[l].batch))
        /\ languageUsed' = [languageUsed EXCEPT ![k] = @ + 1]
        /\ at[Head(loop[l].batch)] = "language"
    BY <1>5 DEF AcquireLanguage
  <2>2. k \in limiterLanguages
    BY <2>1, HeadOfBatch DEF PlaceInv, WaitersHaveSlots, HasLanguageSlots
  <2>3. languageUsed' \in [limiterLanguages -> Int]
    BY <1>g, <2>1, <2>2
  <2> QED
    BY <1>g, <1>t, <2>1, <2>3, HeadLeaves DEF Start
<1>6. CASE AcquireCanceled(l)
  <2>1. /\ loop[l].batch # <<>> /\ UNCHANGED <<stream, languageUsed, got, lru, currentBytes, flights>>
        /\ at' = [at EXCEPT ![Head(loop[l].batch)] = "batch"]
        /\ LoopTo(l, "drain", 0, <<>>)
        /\ globalUsed' \in Int
    BY <1>6, <1>g DEF AcquireCanceled, returned
  <2> QED
    BY <1>g, <1>t, <2>1, HeadLeaves
<1>7. CASE BatchDone(l)
  BY <1>7, <1>t, EmptyBatchStep DEF BatchDone
<1>8. CASE LoopReturns(l)
  BY <1>8, <1>t, EmptyBatchStep DEF LoopReturns
<1> QED
  BY <1>1, <1>2, <1>3, <1>4, <1>5, <1>6, <1>7, <1>8 DEF LoopStep

-----------------------------------------------------------------------------
(* The bytes of a list of cache entries *)

\* A set of naturals has a least member.
LEMMA LeastNatural ==
    ASSUME NEW T \in SUBSET Nat, T # {}
    PROVE  \E m \in T : \A k \in T : m <= k
<1> DEFINE R == OpToRel(<, Nat)
<1>1. PICK m \in T : \A y \in T : ~(<<y, m>> \in R)
  BY WFMin, NatLessThanWellFounded
<1>2. \A y \in T : <<y, m>> \in R <=> y < m
  BY DEF OpToRel
<1> HIDE DEF R
<1>3. \A y \in T : ~(y < m)
  BY <1>1, <1>2
<1> QED
  BY <1>3

\* Induction up to n, for a set.
LEMMA UpTo ==
    ASSUME NEW n \in Nat, NEW T, 0 \in T,
           \A m \in 0..n : m \in T /\ m # n => m + 1 \in T
    PROVE  0..n \subseteq T
<1> DEFINE U == {m \in 0..n : m \notin T}
<1> SUFFICES ASSUME U # {}
             PROVE  FALSE
  OBVIOUS
<1>1. PICK m \in U : \A k \in U : m <= k
  <2>1. U \in SUBSET Nat
    OBVIOUS
  <2> HIDE DEF U
  <2> QED
    BY <2>1, LeastNatural
<1>2. m # 0 /\ m \in 0..n /\ m \notin T
  OBVIOUS
<1>3. m - 1 \in 0..n /\ m - 1 # n /\ m - 1 \notin U /\ (m - 1) + 1 = m
  BY <1>1, <1>2
<1>4. m - 1 \in T
  BY <1>3
<1> QED
  BY <1>2, <1>3, <1>4

\* A finite set of naturals with a member has a largest one.
LEMMA GreatestUpTo ==
    ASSUME NEW n \in Nat, NEW S \in SUBSET (0..n), S # {}
    PROVE  Max(S) \in S
<1> DEFINE T == {n - x : x \in S}
<1>1. T \in SUBSET Nat /\ T # {}
  <2>1. PICK x \in S : TRUE
    OBVIOUS
  <2>2. n - x \in T
    BY <2>1
  <2>3. T \subseteq Nat
    OBVIOUS
  <2> QED
    BY <2>2, <2>3
<1>2. PICK m \in T : \A k \in T : m <= k
  <2> HIDE DEF T
  <2> QED
    BY <1>1, LeastNatural
<1>3. PICK x \in S : m = n - x
  OBVIOUS
<1>4. \A y \in S : x >= y
  <2> TAKE y \in S
  <2>1. n - y \in T /\ y \in Nat /\ x \in Nat
    OBVIOUS
  <2> HIDE DEF T
  <2> QED
    BY <1>2, <1>3, <2>1
<1> QED
  BY <1>4 DEF Max

\* The sums bytesOf runs through.
Sums(entries) ==
    LET sum[i \in 0..Len(entries)] ==
            IF i = 0 THEN 0 ELSE sum[i - 1] + SizeOf[entries[i].key]
    IN  sum

LEMMA EntrySizes ==
    ASSUME NEW s \in Seq(CacheEntry)
    PROVE  Len(s) \in Nat /\ \A i \in 1..Len(s) : s[i] \in CacheEntry /\ SizeOf[s[i].key] \in Nat
<1>1. Len(s) \in Nat /\ \A i \in 1..Len(s) : s[i] \in CacheEntry
  BY LenProperties, ElementOfSeq
<1>2. \A e \in CacheEntry : SizeOf[e.key] \in Nat
  <2> TAKE e \in CacheEntry
  <2>1. PICK r \in WithSet : e = [key |-> Key(r), cases |-> Archive(r, Key(r))]
    BY DEF CacheEntry
  <2>2. e.key = Key(r)
    BY <2>1
  <2> QED
    BY <2>2, KeysAreSets, HostAssumption
<1> QED
  BY <1>1, <1>2

\* A function that adds the sizes up exists.
LEMMA SumsExist ==
    ASSUME NEW s \in Seq(CacheEntry)
    PROVE  \E g : g = [i \in 0..Len(s) |-> IF i = 0 THEN 0 ELSE g[i - 1] + SizeOf[s[i].key]]
<1> DEFINE n == Len(s)
           Good(m) == \E g \in [0..m -> Nat] : g[0] = 0 /\ \A i \in 1..m : g[i] = g[i - 1] + SizeOf[s[i].key]
           T == {m \in Nat : Good(m)}
<1>0. n \in Nat /\ \A i \in 1..n : SizeOf[s[i].key] \in Nat
  BY EntrySizes
<1> HIDE DEF n
<1>1. Good(0)
  <2> DEFINE z == [i \in 0..0 |-> 0]
  <2>1. z \in [0..0 -> Nat] /\ z[0] = 0 /\ 1..0 = {}
    OBVIOUS
  <2> HIDE DEF z
  <2> QED
    BY <2>1
<1>2. ASSUME NEW m \in 0..n, m # n, Good(m)
      PROVE  Good(m + 1)
  <2>1. PICK g \in [0..m -> Nat] : g[0] = 0 /\ \A i \in 1..m : g[i] = g[i - 1] + SizeOf[s[i].key]
    BY <1>2
  <2> DEFINE h == [i \in 0..(m + 1) |-> IF i = m + 1 THEN g[m] + SizeOf[s[m + 1].key] ELSE g[i]]
  <2>2. m \in Nat /\ m + 1 \in 1..n
    BY <1>0, <1>2
  <2>3. g[m] + SizeOf[s[m + 1].key] \in Nat
    BY <1>0, <2>2
  <2>4. h \in [0..(m + 1) -> Nat]
    BY <2>2, <2>3
  <2>5. h[0] = 0
    BY <2>1, <2>2
  <2>6. ASSUME NEW i \in 1..(m + 1)
        PROVE  h[i] = h[i - 1] + SizeOf[s[i].key]
    <3>1. CASE i = m + 1
      BY <2>2, <3>1
    <3>2. CASE i \in 1..m
      <4>1. i - 1 \in 0..(m + 1) /\ i - 1 # m + 1 /\ i # m + 1 /\ i \in 0..(m + 1)
        BY <2>2, <3>2
      <4> QED
        BY <2>1, <2>2, <3>2, <4>1
    <3> QED
      BY <3>1, <3>2, <2>2
  <2> HIDE DEF h
  <2> QED
    BY <2>4, <2>5, <2>6
<1> HIDE DEF Good
<1>3. 0..n \subseteq T
  <2>1. 0 \in T /\ \A m \in 0..n : m \in T /\ m # n => m + 1 \in T
    BY <1>0, <1>1, <1>2
  <2> HIDE DEF T
  <2> QED
    BY <1>0, <2>1, UpTo
<1>4. Good(n)
  BY <1>0, <1>3
<1>5. PICK g \in [0..n -> Nat] : g[0] = 0 /\ \A i \in 1..n : g[i] = g[i - 1] + SizeOf[s[i].key]
  BY <1>4 DEF Good
<1>6. g = [i \in 0..n |-> IF i = 0 THEN 0 ELSE g[i - 1] + SizeOf[s[i].key]]
  BY <1>0, <1>5
<1> QED
  BY <1>6 DEF n

LEMMA SumsEquation ==
    ASSUME NEW s \in Seq(CacheEntry)
    PROVE  Sums(s) = [i \in 0..Len(s) |-> IF i = 0 THEN 0 ELSE Sums(s)[i - 1] + SizeOf[s[i].key]]
BY SumsExist DEF Sums

\* What the sums are, one entry at a time.
LEMMA SumsByEntry ==
    ASSUME NEW s \in Seq(CacheEntry)
    PROVE  /\ Sums(s)[0] = 0
           /\ \A i \in 1..Len(s) : Sums(s)[i] = Sums(s)[i - 1] + SizeOf[s[i].key]
           /\ \A i \in 0..Len(s) : Sums(s)[i] \in Nat
           /\ bytesOf(s) = Sums(s)[Len(s)] /\ bytesOf(s) \in Nat
<1> DEFINE f == Sums(s)
           T == {m \in Nat : f[m] \in Nat}
<1>1. f = [i \in 0..Len(s) |-> IF i = 0 THEN 0 ELSE f[i - 1] + SizeOf[s[i].key]]
  BY SumsEquation
<1>2. bytesOf(s) = f[Len(s)]
  BY DEF bytesOf, Sums
<1> HIDE DEF f
<1>3. Len(s) \in Nat /\ \A i \in 1..Len(s) : SizeOf[s[i].key] \in Nat
  BY EntrySizes
<1>4. f[0] = 0 /\ \A i \in 1..Len(s) : f[i] = f[i - 1] + SizeOf[s[i].key]
  BY <1>1, <1>3
<1>5. 0..Len(s) \subseteq T
  <2>1. 0 \in T
    BY <1>4
  <2>2. ASSUME NEW m \in 0..Len(s), m \in T, m # Len(s)
        PROVE  m + 1 \in T
    <3>1. m + 1 \in 1..Len(s) /\ (m + 1) - 1 = m /\ f[m] \in Nat
      BY <1>3, <2>2
    <3>2. f[m + 1] = f[m] + SizeOf[s[m + 1].key]
      BY <1>4, <3>1
    <3> QED
      BY <1>3, <3>1, <3>2
  <2> HIDE DEF T
  <2> QED
    BY <1>3, <2>1, <2>2, UpTo
<1> QED
  BY <1>2, <1>3, <1>4, <1>5 DEF f

\* Lists with the same first n entries have the same first n sums.
LEMMA SumsOfPrefix ==
    ASSUME NEW s \in Seq(CacheEntry), NEW t \in Seq(CacheEntry), NEW n \in Nat,
           n <= Len(s), n <= Len(t), \A i \in 1..n : s[i] = t[i]
    PROVE  Sums(s)[n] = Sums(t)[n]
<1> DEFINE f == Sums(s)
           g == Sums(t)
           T == {m \in Nat : f[m] = g[m]}
<1>1. /\ f[0] = 0 /\ g[0] = 0
      /\ \A i \in 1..Len(s) : f[i] = f[i - 1] + SizeOf[s[i].key]
      /\ \A i \in 1..Len(t) : g[i] = g[i - 1] + SizeOf[t[i].key]
      /\ Len(s) \in Nat /\ Len(t) \in Nat
  BY SumsByEntry, LenProperties
<1> HIDE DEF f, g
<1>2. 0 \in T
  BY <1>1
<1>3. ASSUME NEW m \in 0..n, m \in T, m # n
      PROVE  m + 1 \in T
  <2>1. m + 1 \in 1..n /\ m + 1 \in 1..Len(s) /\ m + 1 \in 1..Len(t) /\ (m + 1) - 1 = m /\ f[m] = g[m]
    BY <1>1, <1>3
  <2>2. f[m + 1] = f[m] + SizeOf[s[m + 1].key] /\ g[m + 1] = g[m] + SizeOf[t[m + 1].key]
    BY <1>1, <2>1
  <2> QED
    BY <2>1, <2>2
<1>4. 0..n \subseteq T
  <2> HIDE DEF T
  <2> QED
    BY <1>2, <1>3, UpTo
<1> QED
  BY <1>4 DEF f, g

\* The bytes of two lists together.
LEMMA BytesOfConcat ==
    ASSUME NEW s \in Seq(CacheEntry), NEW t \in Seq(CacheEntry)
    PROVE  s \o t \in Seq(CacheEntry) /\ bytesOf(s \o t) = bytesOf(s) + bytesOf(t)
<1> DEFINE u == s \o t
           f == Sums(u)
           g == Sums(t)
           a == Len(s)
           b == Len(t)
           T == {m \in Nat : f[a + m] = f[a] + g[m]}
<1>1. /\ u \in Seq(CacheEntry) /\ Len(u) = a + b
      /\ \A i \in 1..(a + b) : u[i] = IF i <= a THEN s[i] ELSE t[i - a]
      /\ a \in Nat /\ b \in Nat
  BY ConcatProperties, LenProperties
<1> HIDE DEF u
<1>2. /\ g[0] = 0
      /\ \A i \in 1..(a + b) : f[i] = f[i - 1] + SizeOf[u[i].key]
      /\ \A i \in 0..(a + b) : f[i] \in Nat
      /\ \A i \in 1..b : g[i] = g[i - 1] + SizeOf[t[i].key]
      /\ \A i \in 0..b : g[i] \in Nat
      /\ bytesOf(u) = f[a + b] /\ bytesOf(t) = g[b] /\ bytesOf(s) = Sums(s)[a]
  BY <1>1, SumsByEntry
<1>3. f[a] = Sums(s)[a]
  <2>1. a <= Len(u) /\ \A i \in 1..a : u[i] = s[i]
    BY <1>1
  <2> QED
    BY <1>1, <2>1, SumsOfPrefix
<1>4. \A i \in 1..b : SizeOf[t[i].key] \in Nat
  BY EntrySizes
<1> HIDE DEF f, g, a, b
<1>5. 0 \in T
  <2>1. a \in 0..(a + b) /\ a + 0 = a
    BY <1>1
  <2>2. f[a] \in Nat
    BY <1>2, <2>1
  <2> QED
    BY <1>2, <2>1, <2>2
<1>6. ASSUME NEW m \in 0..b, m \in T, m # b
      PROVE  m + 1 \in T
  <2>1. /\ m \in Nat /\ m + 1 \in 1..b /\ (m + 1) - 1 = m
        /\ a + (m + 1) \in 1..(a + b) /\ (a + (m + 1)) - 1 = a + m
        /\ ~(a + (m + 1) <= a) /\ (a + (m + 1)) - a = m + 1
        /\ a \in 0..(a + b) /\ m \in 0..b
    BY <1>1, <1>6
  <2>2. f[a + (m + 1)] = f[a + m] + SizeOf[t[m + 1].key]
    <3>1. f[a + (m + 1)] = f[(a + (m + 1)) - 1] + SizeOf[u[a + (m + 1)].key]
      BY <1>2, <2>1
    <3>2. u[a + (m + 1)] = t[m + 1]
      BY <1>1, <2>1
    <3> QED
      BY <2>1, <3>1, <3>2
  <2>3. g[m + 1] = g[m] + SizeOf[t[m + 1].key]
    BY <1>2, <2>1
  <2>4. f[a + m] = f[a] + g[m]
    BY <1>6
  <2>5. f[a] \in Nat /\ g[m] \in Nat /\ SizeOf[t[m + 1].key] \in Nat
    BY <1>2, <1>4, <2>1
  <2>6. f[a + (m + 1)] = f[a] + g[m + 1]
    BY <2>2, <2>3, <2>4, <2>5
  <2> QED
    BY <2>1, <2>6
<1>7. 0..b \subseteq T
  <2> HIDE DEF T
  <2> QED
    BY <1>1, <1>5, <1>6, UpTo
<1>8. f[a + b] = f[a] + g[b]
  BY <1>1, <1>7
<1> QED
  BY <1>1, <1>2, <1>3, <1>8 DEF u

LEMMA BytesOfOne ==
    ASSUME NEW e \in CacheEntry
    PROVE  <<e>> \in Seq(CacheEntry) /\ bytesOf(<<e>>) = SizeOf[e.key]
<1>1. <<e>> \in Seq(CacheEntry) /\ Len(<<e>>) = 1 /\ <<e>>[1] = e
  OBVIOUS
<1> DEFINE s == <<e>>
<1> HIDE DEF s
<1>2. s \in Seq(CacheEntry) /\ Len(s) = 1 /\ s[1] = e
  BY <1>1 DEF s
<1>3. /\ Sums(s)[0] = 0 /\ bytesOf(s) = Sums(s)[Len(s)]
      /\ \A i \in 1..Len(s) : Sums(s)[i] = Sums(s)[i - 1] + SizeOf[s[i].key]
  BY <1>2, SumsByEntry
<1>4. \A i \in 1..Len(s) : SizeOf[s[i].key] \in Nat
  BY <1>2, EntrySizes
<1>5. 1 \in 1..Len(s) /\ 1 - 1 = 0
  BY <1>2
<1>6. Sums(s)[1] = Sums(s)[0] + SizeOf[s[1].key] /\ SizeOf[s[1].key] \in Nat
  BY <1>3, <1>4, <1>5
<1> QED
  BY <1>1, <1>2, <1>3, <1>6 DEF s

\* The entries before and after the n-th.
LEMMA BytesOfParts ==
    ASSUME NEW s \in Seq(CacheEntry), NEW n \in 0..Len(s)
    PROVE  /\ bytesOf(s) = bytesOf(SubSeq(s, 1, n)) + bytesOf(SubSeq(s, n + 1, Len(s)))
           /\ SubSeq(s, 1, n) \in Seq(CacheEntry) /\ SubSeq(s, n + 1, Len(s)) \in Seq(CacheEntry)
<1>1. SubSeq(s, 1, n) \in Seq(CacheEntry) /\ SubSeq(s, n + 1, Len(s)) \in Seq(CacheEntry)
  BY Parts
<1>2. Len(s) \in Nat
  BY LenProperties
<1>3. 1 \in 1..(Len(s) + 1) /\ n \in (1 - 1)..Len(s) /\ Len(s) \in n..Len(s)
  BY <1>2
<1>4. SubSeq(s, 1, n) \o SubSeq(s, n + 1, Len(s)) = SubSeq(s, 1, Len(s))
  BY <1>3, ConcatAdjacentSubSeq
<1>5. SubSeq(s, 1, Len(s)) = s
  BY SubSeqFull
<1>6. bytesOf(SubSeq(s, 1, n) \o SubSeq(s, n + 1, Len(s)))
      = bytesOf(SubSeq(s, 1, n)) + bytesOf(SubSeq(s, n + 1, Len(s)))
  BY <1>1, BytesOfConcat
<1> QED
  BY <1>1, <1>4, <1>5, <1>6

\* Which entry of a list stands at j once its e-th is moved to the front.
Moved(j, e) == IF j = 1 THEN e ELSE IF j <= e THEN j - 1 ELSE j

\* A hit moves an entry of the list to its front, and loses and adds none.
LEMMA MoveToFront ==
    ASSUME NEW s \in Seq(CacheEntry), NEW e \in 1..Len(s)
    PROVE  LET t == <<s[e]>> \o RemoveAt(s, e) IN
           /\ t \in Seq(CacheEntry) /\ Len(t) = Len(s) /\ DOMAIN t = 1..Len(s)
           /\ \A j \in 1..Len(s) : Moved(j, e) \in 1..Len(s) /\ t[j] = s[Moved(j, e)]
           /\ bytesOf(t) = bytesOf(s)
<1> DEFINE a == SubSeq(s, 1, e - 1)
           c == SubSeq(s, e + 1, Len(s))
           x == <<s[e]>>
           r == a \o c
           t == x \o r
<1>0. Len(s) \in Nat /\ s[e] \in CacheEntry /\ e - 1 \in 0..Len(s) /\ e \in 0..Len(s) /\ e \in Nat
  BY EntrySizes
<1>1. /\ a \in Seq(CacheEntry) /\ Len(a) = e - 1 /\ \A i \in 1..(e - 1) : a[i] = s[i]
      /\ c \in Seq(CacheEntry) /\ Len(c) = Len(s) - e /\ \A i \in 1..(Len(s) - e) : c[i] = s[e + i]
  BY <1>0, Parts
<1>2. x \in Seq(CacheEntry) /\ Len(x) = 1 /\ x[1] = s[e] /\ bytesOf(x) = SizeOf[s[e].key]
  BY <1>0, BytesOfOne
<1>3. RemoveAt(s, e) = r
  BY DEF RemoveAt
<1>4. bytesOf(a \o x) = bytesOf(SubSeq(s, 1, e))
  <2>1. 1 \in 1..Len(s) /\ e \in 1..Len(s)
    BY <1>0
  <2>2. SubSeq(s, 1, e) = a \o x
    BY <2>1, SubSeqRecursiveSecond
  <2> QED
    BY <2>2
<1>5. bytesOf(s) = bytesOf(SubSeq(s, 1, e)) + bytesOf(c)
  BY <1>0, BytesOfParts
<1> HIDE DEF a, c, x
<1>6. /\ r \in Seq(CacheEntry) /\ Len(r) = Len(s) - 1
      /\ \A i \in 1..(Len(s) - 1) : r[i] = IF i <= e - 1 THEN a[i] ELSE c[i - (e - 1)]
  <2>1. /\ r \in Seq(CacheEntry) /\ Len(r) = Len(a) + Len(c)
        /\ \A i \in 1..(Len(a) + Len(c)) : r[i] = IF i <= Len(a) THEN a[i] ELSE c[i - Len(a)]
    BY <1>1, ConcatProperties
  <2>2. Len(a) + Len(c) = Len(s) - 1 /\ Len(a) = e - 1
    BY <1>0, <1>1
  <2> HIDE DEF r
  <2> QED
    BY <2>1, <2>2
<1>7. bytesOf(r) = bytesOf(a) + bytesOf(c)
  BY <1>1, BytesOfConcat
<1>8. bytesOf(a \o x) = bytesOf(a) + bytesOf(x)
  BY <1>1, <1>2, BytesOfConcat
<1> HIDE DEF r
<1>9. bytesOf(t) = bytesOf(x) + bytesOf(r) /\ t \in Seq(CacheEntry)
  BY <1>2, <1>6, BytesOfConcat
<1>10. bytesOf(a) \in Nat /\ bytesOf(c) \in Nat /\ bytesOf(x) \in Nat
  BY <1>1, <1>2, SumsByEntry
<1>11. bytesOf(t) = bytesOf(s)
  BY <1>4, <1>5, <1>7, <1>8, <1>9, <1>10
<1>12. Len(t) = Len(s) /\ \A i \in 1..Len(s) : t[i] = IF i <= 1 THEN x[i] ELSE r[i - 1]
  <2>1. /\ Len(t) = Len(x) + Len(r)
        /\ \A i \in 1..(Len(x) + Len(r)) : t[i] = IF i <= Len(x) THEN x[i] ELSE r[i - Len(x)]
    BY <1>2, <1>6, ConcatProperties
  <2>2. Len(x) + Len(r) = Len(s) /\ Len(x) = 1
    BY <1>0, <1>2, <1>6
  <2> HIDE DEF t
  <2> QED
    BY <2>1, <2>2
<1>13. DOMAIN t = 1..Len(s)
  BY <1>9, <1>12, LenProperties
<1>14. ASSUME NEW j \in 1..Len(s)
       PROVE  Moved(j, e) \in 1..Len(s) /\ t[j] = s[Moved(j, e)]
  <2>1. CASE j = 1
    BY <1>2, <1>12, <2>1 DEF Moved
  <2>2. CASE j # 1 /\ j <= e
    <3>1. Moved(j, e) = j - 1 /\ j - 1 \in 1..(e - 1) /\ j - 1 \in 1..(Len(s) - 1) /\ j - 1 <= e - 1 /\ ~(j <= 1)
      BY <1>0, <2>2 DEF Moved
    <3>2. t[j] = r[j - 1] /\ r[j - 1] = a[j - 1] /\ a[j - 1] = s[j - 1]
      BY <1>1, <1>6, <1>12, <3>1
    <3> QED
      BY <1>0, <3>1, <3>2
  <2>3. CASE j # 1 /\ ~(j <= e)
    <3>1. /\ Moved(j, e) = j /\ j - 1 \in 1..(Len(s) - 1) /\ ~(j - 1 <= e - 1) /\ ~(j <= 1)
          /\ (j - 1) - (e - 1) = j - e /\ j - e \in 1..(Len(s) - e) /\ e + (j - e) = j
      BY <1>0, <2>3 DEF Moved
    <3>2. t[j] = r[j - 1] /\ r[j - 1] = c[j - e] /\ c[j - e] = s[e + (j - e)]
      BY <1>1, <1>6, <1>12, <3>1
    <3> QED
      BY <1>0, <3>1, <3>2
  <2> QED
    BY <2>1, <2>2, <2>3
<1> HIDE DEF t
<1>15. <<s[e]>> \o RemoveAt(s, e) = t
  BY <1>3 DEF t, x
<1> QED
  BY <1>9, <1>11, <1>12, <1>13, <1>14, <1>15

LEMMA CachedEntry ==
    ASSUME lru \in Seq(CacheEntry), NEW k, Cached(k)
    PROVE  /\ Entry(k) \in 1..Len(lru) /\ lru[Entry(k)].key = k
           /\ \E q \in WithSet : Key(q) = k /\ lru[Entry(k)] = [key |-> k, cases |-> Archive(q, k)]
<1>1. Entry(k) \in DOMAIN lru /\ lru[Entry(k)].key = k
  BY DEF Cached, Entry
<1>2. Entry(k) \in 1..Len(lru) /\ lru[Entry(k)] \in CacheEntry
  BY <1>1, LenProperties, ElementOfSeq
<1>3. PICK q \in WithSet : lru[Entry(k)] = [key |-> Key(q), cases |-> Archive(q, Key(q))]
  BY <1>2 DEF CacheEntry
<1> QED
  BY <1>1, <1>2, <1>3

\* put keeps a prefix of the list that leaves room for the new set, or nothing.
LEMMA EvictedToFits ==
    ASSUME lru \in Seq(CacheEntry), NEW k
    PROVE  /\ evictedTo(k) \in 0..Len(lru)
           /\ evictedTo(k) = 0 \/ remainingBytes(evictedTo(k)) + SizeOf[k] <= MaxBytes
<1> DEFINE S == {n \in 0..Len(lru) : n = 0 \/ remainingBytes(n) + SizeOf[k] <= MaxBytes}
<1>1. Len(lru) \in Nat
  BY LenProperties
<1>2. evictedTo(k) = Max(S)
  BY DEF evictedTo
<1>3. 0 \in S /\ S \in SUBSET (0..Len(lru))
  BY <1>1
<1>4. Max(S) \in S
  <2> HIDE DEF S
  <2> QED
    BY <1>1, <1>3, GreatestUpTo
<1> QED
  BY <1>2, <1>4

LEMMA PutTyped ==
    ASSUME lru \in Seq(CacheEntry), currentBytes \in Int, NEW r \in WithSet,
           put(Key(r), Archive(r, Key(r)))
    PROVE  lru' \in Seq(CacheEntry) /\ currentBytes' \in Int
<1> DEFINE k == Key(r)
           e == [key |-> Key(r), cases |-> Archive(r, Key(r))]
           n == evictedTo(k)
<1>1. CASE SizeOf[k] > MaxBytes \/ Cached(k)
  BY <1>1 DEF put
<1>2. CASE ~(SizeOf[k] > MaxBytes \/ Cached(k))
  <2>1. lru' = <<e>> \o SubSeq(lru, 1, n) /\ currentBytes' = remainingBytes(n) + SizeOf[k]
    BY <1>2 DEF put
  <2>2. n \in 0..Len(lru)
    BY EvictedToFits
  <2>3. e \in CacheEntry
    BY DEF CacheEntry
  <2> HIDE DEF e, n
  <2>4. SubSeq(lru, 1, n) \in Seq(CacheEntry) /\ SubSeq(lru, n + 1, Len(lru)) \in Seq(CacheEntry)
    BY <2>2, Parts
  <2>5. <<e>> \in Seq(CacheEntry)
    BY <2>3, BytesOfOne
  <2>6. bytesOf(SubSeq(lru, n + 1, Len(lru))) \in Nat
    BY <2>4, SumsByEntry
  <2>7. SizeOf[k] \in Nat
    BY KeysAreSets, HostAssumption
  <2>8. remainingBytes(n) \in Int
    BY <2>6 DEF remainingBytes
  <2>9. lru' \in Seq(CacheEntry)
    BY <2>1, <2>4, <2>5, ConcatProperties
  <2> QED
    BY <2>1, <2>7, <2>8, <2>9
<1> QED
  BY <1>1, <1>2

LEMMA GetTyped ==
    ASSUME lru \in Seq(CacheEntry), NEW r \in Requests, get(r), got = [q \in Requests |-> got[q]]
    PROVE  lru' \in Seq(CacheEntry) /\ got' = [q \in Requests |-> got'[q]]
<1>1. CASE Cached(Key(r))
  <2> DEFINE e == Entry(Key(r))
  <2>1. e \in 1..Len(lru)
    BY <1>1, CachedEntry
  <2>2. lru' = <<lru[e]>> \o RemoveAt(lru, e)
    BY <1>1 DEF get, toFront
  <2>3. got' = [got EXCEPT ![r] = lru[e].cases]
    BY <1>1 DEF get
  <2> HIDE DEF e
  <2>4. lru' \in Seq(CacheEntry)
    BY <2>1, <2>2, MoveToFront
  <2>5. got' = [q \in Requests |-> IF q = r THEN lru[e].cases ELSE got[q]]
    BY <2>3
  <2> QED
    BY <2>4, <2>5
<1>2. CASE ~Cached(Key(r))
  BY <1>2 DEF get
<1> QED
  BY <1>1, <1>2

-----------------------------------------------------------------------------
(* The goroutines of the requests *)

\* Every step of a request's goroutine moves requests that are being served,
\* and nothing else.
ServedOnly ==
    /\ UNCHANGED <<stream, loop>>
    /\ at' \in [Requests -> Places]
    /\ \A q \in Requests : at'[q] = at[q] \/ (at[q] \in Serving /\ at'[q] \in Serving \cup {"ended"})

LEMMA MovesServed ==
    ASSUME PlaceInv, NEW r \in Requests, NEW from \in Serving, NEW to \in Serving \cup {"ended"},
           Moves(r, from, to), UNCHANGED <<stream, loop>>
    PROVE  ServedOnly
BY DEF PlaceInv, HostTypes, Moves, ServedOnly, Places

LEMMA RequestsServed ==
    ASSUME PlaceInv, NEW r \in Requests, RequestStep(r)
    PROVE  ServedOnly
<1> USE DEF quiet
<1>1. CASE Source(r)
  <2>1. Moves(r, "source", "judge") \/ Moves(r, "source", "get") \/ Moves(r, "source", "dead")
    BY <1>1 DEF Source
  <2>2. UNCHANGED <<stream, loop>>
    BY <1>1 DEF Source
  <2> QED
    BY <2>1, <2>2, MovesServed DEF Serving
<1>2. CASE LoadGet(r)
  <2>1. Moves(r, "get", "judge") \/ Moves(r, "get", "do")
    BY <1>2 DEF LoadGet
  <2>2. UNCHANGED <<stream, loop>>
    BY <1>2 DEF LoadGet
  <2> QED
    BY <2>1, <2>2, MovesServed DEF Serving
<1>3. CASE LoadDo(r)
  <2>1. Moves(r, "do", "shared") \/ Moves(r, "do", "deliver") \/ Moves(r, "do", "download")
    BY <1>3 DEF LoadDo
  <2>2. UNCHANGED <<stream, loop>>
    BY <1>3 DEF LoadDo
  <2> QED
    BY <2>1, <2>2, MovesServed DEF Serving
<1>4. CASE Download(r)
  BY <1>4, MovesServed DEF Download, Serving
<1>5. CASE Deliver(r)
  <2>1. PICK to \in {"dead", "judge"} :
            at' = [q \in Requests |-> IF q \in flights[Key(r)] THEN to ELSE at[q]]
    BY <1>5 DEF Deliver
  <2>2. UNCHANGED <<stream, loop>> /\ at[r] = "deliver"
    BY <1>5 DEF Deliver
  <2>3. RefOf[r] # None
    BY <2>2 DEF PlaceInv, LoadersHaveSets, Loading, InFlight
  <2>4. \A q \in flights[Key(r)] : at[q] \in Serving
    BY <2>3, KeysAreSets DEF PlaceInv, FlightsAreLoading, InFlight, Serving, WithSet
  <2> QED
    BY <2>1, <2>2, <2>4 DEF PlaceInv, HostTypes, ServedOnly, Places, Serving
<1>6. CASE Judge(r)
  <2>1. Moves(r, "judge", "publish") \/ Moves(r, "judge", "dead")
    BY <1>6 DEF Judge
  <2>2. UNCHANGED <<stream, loop>>
    BY <1>6 DEF Judge
  <2> QED
    BY <2>1, <2>2, MovesServed DEF Serving
<1>7. CASE publishAsyncResult(r)
  <2>1. Moves(r, "publish", "ack") \/ Moves(r, "publish", "dead")
    BY <1>7 DEF publishAsyncResult, afterPublishError
  <2>2. UNCHANGED <<stream, loop>>
    BY <1>7 DEF publishAsyncResult
  <2> QED
    BY <2>1, <2>2, MovesServed DEF Serving
<1>8. CASE Ack(r)
  <2>1. Moves(r, "ack", "release") \/ Moves(r, "ack", "dead")
    BY <1>8 DEF Ack
  <2>2. UNCHANGED <<stream, loop>>
    BY <1>8 DEF Ack
  <2> QED
    BY <2>1, <2>2, MovesServed DEF Serving
<1>9. CASE DeadLetter(r)
  <2>1. Moves(r, "dead", "deadAck") \/ Moves(r, "dead", "release")
    BY <1>9 DEF DeadLetter
  <2>2. UNCHANGED <<stream, loop>>
    BY <1>9 DEF DeadLetter
  <2> QED
    BY <2>1, <2>2, MovesServed DEF Serving
<1>10. CASE DeadAck(r)
  BY <1>10, MovesServed DEF DeadAck, Serving
<1>11. CASE release(r)
  BY <1>11, MovesServed DEF release, Serving
<1> QED
  BY <1>1, <1>2, <1>3, <1>4, <1>5, <1>6, <1>7, <1>8, <1>9, <1>10, <1>11 DEF RequestStep

\* Nothing that waits is disturbed.
LEMMA ServedKeepsQueues ==
    ASSUME PlaceInv, ServedOnly
    PROVE  StreamWaits' /\ StreamsDistinct' /\ BatchWaits' /\ BatchesDistinct' /\ WaitersHaveSlots'
<1>1. \A m \in Loops : (\A i \in DOMAIN stream[m] : stream[m][i] \in Requests)
                       /\ (\A i \in DOMAIN loop[m].batch : loop[m].batch[i] \in Requests)
  BY LoopTyped, ElementOfSeq
<1>2. StreamsDistinct' /\ BatchesDistinct'
  BY DEF PlaceInv, ServedOnly, StreamsDistinct, BatchesDistinct
<1>3. \A q \in Requests : at[q] \in {"stream", "batch", "language"} => at'[q] = at[q]
  BY DEF ServedOnly, Serving
<1>4. StreamWaits' /\ BatchWaits'
  BY <1>1, <1>3 DEF PlaceInv, ServedOnly, StreamWaits, BatchWaits
<1>5. \A q \in Requests : at'[q] = "language" => at[q] = "language"
  BY DEF ServedOnly, Serving
<1>6. WaitersHaveSlots'
  BY <1>5 DEF PlaceInv, WaitersHaveSlots, HasLanguageSlots, limiterLanguages
<1> QED
  BY <1>2, <1>4, <1>6

\* The steps of a goroutine outside the testcase loader.
OutsideLoader(r) ==
    \/ Source(r) \/ Judge(r) \/ publishAsyncResult(r) \/ Ack(r)
    \/ DeadLetter(r) \/ DeadAck(r) \/ release(r)

\* Such a step moves r alone and leaves the cache alone; it reaches the loader
\* with a testcase set only.
LEMMA OutsideMoves ==
    ASSUME PlaceInv, NEW r \in Requests, OutsideLoader(r)
    PROVE  /\ at[r] \notin Loading
           /\ at'[r] \in Loading => RefOf[r] # None
           /\ \A q \in Requests : q # r => at'[q] = at[q] /\ got'[q] = got[q]
           /\ at'[r] = "judge" => RefOf[r] = None
           /\ got'[r] = got[r] \/ got'[r] = None
           /\ got' = [q \in Requests |-> got'[q]]
           /\ UNCHANGED <<lru, currentBytes, flights>>
           /\ globalUsed' \in Int /\ languageUsed' \in [limiterLanguages -> Int]
<1> USE DEF quiet, cache, slots
<1>t. /\ at \in [Requests -> Places] /\ got = [q \in Requests |-> got[q]]
      /\ globalUsed \in Int /\ languageUsed \in [limiterLanguages -> Int]
  BY DEF PlaceInv, HostTypes
<1>m. ASSUME NEW from, NEW to, Moves(r, from, to)
      PROVE  at[r] = from /\ at'[r] = to /\ \A q \in Requests : q # r => at'[q] = at[q]
  BY <1>t, <1>m DEF Moves
<1> USE DEF Loading, InFlight
<1>1. CASE Source(r)
  <2>1. UNCHANGED <<lru, currentBytes, flights, got, globalUsed, languageUsed>>
    BY <1>1 DEF Source
  <2>2. Moves(r, "source", IF RefOf[r] = None THEN "judge" ELSE "get") \/ Moves(r, "source", "dead")
    BY <1>1 DEF Source
  <2>3. at[r] = "source" /\ at'[r] \in {IF RefOf[r] = None THEN "judge" ELSE "get", "dead"}
        /\ \A q \in Requests : q # r => at'[q] = at[q]
    BY <1>m, <2>2
  <2> QED
    BY <1>t, <2>1, <2>3
<1>2. CASE Judge(r)
  <2>1. UNCHANGED <<lru, currentBytes, flights, globalUsed, languageUsed>> /\ got' = [got EXCEPT ![r] = None]
    BY <1>2 DEF Judge
  <2>2. Moves(r, "judge", "publish") \/ Moves(r, "judge", "dead")
    BY <1>2 DEF Judge
  <2>3. got' = [q \in Requests |-> IF q = r THEN None ELSE got[q]]
    BY <1>t, <2>1
  <2> QED
    BY <1>m, <1>t, <2>1, <2>2, <2>3
<1>3. CASE publishAsyncResult(r)
  <2>1. UNCHANGED <<lru, currentBytes, flights, got, globalUsed, languageUsed>>
    BY <1>3 DEF publishAsyncResult
  <2>2. Moves(r, "publish", "ack") \/ Moves(r, "publish", "dead")
    BY <1>3 DEF publishAsyncResult, afterPublishError
  <2> QED
    BY <1>m, <1>t, <2>1, <2>2
<1>4. CASE Ack(r)
  <2>1. UNCHANGED <<lru, currentBytes, flights, got, globalUsed, languageUsed>>
    BY <1>4 DEF Ack
  <2>2. Moves(r, "ack", "release") \/ Moves(r, "ack", "dead")
    BY <1>4 DEF Ack
  <2> QED
    BY <1>m, <1>t, <2>1, <2>2
<1>5. CASE DeadLetter(r)
  <2>1. UNCHANGED <<lru, currentBytes, flights, got, globalUsed, languageUsed>>
    BY <1>5 DEF DeadLetter
  <2>2. Moves(r, "dead", "deadAck") \/ Moves(r, "dead", "release")
    BY <1>5 DEF DeadLetter
  <2> QED
    BY <1>m, <1>t, <2>1, <2>2
<1>6. CASE DeadAck(r)
  <2>1. UNCHANGED <<lru, currentBytes, flights, got, globalUsed, languageUsed>> /\ Moves(r, "deadAck", "release")
    BY <1>6 DEF DeadAck
  <2> QED
    BY <1>m, <1>t, <2>1
<1>7. CASE release(r)
  <2>1. UNCHANGED <<lru, currentBytes, flights, got>> /\ Moves(r, "release", "ended")
        /\ languageUsed' = freed(r) /\ globalUsed' = globalUsed - 1
    BY <1>7 DEF release
  <2>2. languageUsed' \in [limiterLanguages -> Int] /\ globalUsed' \in Int
    BY <1>t, <2>1 DEF freed, HasLanguageSlots
  <2> QED
    BY <1>m, <1>t, <2>1, <2>2
<1> QED
  BY <1>1, <1>2, <1>3, <1>4, <1>5, <1>6, <1>7 DEF OutsideLoader

\* Inside the loader the request has a set.
LEMMA LoaderHasSet ==
    ASSUME PlaceInv, NEW r \in Requests, LoadGet(r) \/ LoadDo(r) \/ Download(r) \/ Deliver(r)
    PROVE  r \in WithSet /\ Key(r) \in DOMAIN SizeOf /\ flights[Key(r)] \in SUBSET Requests
<1>1. at[r] \in Loading
  BY DEF LoadGet, LoadDo, Download, Deliver, Moves, Loading, InFlight
<1>2. r \in WithSet
  BY <1>1 DEF PlaceInv, LoadersHaveSets, WithSet
<1> QED
  BY <1>2, KeysAreSets DEF PlaceInv, HostTypes

LEMMA RequestPlaces ==
    ASSUME PlaceInv, NEW r \in Requests, RequestStep(r)
    PROVE  PlaceInv'
<1>1. ServedOnly
  BY RequestsServed
<1>2. StreamWaits' /\ StreamsDistinct' /\ BatchWaits' /\ BatchesDistinct' /\ WaitersHaveSlots'
  BY <1>1, ServedKeepsQueues
<1>t. /\ at \in [Requests -> Places] /\ got = [q \in Requests |-> got[q]]
      /\ globalUsed \in Int /\ languageUsed \in [limiterLanguages -> Int]
      /\ lru \in Seq(CacheEntry) /\ currentBytes \in Int
      /\ flights \in [DOMAIN SizeOf -> SUBSET Requests]
      /\ stream \in [Loops -> Seq(Requests)]
      /\ loop \in [Loops -> [at : LoopPlaces, limit : Int, batch : Seq(Requests)]]
  BY DEF PlaceInv, HostTypes
<1>u. /\ at' \in [Requests -> Places] /\ stream' \in [Loops -> Seq(Requests)]
      /\ loop' \in [Loops -> [at : LoopPlaces, limit : Int, batch : Seq(Requests)]]
  BY <1>1, <1>t DEF ServedOnly
<1>f. \A k \in DOMAIN SizeOf : \A q \in flights[k] : q \in Requests /\ at[q] \in InFlight /\ RefOf[q] # None /\ Key(q) = k
  BY <1>t DEF PlaceInv, FlightsAreLoading
<1>s. \A q \in Requests : at[q] \in Loading => RefOf[q] # None
  BY DEF PlaceInv, LoadersHaveSets
<1>3. CASE OutsideLoader(r)
  <2>1. HostTypes'
    BY <1>3, <1>t, <1>u, OutsideMoves DEF HostTypes
  <2>2. \A k \in DOMAIN SizeOf : \A q \in flights[k] : q # r
    BY <1>3, <1>f, OutsideMoves DEF Loading
  <2>3. FlightsAreLoading'
    BY <1>3, <1>f, <2>2, OutsideMoves DEF FlightsAreLoading, Key
  <2>4. LoadersHaveSets'
    BY <1>3, <1>s, OutsideMoves DEF LoadersHaveSets
  <2> QED
    BY <1>2, <2>1, <2>3, <2>4 DEF PlaceInv
<1>4. CASE LoadGet(r)
  <2>1. get(r) /\ UNCHANGED <<currentBytes, flights, globalUsed, languageUsed>>
        /\ at[r] = "get" /\ at' = [at EXCEPT ![r] = IF Cached(Key(r)) THEN "judge" ELSE "do"]
    BY <1>4 DEF LoadGet, Moves, slots
  <2>2. lru' \in Seq(CacheEntry) /\ got' = [q \in Requests |-> got'[q]]
    BY <1>t, <2>1, GetTyped
  <2>3. HostTypes'
    BY <1>t, <1>u, <2>1, <2>2 DEF HostTypes
  <2>4. \A q \in Requests : q # r => at'[q] = at[q]
    BY <1>t, <2>1
  <2>5. FlightsAreLoading'
    BY <1>f, <2>1, <2>4 DEF FlightsAreLoading, InFlight, Key
  <2>6. LoadersHaveSets'
    BY <1>s, <2>1, <2>4 DEF LoadersHaveSets, Loading
  <2> QED
    BY <1>2, <2>3, <2>5, <2>6 DEF PlaceInv
<1>5. CASE LoadDo(r)
  <2>1. /\ at[r] = "do" /\ UNCHANGED <<globalUsed, languageUsed, currentBytes>>
        /\ flights' = [flights EXCEPT ![Key(r)] = @ \cup {r}]
        /\ \E to \in InFlight : at' = [at EXCEPT ![r] = to]
    BY <1>5 DEF LoadDo, Moves, slots, InFlight
  <2>2. lru' \in Seq(CacheEntry) /\ got' = [q \in Requests |-> got'[q]]
    <3>1. get(r) \/ UNCHANGED <<got, lru>>
      BY <1>5 DEF LoadDo
    <3> QED
      BY <1>t, <3>1, GetTyped
  <2>3. r \in WithSet /\ Key(r) \in DOMAIN SizeOf
    BY <1>5, LoaderHasSet
  <2>4. flights' \in [DOMAIN SizeOf -> SUBSET Requests]
    BY <1>t, <2>1, <2>3
  <2>5. HostTypes'
    BY <1>t, <1>u, <2>1, <2>2, <2>4 DEF HostTypes
  <2>6. at'[r] \in InFlight /\ \A q \in Requests : q # r => at'[q] = at[q]
    BY <1>t, <2>1
  <2>7. \A k \in DOMAIN SizeOf : \A q \in flights'[k] : q \in flights[k] \/ (q = r /\ k = Key(r))
    BY <1>t, <2>1, <2>3
  <2>8. FlightsAreLoading'
    BY <1>f, <2>3, <2>6, <2>7 DEF FlightsAreLoading, WithSet, Key
  <2>9. LoadersHaveSets'
    BY <1>s, <2>3, <2>6 DEF LoadersHaveSets, WithSet
  <2> QED
    BY <1>2, <2>5, <2>8, <2>9 DEF PlaceInv
<1>6. CASE Download(r)
  <2>1. r \in WithSet /\ Key(r) \in DOMAIN SizeOf
    BY <1>6, LoaderHasSet
  <2>2. at[r] = "download" /\ at' = [at EXCEPT ![r] = "deliver"] /\ UNCHANGED <<flights, globalUsed, languageUsed>>
    BY <1>6 DEF Download, Moves, slots
  <2>3. \/ /\ got' = [got EXCEPT ![r] = Archive(r, Key(r))]
           /\ put(Key(r), Archive(r, Key(r)))
        \/ UNCHANGED <<got, lru, currentBytes>>
    BY <1>6 DEF Download, checksumMatches
  <2>4. lru' \in Seq(CacheEntry) /\ currentBytes' \in Int /\ got' = [q \in Requests |-> got'[q]]
    <3>1. CASE got' = [got EXCEPT ![r] = Archive(r, Key(r))] /\ put(Key(r), Archive(r, Key(r)))
      <4>1. got' = [q \in Requests |-> IF q = r THEN Archive(r, Key(r)) ELSE got[q]]
        BY <1>t, <3>1
      <4> QED
        BY <1>t, <2>1, <3>1, <4>1, PutTyped
    <3>2. CASE UNCHANGED <<got, lru, currentBytes>>
      BY <1>t, <3>2
    <3> QED
      BY <2>3, <3>1, <3>2
  <2>5. HostTypes'
    BY <1>t, <1>u, <2>2, <2>4 DEF HostTypes
  <2>6. at'[r] = "deliver" /\ \A q \in Requests : q # r => at'[q] = at[q]
    BY <1>t, <2>2
  <2>7. FlightsAreLoading'
    BY <1>f, <2>2, <2>6 DEF FlightsAreLoading, InFlight, Key
  <2>8. LoadersHaveSets'
    BY <1>s, <2>1, <2>6 DEF LoadersHaveSets, WithSet
  <2> QED
    BY <1>2, <2>5, <2>7, <2>8 DEF PlaceInv
<1>7. CASE Deliver(r)
  <2>1. r \in WithSet /\ Key(r) \in DOMAIN SizeOf
    BY <1>7, LoaderHasSet
  <2>2. /\ flights' = [flights EXCEPT ![Key(r)] = {}]
        /\ UNCHANGED <<lru, currentBytes, globalUsed, languageUsed>>
        /\ got' = [q \in Requests |-> IF q \in flights[Key(r)] THEN got[r] ELSE got[q]]
    BY <1>7 DEF Deliver, slots
  <2>3. \A q \in Requests : at'[q] = IF q \in flights[Key(r)] THEN IF got[r] = None THEN "dead" ELSE "judge" ELSE at[q]
    BY <1>7 DEF Deliver
  <2>4. flights' \in [DOMAIN SizeOf -> SUBSET Requests] /\ got' = [q \in Requests |-> got'[q]]
    BY <1>t, <2>1, <2>2
  <2>5. HostTypes'
    BY <1>t, <1>u, <2>2, <2>4 DEF HostTypes
  <2>6. \A k \in DOMAIN SizeOf : \A q \in flights'[k] : k # Key(r) /\ q \in flights[k]
    BY <1>t, <2>1, <2>2
  <2>7. FlightsAreLoading'
    <3> SUFFICES ASSUME NEW k \in DOMAIN SizeOf, NEW q \in flights'[k]
                 PROVE  at'[q] \in InFlight /\ RefOf[q] # None /\ Key(q) = k
      BY DEF FlightsAreLoading, Key
    <3>1. k # Key(r) /\ q \in flights[k] /\ q \in Requests /\ at[q] \in InFlight /\ RefOf[q] # None /\ Key(q) = k
      BY <1>f, <2>6
    <3>2. q \notin flights[Key(r)]
      BY <1>f, <2>1, <3>1
    <3> QED
      BY <2>3, <3>1, <3>2
  <2>8. LoadersHaveSets'
    BY <1>s, <2>3 DEF LoadersHaveSets, Loading, InFlight
  <2> QED
    BY <1>2, <2>5, <2>7, <2>8 DEF PlaceInv
<1> QED
  BY <1>3, <1>4, <1>5, <1>6, <1>7 DEF RequestStep, OutsideLoader

LEMMA PlacesStep ==
    ASSUME PlaceInv, [Next]_vars
    PROVE  PlaceInv'
<1>1. ASSUME NEW l \in Loops, LoopStep(l)
      PROVE  PlaceInv'
  BY <1>1, LoopPlacesKept
<1>2. ASSUME NEW r \in Requests, RequestStep(r)
      PROVE  PlaceInv'
  BY <1>2, RequestPlaces
<1>3. ASSUME UNCHANGED <<stream, loop, globalUsed, languageUsed, at, got, lru, currentBytes, flights>>
      PROVE  PlaceInv'
  BY <1>3 DEF PlaceInv, HostTypes, StreamWaits, StreamsDistinct, BatchWaits, BatchesDistinct,
              FlightsAreLoading, LoadersHaveSets, WaitersHaveSlots, HasLanguageSlots,
              limiterLanguages, Key
<1>4. CASE Shutdown
  BY <1>3, <1>4 DEF Shutdown, slots, cache
<1>5. CASE UNCHANGED vars
  BY <1>3, <1>5 DEF vars, slots, cache
<1> QED
  BY <1>1, <1>2, <1>4, <1>5 DEF Next

\* Consume delivers the head of the stream: only requests of the stream move.
LEMMA ConsumeTakesStreamed ==
    ASSUME PlaceInv, NEW l \in Loops, Consume(l)
    PROVE  \A q \in Requests : at'[q] = at[q] \/ (at[q] = "stream" /\ at'[q] = "batch")
<1>1. stream[l] \in Seq(Requests) /\ loop[l].limit \in Int /\ Len(stream[l]) \in Nat
  BY LoopTyped, LenProperties
<1>2. PICK n \in 0..Min({loop[l].limit, Len(stream[l])}) :
         at' = [r \in Requests |->
                   IF \E i \in DOMAIN SubSeq(stream[l], 1, n) : SubSeq(stream[l], 1, n)[i] = r
                   THEN "batch" ELSE at[r]]
  BY DEF Consume
<1>3. n \in 0..Len(stream[l])
  BY <1>1, <1>2, WithinLimit
<1>4. DOMAIN SubSeq(stream[l], 1, n) = 1..n /\ \A i \in 1..n : SubSeq(stream[l], 1, n)[i] = stream[l][i]
  BY <1>1, <1>3, Parts
<1>5. DOMAIN stream[l] = 1..Len(stream[l])
  BY <1>1, LenProperties
<1>6. \A i \in 1..n : at[stream[l][i]] = "stream"
  BY <1>1, <1>3, <1>5 DEF PlaceInv, StreamWaits
<1> QED
  BY <1>2, <1>4, <1>6

\* A loop moves requests into batches and up to the start of their goroutine.
LEMMA LoopMoves ==
    ASSUME PlaceInv, NEW l \in Loops, LoopStep(l)
    PROVE  /\ \A q \in Requests :
                 at'[q] = at[q] \/ (at'[q] \in {"batch", "language", "source"}
                                    /\ at[q] \in {"stream", "batch", "language"})
           /\ UNCHANGED <<got, lru, currentBytes, flights, published, deadLettered, acked>>
<1> USE DEF slots, cache, answers
<1>t. at \in [Requests -> Places]
  BY DEF PlaceInv, HostTypes
<1>1. CASE LoopTop(l) \/ ConsumeFails(l) \/ BatchDone(l) \/ LoopReturns(l)
  BY <1>1 DEF LoopTop, ConsumeFails, BatchDone, LoopReturns
<1>2. CASE Consume(l)
  <2>1. UNCHANGED <<got, lru, currentBytes, flights, published, deadLettered, acked>>
    BY <1>2 DEF Consume
  <2> QED
    BY <1>2, <2>1, ConsumeTakesStreamed
<1>3. ASSUME loop[l].batch # <<>>, NEW to \in {"batch", "language", "source"},
             at' = [at EXCEPT ![Head(loop[l].batch)] = to]
      PROVE  \A q \in Requests :
                 at'[q] = at[q] \/ (at'[q] \in {"batch", "language", "source"}
                                    /\ at[q] \in {"stream", "batch", "language"})
  <2>1. Head(loop[l].batch) \in Requests /\ at[Head(loop[l].batch)] \in {"batch", "language"}
    BY <1>3, HeadOfBatch
  <2> QED
    BY <1>3, <1>t, <2>1
<1>4. CASE AcquireGlobal(l)
  <2>1. loop[l].batch # <<>> /\ \E to \in {"language", "source"} : at' = [at EXCEPT ![Head(loop[l].batch)] = to]
    BY <1>4 DEF AcquireGlobal, Start
  <2>2. UNCHANGED <<got, lru, currentBytes, flights, published, deadLettered, acked>>
    BY <1>4 DEF AcquireGlobal
  <2> QED
    BY <1>3, <2>1, <2>2
<1>5. CASE AcquireLanguage(l)
  <2>1. loop[l].batch # <<>> /\ at' = [at EXCEPT ![Head(loop[l].batch)] = "source"]
    BY <1>5 DEF AcquireLanguage, Start
  <2>2. UNCHANGED <<got, lru, currentBytes, flights, published, deadLettered, acked>>
    BY <1>5 DEF AcquireLanguage
  <2> QED
    BY <1>3, <2>1, <2>2
<1>6. CASE AcquireCanceled(l)
  <2>1. loop[l].batch # <<>> /\ at' = [at EXCEPT ![Head(loop[l].batch)] = "batch"]
    BY <1>6 DEF AcquireCanceled
  <2>2. UNCHANGED <<got, lru, currentBytes, flights, published, deadLettered, acked>>
    BY <1>6 DEF AcquireCanceled
  <2> QED
    BY <1>3, <2>1, <2>2
<1> QED
  BY <1>1, <1>2, <1>4, <1>5, <1>6 DEF LoopStep

-----------------------------------------------------------------------------
(* Answers before acknowledgements *)

\* A goroutine that is about to acknowledge has given its answer.
HeldAnswers ==
    \A r \in Requests : /\ at[r] = "ack" => r \in published
                        /\ at[r] = "deadAck" => r \in deadLettered

AnswerInv == HeldAnswers /\ AckedIsAnswered

LEMMA AnswerStep ==
    ASSUME PlaceInv, AnswerInv, [Next]_vars
    PROVE  AnswerInv'
<1> USE DEF AnswerInv, HeldAnswers, AckedIsAnswered
<1>t. at \in [Requests -> Places]
  BY DEF PlaceInv, HostTypes
<1>1. ASSUME NEW l \in Loops, LoopStep(l)
      PROVE  AnswerInv'
  BY <1>1, LoopMoves
<1>2. ASSUME NEW r \in Requests, RequestStep(r)
      PROVE  AnswerInv'
  <2> USE DEF quiet, answers, Moves
  <2>1. CASE LoadGet(r) \/ LoadDo(r) \/ Download(r) \/ Deliver(r)
    <3>1. UNCHANGED <<published, deadLettered, acked>>
      BY <2>1 DEF LoadGet, LoadDo, Download, Deliver
    <3>2. \A q \in Requests : at'[q] = at[q] \/ at'[q] \notin {"ack", "deadAck"}
      BY <1>t, <2>1 DEF LoadGet, LoadDo, Download, Deliver
    <3> QED
      BY <3>1, <3>2
  <2>2. CASE Source(r) \/ Judge(r) \/ release(r)
    <3>1. UNCHANGED <<published, deadLettered, acked>>
      BY <2>2 DEF Source, Judge, release
    <3>2. \A q \in Requests : at'[q] = at[q] \/ at'[q] \notin {"ack", "deadAck"}
      BY <1>t, <2>2 DEF Source, Judge, release
    <3> QED
      BY <3>1, <3>2
  <2>3. CASE publishAsyncResult(r)
    BY <1>t, <2>3 DEF publishAsyncResult, afterPublishError
  <2>4. CASE Ack(r)
    BY <1>t, <2>4 DEF Ack
  <2>5. CASE DeadLetter(r)
    BY <1>t, <2>5 DEF DeadLetter
  <2>6. CASE DeadAck(r)
    BY <1>t, <2>6 DEF DeadAck
  <2> QED
    BY <1>2, <2>1, <2>2, <2>3, <2>4, <2>5, <2>6 DEF RequestStep
<1>3. CASE Shutdown
  BY <1>3 DEF Shutdown, answers
<1>4. CASE UNCHANGED vars
  BY <1>4 DEF vars, answers
<1> QED
  BY <1>1, <1>2, <1>3, <1>4 DEF Next

\* A request leaves the pending list only with its result in the result stream
\* or itself in the dead stream, wherever the agent fails or is canceled
\* (ProcessRequestMessage, the error path of runJudgeAgentLoop).
THEOREM AnsweredBeforeAck == Spec => []AckedIsAnswered
<1>1. Init => PlaceInv /\ AnswerInv
  BY PlacesInitially DEF Init, AnswerInv, HeldAnswers, AckedIsAnswered
<1>2. PlaceInv /\ AnswerInv /\ [Next]_vars => PlaceInv' /\ AnswerInv'
  BY PlacesStep, AnswerStep
<1>3. AnswerInv => AckedIsAnswered
  BY DEF AnswerInv
<1> QED
  BY <1>1, <1>2, <1>3, PTL DEF Spec

-----------------------------------------------------------------------------
(* The testcases a submission is judged against *)

\* Whatever testcases a request has are those of its own set.
OwnCases == \A r \in Requests : got[r] # None => RefOf[r] # None /\ got[r].content = Key(r)

CasesInv == OwnCases /\ JudgedAgainstItsSet

LEMMA GetOwnCases ==
    ASSUME PlaceInv, OwnCases, NEW r \in WithSet, get(r)
    PROVE  /\ \A q \in Requests : q # r => got'[q] = got[q]
           /\ Cached(Key(r)) => got'[r] # None /\ got'[r].content = Key(r)
           /\ ~Cached(Key(r)) => got'[r] = got[r]
<1>t. got = [q \in Requests |-> got[q]] /\ lru \in Seq(CacheEntry) /\ r \in Requests
  BY DEF PlaceInv, HostTypes, WithSet
<1>1. CASE Cached(Key(r))
  <2>1. PICK p \in WithSet : Key(p) = Key(r) /\ lru[Entry(Key(r))] = [key |-> Key(r), cases |-> Archive(p, Key(r))]
    BY <1>1, <1>t, CachedEntry
  <2>2. lru[Entry(Key(r))].cases = Archive(p, Key(p)) /\ Archive(p, Key(p)).content = Key(r)
    BY <2>1 DEF Archive
  <2>3. got' = [got EXCEPT ![r] = Archive(p, Key(p))]
    BY <1>1, <2>2 DEF get
  <2>4. Archive(p, Key(p)) # None
    BY KeysAreSets
  <2> QED
    BY <1>1, <1>t, <2>2, <2>3, <2>4
<1>2. CASE ~Cached(Key(r))
  BY <1>2 DEF get
<1> QED
  BY <1>1, <1>2

LEMMA CasesStep ==
    ASSUME PlaceInv, CasesInv, [Next]_vars
    PROVE  CasesInv'
<1>t. at \in [Requests -> Places] /\ got = [q \in Requests |-> got[q]]
  BY DEF PlaceInv, HostTypes
<1>o. \A q \in Requests : got[q] # None => RefOf[q] # None /\ got[q].content = Key(q)
  BY DEF CasesInv, OwnCases
<1>j. \A q \in Requests : at[q] = "judge" /\ RefOf[q] # None => got[q] # None /\ got[q].content = Key(q)
  BY DEF CasesInv, JudgedAgainstItsSet
<1>k. ASSUME \A q \in Requests :
               /\ got'[q] # None => RefOf[q] # None /\ got'[q].content = Key(q)
               /\ at'[q] = "judge" /\ RefOf[q] # None => got'[q] # None
      PROVE  CasesInv'
  BY <1>k DEF CasesInv, OwnCases, JudgedAgainstItsSet, Key
<1>1. ASSUME NEW l \in Loops, LoopStep(l)
      PROVE  CasesInv'
  BY <1>1, <1>j, <1>k, <1>o, LoopMoves
<1>2. ASSUME NEW r \in Requests, RequestStep(r)
      PROVE  CasesInv'
  <2>1. CASE OutsideLoader(r)
    <3>1. \A q \in Requests : q # r => at'[q] = at[q] /\ got'[q] = got[q]
      BY <2>1, OutsideMoves
    <3>2. (at'[r] = "judge" => RefOf[r] = None) /\ (got'[r] = got[r] \/ got'[r] = None)
      BY <2>1, OutsideMoves
    <3> QED
      BY <1>j, <1>k, <1>o, <3>1, <3>2
  <2>2. CASE LoadGet(r)
    <3>1. r \in WithSet
      BY <2>2, LoaderHasSet
    <3>2. get(r) /\ at' = [at EXCEPT ![r] = IF Cached(Key(r)) THEN "judge" ELSE "do"]
      BY <2>2 DEF LoadGet, Moves
    <3>3. /\ \A q \in Requests : q # r => got'[q] = got[q]
          /\ Cached(Key(r)) => got'[r] # None /\ got'[r].content = Key(r)
          /\ ~Cached(Key(r)) => got'[r] = got[r]
      BY <3>1, <3>2, GetOwnCases DEF CasesInv
    <3>4. (\A q \in Requests : q # r => at'[q] = at[q]) /\ (~Cached(Key(r)) => at'[r] # "judge")
      BY <1>t, <3>2
    <3> QED
      BY <1>j, <1>k, <1>o, <3>1, <3>3, <3>4 DEF WithSet
  <2>3. CASE LoadDo(r)
    <3>1. r \in WithSet
      BY <2>3, LoaderHasSet
    <3>2. get(r) \/ UNCHANGED <<got, lru>>
      BY <2>3 DEF LoadDo
    <3>3. /\ \A q \in Requests : q # r => got'[q] = got[q]
          /\ got'[r] = got[r] \/ (got'[r] # None /\ got'[r].content = Key(r))
      BY <3>1, <3>2, GetOwnCases DEF CasesInv
    <3>4. at'[r] # "judge" /\ \A q \in Requests : q # r => at'[q] = at[q]
      BY <1>t, <2>3 DEF LoadDo, Moves
    <3> QED
      BY <1>j, <1>k, <1>o, <3>1, <3>3, <3>4 DEF WithSet
  <2>4. CASE Download(r)
    <3>1. r \in WithSet
      BY <2>4, LoaderHasSet
    <3>2. at'[r] # "judge" /\ \A q \in Requests : q # r => at'[q] = at[q]
      BY <1>t, <2>4 DEF Download, Moves
    <3>3. got' = [got EXCEPT ![r] = Archive(r, Key(r))] \/ got' = got
      BY <2>4 DEF Download, checksumMatches
    <3>4. Archive(r, Key(r)).content = Key(r)
      BY DEF Archive
    <3>5. /\ \A q \in Requests : q # r => got'[q] = got[q]
          /\ got'[r] = got[r] \/ got'[r].content = Key(r)
      BY <1>t, <3>3, <3>4
    <3> QED
      BY <1>j, <1>k, <1>o, <3>1, <3>2, <3>5 DEF WithSet
  <2>5. CASE Deliver(r)
    <3>1. r \in WithSet /\ Key(r) \in DOMAIN SizeOf
      BY <2>5, LoaderHasSet
    <3>2. \A q \in flights[Key(r)] : RefOf[q] # None /\ Key(q) = Key(r)
      BY <3>1 DEF PlaceInv, FlightsAreLoading
    <3>3. \A q \in Requests :
             /\ got'[q] = IF q \in flights[Key(r)] THEN got[r] ELSE got[q]
             /\ at'[q] = IF q \in flights[Key(r)] THEN IF got[r] = None THEN "dead" ELSE "judge" ELSE at[q]
      BY <2>5 DEF Deliver
    <3> QED
      BY <1>j, <1>k, <1>o, <3>2, <3>3
  <2> QED
    BY <1>2, <2>1, <2>2, <2>3, <2>4, <2>5 DEF RequestStep, OutsideLoader
<1>3. CASE Shutdown
  BY <1>3, <1>j, <1>k, <1>o DEF Shutdown
<1>4. CASE UNCHANGED vars
  BY <1>4, <1>j, <1>k, <1>o DEF vars
<1> QED
  BY <1>1, <1>2, <1>3, <1>4 DEF Next

\* A submission reaches the sandbox with the cases of the set its request
\* names, whoever of the requests in a flight downloaded them, whatever storage
\* returned and whatever the cache evicted (TestcaseCache.Load, LoadArchive).
THEOREM JudgedAgainstOwnSet == Spec => []JudgedAgainstItsSet
<1>1. Init => PlaceInv /\ CasesInv
  BY PlacesInitially DEF Init, CasesInv, OwnCases, JudgedAgainstItsSet
<1>2. PlaceInv /\ CasesInv /\ [Next]_vars => PlaceInv' /\ CasesInv'
  BY PlacesStep, CasesStep
<1>3. CasesInv => JudgedAgainstItsSet
  BY DEF CasesInv
<1> QED
  BY <1>1, <1>2, <1>3, PTL DEF Spec

-----------------------------------------------------------------------------
(* The slots *)

\* A loop asks for no more messages than there are slots, and holds no more.
BatchBound ==
    \A l \in Loops : loop[l].limit <= GlobalSlots /\ Len(loop[l].batch) <= GlobalSlots

\* The channels count the requests that hold their slots.
GlobalCount == globalUsed = Cardinality(GlobalHolders) /\ globalUsed <= GlobalSlots
LanguageCount ==
    \A k \in limiterLanguages :
        /\ languageUsed[k] = Cardinality(LanguageHolders(k))
        /\ languageUsed[k] <= LanguageSlots[k]

SlotInv == BatchBound /\ GlobalCount /\ LanguageCount

LEMMA SlotNumbers ==
    /\ GlobalSlots \in Int /\ GlobalSlots >= 1
    /\ \A k \in limiterLanguages : LanguageSlots[k] \in Int /\ LanguageSlots[k] > 0
BY HostAssumption DEF GlobalSlots, limiterLanguages

LEMMA HoldersFinite ==
    /\ IsFiniteSet(GlobalHolders) /\ Cardinality(GlobalHolders) \in Nat
    /\ \A k : IsFiniteSet(LanguageHolders(k)) /\ Cardinality(LanguageHolders(k)) \in Nat
<1>1. GlobalHolders \in SUBSET Requests /\ \A k : LanguageHolders(k) \in SUBSET Requests
  BY DEF GlobalHolders, LanguageHolders
<1>2. IsFiniteSet(GlobalHolders) /\ \A k : IsFiniteSet(LanguageHolders(k))
  BY <1>1, HostAssumption, FS_Subset
<1> QED
  BY <1>2, FS_CardinalityType

\* A loop's bounds hold when it turns with a smaller limit and a smaller batch.
LEMMA BoundKept ==
    ASSUME PlaceInv, BatchBound, NEW l \in Loops, NEW to, NEW limit \in Int, NEW batch,
           LoopTo(l, to, limit, batch), limit <= GlobalSlots, Len(batch) <= GlobalSlots
    PROVE  BatchBound'
<1>1. \A m \in Loops : loop'[m] = IF m = l THEN [at |-> to, limit |-> limit, batch |-> batch] ELSE loop[m]
  BY DEF PlaceInv, HostTypes, LoopTo
<1>2. loop'[l].limit = limit /\ loop'[l].batch = batch
  BY <1>1
<1>3. \A m \in Loops : m # l => loop'[m].limit = loop[m].limit /\ loop'[m].batch = loop[m].batch
  BY <1>1
<1> QED
  BY <1>2, <1>3 DEF BatchBound, GlobalSlots

LEMMA BatchBoundStep ==
    ASSUME PlaceInv, SlotInv, NEW l \in Loops, LoopStep(l)
    PROVE  BatchBound'
<1> USE SlotNumbers DEF SlotInv
<1>e. Len(<<>>) = 0 /\ 0 \in Int /\ 0 <= GlobalSlots /\ Len(<<>>) <= GlobalSlots
  OBVIOUS
<1>d. ASSUME NEW to, LoopTo(l, to, 0, <<>>)
      PROVE  BatchBound'
  BY <1>d, <1>e, BoundKept
<1>1. CASE LoopTop(l)
  <2>1. CASE LoopTo(l, "drain", 0, <<>>)
    BY <1>d, <2>1
  <2>2. CASE LoopTo(l, "consume", consumeLimit, <<>>)
    <3>1. globalUsed \in Nat
      BY HoldersFinite DEF GlobalCount
    <3>2. consumeLimit \in Int /\ consumeLimit <= GlobalSlots
      BY <3>1, HostAssumption DEF consumeLimit, Available
    <3> QED
      BY <1>e, <2>2, <3>2, BoundKept
  <2> QED
    BY <1>1, <2>1, <2>2 DEF LoopTop
<1>2. CASE Consume(l)
  <2>1. stream[l] \in Seq(Requests) /\ loop[l].limit \in Int /\ Len(stream[l]) \in Nat
    BY LoopTyped, LenProperties
  <2>2. PICK n \in 0..Min({loop[l].limit, Len(stream[l])}) : LoopTo(l, "acquire", 0, SubSeq(stream[l], 1, n))
    BY <1>2 DEF Consume
  <2>3. n \in 0..Len(stream[l]) /\ n <= loop[l].limit
    BY <2>1, <2>2, WithinLimit
  <2>4. Len(SubSeq(stream[l], 1, n)) = n
    BY <2>1, <2>3, Parts
  <2>5. Len(SubSeq(stream[l], 1, n)) <= GlobalSlots
    BY <2>1, <2>3, <2>4 DEF BatchBound
  <2> QED
    BY <1>e, <2>2, <2>5, BoundKept
<1>3. CASE ConsumeFails(l)
  BY <1>3, <1>d DEF ConsumeFails
<1>4. ASSUME loop[l].batch # <<>>, LoopTo(l, "acquire", 0, Tail(loop[l].batch))
      PROVE  BatchBound'
  <2>1. Len(Tail(loop[l].batch)) <= GlobalSlots
    BY <1>4, HeadOfBatch DEF BatchBound
  <2> QED
    BY <1>4, <1>e, <2>1, BoundKept
<1>5. CASE AcquireGlobal(l)
  <2>1. CASE UNCHANGED loop
    BY <2>1 DEF BatchBound, GlobalSlots
  <2>2. CASE Start(l, Head(loop[l].batch))
    BY <1>4, <1>5, <2>2 DEF Start, AcquireGlobal
  <2> QED
    BY <1>5, <2>1, <2>2 DEF AcquireGlobal
<1>6. CASE AcquireLanguage(l)
  BY <1>4, <1>6 DEF AcquireLanguage, Start
<1>7. CASE AcquireCanceled(l)
  BY <1>7, <1>d DEF AcquireCanceled
<1>8. CASE BatchDone(l)
  BY <1>8, <1>d DEF BatchDone
<1>9. CASE LoopReturns(l)
  BY <1>9, <1>d DEF LoopReturns
<1> QED
  BY <1>1, <1>2, <1>3, <1>5, <1>6, <1>7, <1>8, <1>9 DEF LoopStep

\* Moves within the places that hold the same slots change no count.
LEMMA SameHolders ==
    ASSUME GlobalCount, LanguageCount, UNCHANGED <<globalUsed, languageUsed>>,
           \A q \in Requests : at'[q] = at[q]
                               \/ (at[q] \in Serving /\ at'[q] \in Serving)
                               \/ (at[q] \notin Serving \cup {"language"} /\ at'[q] \notin Serving \cup {"language"})
    PROVE  GlobalCount' /\ LanguageCount'
<1>1. GlobalHolders' = GlobalHolders
  BY DEF GlobalHolders
<1>2. \A k : LanguageHolders(k)' = LanguageHolders(k)
  BY DEF LanguageHolders, Serving
<1>3. GlobalCount'
  BY <1>1 DEF GlobalCount, GlobalSlots
<1>4. LanguageCount'
  BY <1>2 DEF LanguageCount, limiterLanguages
<1> QED
  BY <1>3, <1>4

LEMMA AcquiredGlobal ==
    ASSUME PlaceInv, SlotInv, NEW l \in Loops, AcquireGlobal(l)
    PROVE  GlobalCount' /\ LanguageCount'
<1> DEFINE r == Head(loop[l].batch)
<1>1. /\ r \in Requests /\ at[r] = "batch" /\ globalUsed < GlobalSlots
      /\ globalUsed' = globalUsed + 1 /\ languageUsed' = languageUsed
  BY HeadOfBatch DEF AcquireGlobal
<1>2. at' = [at EXCEPT ![r] = IF HasLanguageSlots(r) THEN "language" ELSE "source"]
  BY DEF AcquireGlobal, Start
<1>t. at \in [Requests -> Places]
  BY DEF PlaceInv, HostTypes
<1> HIDE DEF r
<1>3. r \notin GlobalHolders /\ GlobalHolders' = GlobalHolders \cup {r}
  BY <1>1, <1>2, <1>t DEF GlobalHolders, Serving
<1>4. Cardinality(GlobalHolders)' = Cardinality(GlobalHolders) + 1
  BY <1>3, HoldersFinite, FS_AddElement
<1>5. GlobalCount'
  BY <1>1, <1>4, HoldersFinite, SlotNumbers DEF SlotInv, GlobalCount, GlobalSlots
<1>6. \A k \in limiterLanguages : LanguageHolders(k)' = LanguageHolders(k)
  BY <1>1, <1>2, <1>t DEF LanguageHolders, Serving, HasLanguageSlots
<1>7. LanguageCount'
  BY <1>1, <1>6 DEF SlotInv, LanguageCount, limiterLanguages
<1> QED
  BY <1>5, <1>7

LEMMA AcquiredLanguage ==
    ASSUME PlaceInv, SlotInv, NEW l \in Loops, AcquireLanguage(l)
    PROVE  GlobalCount' /\ LanguageCount'
<1>0. PICK r \in Requests : r = Head(loop[l].batch)
  BY HeadOfBatch DEF AcquireLanguage
<1> DEFINE k == LanguageOf[r]
<1>1. /\ r \in Requests /\ at[r] = "language" /\ languageUsed[k] < LanguageSlots[k]
      /\ globalUsed' = globalUsed /\ languageUsed' = [languageUsed EXCEPT ![k] = @ + 1]
      /\ at' = [at EXCEPT ![r] = "source"]
  BY <1>0 DEF AcquireLanguage, Start
<1>t. at \in [Requests -> Places] /\ languageUsed \in [limiterLanguages -> Int]
  BY DEF PlaceInv, HostTypes
<1>2. k \in limiterLanguages
  BY <1>1 DEF PlaceInv, WaitersHaveSlots, HasLanguageSlots
<1>3. GlobalHolders' = GlobalHolders
  BY <1>1, <1>t DEF GlobalHolders, Serving
<1>4. GlobalCount'
  BY <1>1, <1>3 DEF SlotInv, GlobalCount, GlobalSlots
<1>5. r \notin LanguageHolders(k) /\ LanguageHolders(k)' = LanguageHolders(k) \cup {r}
  BY <1>1, <1>t DEF LanguageHolders, Serving
<1>6. \A m \in limiterLanguages : m # k => LanguageHolders(m)' = LanguageHolders(m)
  BY <1>1, <1>t DEF LanguageHolders, Serving
<1> HIDE DEF k
<1>7. Cardinality(LanguageHolders(k)') = Cardinality(LanguageHolders(k)) + 1
  BY <1>5, HoldersFinite, FS_AddElement
<1>8. languageUsed'[k] = languageUsed[k] + 1 /\ \A m \in limiterLanguages : m # k => languageUsed'[m] = languageUsed[m]
  BY <1>1, <1>2, <1>t
<1>9. \A m \in limiterLanguages :
         languageUsed'[m] = Cardinality(LanguageHolders(m)') /\ languageUsed'[m] <= LanguageSlots[m]
  <2> TAKE m \in limiterLanguages
  <2>1. languageUsed[m] = Cardinality(LanguageHolders(m)) /\ languageUsed[m] <= LanguageSlots[m]
    BY DEF SlotInv, LanguageCount
  <2>2. CASE m = k
    BY <1>1, <1>2, <1>7, <1>8, <1>t, <2>1, <2>2, SlotNumbers
  <2>3. CASE m # k
    BY <1>6, <1>8, <2>1, <2>3
  <2> QED
    BY <2>2, <2>3
<1> QED
  BY <1>4, <1>9 DEF LanguageCount, limiterLanguages

LEMMA CanceledAcquire ==
    ASSUME PlaceInv, SlotInv, NEW l \in Loops, AcquireCanceled(l)
    PROVE  GlobalCount' /\ LanguageCount'
<1> DEFINE r == Head(loop[l].batch)
<1>1. /\ r \in Requests /\ at[r] \in {"batch", "language"}
      /\ globalUsed' = globalUsed - returned(r) /\ languageUsed' = languageUsed
      /\ at' = [at EXCEPT ![r] = "batch"]
  BY HeadOfBatch DEF AcquireCanceled
<1>t. at \in [Requests -> Places] /\ globalUsed \in Int
  BY DEF PlaceInv, HostTypes
<1> HIDE DEF r
<1>2. CASE at[r] = "batch"
  <2>1. globalUsed' = globalUsed
    BY <1>1, <1>2, <1>t DEF returned
  <2>2. \A q \in Requests : at'[q] = at[q]
    BY <1>1, <1>2, <1>t
  <2> QED
    BY <1>1, <2>1, <2>2, SameHolders DEF SlotInv
<1>3. CASE at[r] = "language"
  <2>1. globalUsed' = globalUsed - 1
    BY <1>1, <1>3 DEF returned
  <2>2. r \in GlobalHolders /\ GlobalHolders' = GlobalHolders \ {r}
    BY <1>1, <1>3, <1>t DEF GlobalHolders, Serving
  <2>3. Cardinality(GlobalHolders)' = Cardinality(GlobalHolders) - 1
    BY <2>2, HoldersFinite, FS_RemoveElement
  <2>4. GlobalCount'
    BY <2>1, <2>3, HoldersFinite, SlotNumbers DEF SlotInv, GlobalCount, GlobalSlots
  <2>5. \A k : LanguageHolders(k)' = LanguageHolders(k)
    BY <1>1, <1>3, <1>t DEF LanguageHolders, Serving
  <2>6. LanguageCount'
    BY <1>1, <2>5 DEF SlotInv, LanguageCount, limiterLanguages
  <2> QED
    BY <2>4, <2>6
<1> QED
  BY <1>1, <1>2, <1>3

LEMMA Released ==
    ASSUME PlaceInv, SlotInv, NEW r \in Requests, release(r)
    PROVE  GlobalCount' /\ LanguageCount'
<1> DEFINE k == LanguageOf[r]
<1>1. /\ at[r] = "release" /\ at' = [at EXCEPT ![r] = "ended"]
      /\ globalUsed' = globalUsed - 1 /\ languageUsed' = freed(r)
  BY DEF release, Moves
<1>t. at \in [Requests -> Places] /\ languageUsed \in [limiterLanguages -> Int] /\ globalUsed \in Int
  BY DEF PlaceInv, HostTypes
<1>2. r \in GlobalHolders /\ GlobalHolders' = GlobalHolders \ {r}
  BY <1>1, <1>t DEF GlobalHolders, Serving
<1>3. Cardinality(GlobalHolders)' = Cardinality(GlobalHolders) - 1
  BY <1>2, HoldersFinite, FS_RemoveElement
<1>4. GlobalCount'
  BY <1>1, <1>3, HoldersFinite, SlotNumbers DEF SlotInv, GlobalCount, GlobalSlots
<1>5. r \in LanguageHolders(k) /\ LanguageHolders(k)' = LanguageHolders(k) \ {r}
  BY <1>1, <1>t DEF LanguageHolders, Serving
<1>6. \A m \in limiterLanguages : m # k => LanguageHolders(m)' = LanguageHolders(m)
  BY <1>1, <1>t DEF LanguageHolders, Serving
<1>7. Cardinality(LanguageHolders(k)') = Cardinality(LanguageHolders(k)) - 1
  <2> HIDE DEF k
  <2> QED
    BY <1>5, HoldersFinite, FS_RemoveElement
<1>8. /\ k \in limiterLanguages => languageUsed'[k] = languageUsed[k] - 1
      /\ \A m \in limiterLanguages : m # k => languageUsed'[m] = languageUsed[m]
  BY <1>1, <1>t DEF freed, HasLanguageSlots
<1> HIDE DEF k
<1>9. \A m \in limiterLanguages :
         languageUsed'[m] = Cardinality(LanguageHolders(m)') /\ languageUsed'[m] <= LanguageSlots[m]
  <2> TAKE m \in limiterLanguages
  <2>1. languageUsed[m] = Cardinality(LanguageHolders(m)) /\ languageUsed[m] <= LanguageSlots[m]
    BY DEF SlotInv, LanguageCount
  <2>2. CASE m = k
    BY <1>7, <1>8, <1>t, <2>1, <2>2, SlotNumbers
  <2>3. CASE m # k
    BY <1>6, <1>8, <2>1, <2>3
  <2> QED
    BY <2>2, <2>3
<1> QED
  BY <1>4, <1>9 DEF LanguageCount, limiterLanguages

LEMMA SlotStep ==
    ASSUME PlaceInv, SlotInv, [Next]_vars
    PROVE  SlotInv'
<1> USE DEF slots
<1>1. ASSUME NEW l \in Loops, LoopStep(l)
      PROVE  SlotInv'
  <2>1. BatchBound'
    BY <1>1, BatchBoundStep
  <2>2. CASE AcquireGlobal(l) \/ AcquireLanguage(l) \/ AcquireCanceled(l)
    BY <2>1, <2>2, AcquiredGlobal, AcquiredLanguage, CanceledAcquire DEF SlotInv
  <2>3. CASE ~(AcquireGlobal(l) \/ AcquireLanguage(l) \/ AcquireCanceled(l))
    <3>1. UNCHANGED <<globalUsed, languageUsed>>
      BY <1>1, <2>3 DEF LoopStep, LoopTop, Consume, ConsumeFails, BatchDone, LoopReturns
    <3>2. at' = at \/ Consume(l)
      BY <1>1, <2>3 DEF LoopStep, LoopTop, ConsumeFails, BatchDone, LoopReturns
    <3>3. Consume(l) => \A q \in Requests : at'[q] = at[q] \/ (at[q] = "stream" /\ at'[q] = "batch")
      BY ConsumeTakesStreamed
    <3> QED
      BY <2>1, <3>1, <3>2, <3>3, SameHolders DEF SlotInv, Serving
  <2> QED
    BY <2>2, <2>3
<1>2. ASSUME NEW r \in Requests, RequestStep(r)
      PROVE  SlotInv'
  <2>1. ServedOnly
    BY <1>2, RequestsServed
  <2>2. BatchBound'
    BY <2>1 DEF SlotInv, BatchBound, GlobalSlots, ServedOnly
  <2>3. CASE release(r)
    BY <2>2, <2>3, Released DEF SlotInv
  <2>4. CASE ~release(r)
    <3>1. UNCHANGED <<globalUsed, languageUsed>>
      BY <1>2, <2>4 DEF RequestStep, Source, LoadGet, LoadDo, Download, Deliver, Judge,
                        publishAsyncResult, Ack, DeadLetter, DeadAck
    <3>2. \A q \in Requests : at'[q] # "ended" \/ at'[q] = at[q]
      <4>t. at \in [Requests -> Places]
        BY DEF PlaceInv, HostTypes
      <4>1. CASE Deliver(r)
        BY <4>1 DEF Deliver
      <4>2. CASE ~Deliver(r)
        BY <1>2, <2>4, <4>2, <4>t DEF RequestStep, Source, LoadGet, LoadDo, Download, Judge, Moves,
                        publishAsyncResult, afterPublishError, Ack, DeadLetter, DeadAck
      <4> QED
        BY <4>1, <4>2
    <3> QED
      BY <2>1, <2>2, <3>1, <3>2, SameHolders DEF SlotInv, ServedOnly
  <2> QED
    BY <2>3, <2>4
<1>3. ASSUME UNCHANGED <<loop, globalUsed, languageUsed, at>>
      PROVE  SlotInv'
  BY <1>3, SameHolders DEF SlotInv, BatchBound, GlobalSlots
<1>4. CASE Shutdown
  BY <1>3, <1>4 DEF Shutdown
<1>5. CASE UNCHANGED vars
  BY <1>3, <1>5 DEF vars
<1> QED
  BY <1>1, <1>2, <1>4, <1>5 DEF Next

\* The slot channels count exactly the requests that hold a slot and never
\* exceed their capacity, and a loop never holds more messages than there are
\* slots, whatever fails or is canceled (Acquire, release, runJudgeAgentLoop).
THEOREM SlotsStayAccounted == Spec => []SlotsAccounted
<1>1. Init => PlaceInv /\ SlotInv
  <2> SUFFICES ASSUME Init
               PROVE  PlaceInv /\ SlotInv
    OBVIOUS
  <2>1. GlobalHolders = {} /\ \A k : LanguageHolders(k) = {}
    BY DEF Init, GlobalHolders, LanguageHolders, Serving
  <2>2. GlobalCount /\ LanguageCount
    <3>1. Cardinality({}) = 0 /\ globalUsed = 0 /\ \A k \in limiterLanguages : languageUsed[k] = 0
      BY FS_EmptySet DEF Init
    <3> QED
      BY <2>1, <3>1, SlotNumbers DEF GlobalCount, LanguageCount
  <2>3. BatchBound
    BY SlotNumbers DEF Init, BatchBound
  <2> QED
    BY <2>2, <2>3, PlacesInitially DEF SlotInv
<1>2. PlaceInv /\ SlotInv /\ [Next]_vars => PlaceInv' /\ SlotInv'
  BY PlacesStep, SlotStep
<1>3. SlotInv => SlotsAccounted
  BY DEF SlotInv, BatchBound, GlobalCount, LanguageCount, SlotsAccounted
<1> QED
  BY <1>1, <1>2, <1>3, PTL DEF Spec

-----------------------------------------------------------------------------
(* The bytes of the cache *)

LEMMA GetKeepsBudget ==
    ASSUME PlaceInv, CacheWithinBudget, NEW r \in Requests, get(r), currentBytes' = currentBytes
    PROVE  CacheWithinBudget'
<1>t. lru \in Seq(CacheEntry)
  BY DEF PlaceInv, HostTypes
<1>1. CASE Cached(Key(r))
  <2>1. PICK e \in 1..Len(lru) : lru' = <<lru[e]>> \o RemoveAt(lru, e)
    BY <1>1, <1>t, CachedEntry DEF get, toFront
  <2>2. /\ Len(lru') = Len(lru) /\ DOMAIN lru' = 1..Len(lru)
        /\ \A j \in 1..Len(lru) : Moved(j, e) \in 1..Len(lru) /\ lru'[j] = lru[Moved(j, e)]
        /\ bytesOf(lru') = bytesOf(lru)
    BY <1>t, <2>1, MoveToFront
  <2>3. DOMAIN lru = 1..Len(lru) /\ Len(lru) \in Nat
    BY <1>t, LenProperties
  <2>4. \A i, j \in 1..Len(lru) : Moved(i, e) = Moved(j, e) => i = j
    BY <2>3 DEF Moved
  <2>5. \A i, j \in DOMAIN lru' : lru'[i].key = lru'[j].key => i = j
    <3> SUFFICES ASSUME NEW i \in DOMAIN lru', NEW j \in DOMAIN lru', lru'[i].key = lru'[j].key
                 PROVE  i = j
      OBVIOUS
    <3>1. /\ i \in 1..Len(lru) /\ j \in 1..Len(lru)
          /\ Moved(i, e) \in DOMAIN lru /\ Moved(j, e) \in DOMAIN lru
          /\ lru[Moved(i, e)].key = lru[Moved(j, e)].key
      BY <2>2, <2>3
    <3>2. Moved(i, e) = Moved(j, e)
      BY <3>1 DEF CacheWithinBudget
    <3> QED
      BY <2>4, <3>1, <3>2
  <2>6. bytesOf(lru)' = bytesOf(lru')
    BY DEF bytesOf
  <2> QED
    BY <2>2, <2>5, <2>6 DEF CacheWithinBudget
<1>2. CASE ~Cached(Key(r))
  BY <1>2 DEF get, CacheWithinBudget, bytesOf
<1> QED
  BY <1>1, <1>2

LEMMA PutKeepsBudget ==
    ASSUME PlaceInv, CacheWithinBudget, NEW r \in WithSet, put(Key(r), Archive(r, Key(r)))
    PROVE  CacheWithinBudget'
<1> DEFINE k == Key(r)
           e == [key |-> Key(r), cases |-> Archive(r, Key(r))]
<1>t. lru \in Seq(CacheEntry) /\ currentBytes \in Int
  BY DEF PlaceInv, HostTypes
<1>1. CASE SizeOf[k] > MaxBytes \/ Cached(k)
  <2>1. UNCHANGED <<lru, currentBytes>>
    BY <1>1 DEF put
  <2> QED
    BY <2>1 DEF CacheWithinBudget, bytesOf
<1>2. CASE ~(SizeOf[k] > MaxBytes \/ Cached(k))
  <2>1. PICK n \in 0..Len(lru) :
           /\ lru' = <<e>> \o SubSeq(lru, 1, n) /\ currentBytes' = remainingBytes(n) + SizeOf[k]
           /\ n = 0 \/ remainingBytes(n) + SizeOf[k] <= MaxBytes
    BY <1>2, <1>t, EvictedToFits DEF put
  <2>2. e \in CacheEntry /\ e.key = k
    BY DEF CacheEntry
  <2>3. ~Cached(k) /\ ~(SizeOf[k] > MaxBytes) /\ SizeOf[k] \in Nat /\ MaxBytes \in Nat
    BY <1>2, KeysAreSets, HostAssumption
  <2> DEFINE kept == SubSeq(lru, 1, n)
             rest == SubSeq(lru, n + 1, Len(lru))
             one == <<e>>
  <2> HIDE DEF e
  <2>4. /\ kept \in Seq(CacheEntry) /\ Len(kept) = n /\ \A i \in 1..n : kept[i] = lru[i]
        /\ rest \in Seq(CacheEntry)
    BY <1>t, Parts
  <2>5. bytesOf(lru) = bytesOf(kept) + bytesOf(rest)
    BY <1>t, BytesOfParts
  <2>6. one \in Seq(CacheEntry) /\ bytesOf(one) = SizeOf[k] /\ Len(one) = 1 /\ one[1] = e
    BY <2>2, BytesOfOne
  <2>7. remainingBytes(n) = currentBytes - bytesOf(rest) /\ lru' = one \o kept
    BY <2>1 DEF remainingBytes
  <2> HIDE DEF kept, rest, one
  <2>8. bytesOf(kept) \in Nat /\ bytesOf(rest) \in Nat
    BY <2>4, SumsByEntry
  <2>9. remainingBytes(n) = bytesOf(kept)
    BY <2>5, <2>7, <2>8 DEF CacheWithinBudget
  <2>10. bytesOf(lru') = SizeOf[k] + bytesOf(kept)
    BY <2>4, <2>6, <2>7, BytesOfConcat
  <2>11. currentBytes' = bytesOf(lru')
    BY <2>1, <2>3, <2>8, <2>9, <2>10
  <2>12. currentBytes' <= MaxBytes
    <3>1. CASE n = 0
      <4>1. bytesOf(kept) = 0
        BY <2>4, <3>1, SumsByEntry
      <4> QED
        BY <2>1, <2>3, <2>9, <4>1
    <3>2. CASE n # 0
      BY <2>1, <3>2
    <3> QED
      BY <3>1, <3>2
  <2>13. Len(lru) \in Nat /\ DOMAIN lru = 1..Len(lru) /\ n \in Nat
    BY <1>t, LenProperties
  <2>14. /\ DOMAIN lru' = 1..(n + 1) /\ lru'[1] = e
         /\ \A i \in 2..(n + 1) : lru'[i] = lru[i - 1] /\ i - 1 \in DOMAIN lru
    <3>1. /\ lru' \in Seq(CacheEntry) /\ Len(lru') = 1 + n
          /\ \A i \in 1..(1 + n) : lru'[i] = IF i <= 1 THEN one[i] ELSE kept[i - 1]
      <4>1. /\ lru' \in Seq(CacheEntry) /\ Len(lru') = Len(one) + Len(kept)
            /\ \A i \in 1..(Len(one) + Len(kept)) :
                  lru'[i] = IF i <= Len(one) THEN one[i] ELSE kept[i - Len(one)]
        BY <2>4, <2>6, <2>7, ConcatProperties, Zenon
      <4> QED
        BY <2>4, <2>6, <4>1
    <3>2. DOMAIN lru' = 1..(n + 1)
      BY <2>13, <3>1, LenProperties
    <3>3. \A i \in 2..(n + 1) : i \in 1..(1 + n) /\ ~(i <= 1) /\ i - 1 \in 1..n /\ i - 1 \in 1..Len(lru)
      BY <2>13
    <3>4. 1 \in 1..(1 + n) /\ 1 <= 1
      BY <2>13
    <3> QED
      BY <2>4, <2>6, <2>13, <3>1, <3>2, <3>3, <3>4
  <2>15. \A i \in DOMAIN lru : lru[i].key # k
    BY <2>3 DEF Cached
  <2>16. \A i, j \in DOMAIN lru' : lru'[i].key = lru'[j].key => i = j
    <3> SUFFICES ASSUME NEW i \in 1..(n + 1), NEW j \in 1..(n + 1), lru'[i].key = lru'[j].key
                 PROVE  i = j
      BY <2>14
    <3>0. (i = 1 \/ i \in 2..(n + 1)) /\ (j = 1 \/ j \in 2..(n + 1))
      BY <2>13
    <3>1. CASE i = 1 /\ j = 1
      BY <3>1
    <3>2. CASE i = 1 /\ j \in 2..(n + 1)
      BY <2>2, <2>14, <2>15, <3>2
    <3>3. CASE i \in 2..(n + 1) /\ j = 1
      BY <2>2, <2>14, <2>15, <3>3
    <3>4. CASE i \in 2..(n + 1) /\ j \in 2..(n + 1)
      <4>0. i - 1 \in DOMAIN lru /\ j - 1 \in DOMAIN lru /\ lru[i - 1].key = lru[j - 1].key
        BY <2>14, <3>4
      <4>1. i - 1 = j - 1
        BY <4>0 DEF CacheWithinBudget
      <4> QED
        BY <3>4, <4>1
    <3> QED
      BY <3>0, <3>1, <3>2, <3>3, <3>4
  <2>17. bytesOf(lru)' = bytesOf(lru')
    BY DEF bytesOf
  <2> QED
    BY <2>11, <2>12, <2>16, <2>17 DEF CacheWithinBudget
<1> QED
  BY <1>1, <1>2

LEMMA BudgetStep ==
    ASSUME PlaceInv, CacheWithinBudget, [Next]_vars
    PROVE  CacheWithinBudget'
<1>0. ASSUME UNCHANGED <<lru, currentBytes>>
      PROVE  CacheWithinBudget'
  BY <1>0 DEF CacheWithinBudget, bytesOf
<1>1. ASSUME NEW l \in Loops, LoopStep(l)
      PROVE  CacheWithinBudget'
  BY <1>0, <1>1, LoopMoves
<1>2. ASSUME NEW r \in Requests, RequestStep(r)
      PROVE  CacheWithinBudget'
  <2>1. CASE OutsideLoader(r)
    BY <1>0, <2>1, OutsideMoves
  <2>2. CASE LoadGet(r)
    BY <2>2, GetKeepsBudget DEF LoadGet
  <2>3. CASE LoadDo(r)
    <3>1. (get(r) \/ UNCHANGED lru) /\ currentBytes' = currentBytes
      BY <2>3 DEF LoadDo
    <3> QED
      BY <1>0, <3>1, GetKeepsBudget
  <2>4. CASE Download(r)
    <3>1. r \in WithSet
      BY <2>4, LoaderHasSet
    <3>2. put(Key(r), Archive(r, Key(r))) \/ UNCHANGED <<lru, currentBytes>>
      BY <2>4 DEF Download, checksumMatches
    <3> QED
      BY <1>0, <3>1, <3>2, PutKeepsBudget
  <2>5. CASE Deliver(r)
    BY <1>0, <2>5 DEF Deliver
  <2> QED
    BY <1>2, <2>1, <2>2, <2>3, <2>4, <2>5 DEF RequestStep, OutsideLoader
<1>3. CASE Shutdown
  BY <1>0, <1>3 DEF Shutdown, cache
<1>4. CASE UNCHANGED vars
  BY <1>0, <1>4 DEF vars, cache
<1> QED
  BY <1>1, <1>2, <1>3, <1>4 DEF Next

\* The testcase cache holds one entry per set, counts exactly the bytes of its
\* entries and stays within its budget, however loads, hits and evictions
\* interleave (TestcaseCache.get, put).
THEOREM CacheStaysWithinBudget == Spec => []CacheWithinBudget
<1>1. Init => PlaceInv /\ CacheWithinBudget
  <2> SUFFICES ASSUME Init
               PROVE  CacheWithinBudget
    BY PlacesInitially
  <2>1. lru \in Seq(CacheEntry) /\ lru = <<>> /\ Len(lru) = 0 /\ currentBytes = 0
    BY EmptySeq DEF Init
  <2>2. bytesOf(lru) = 0
    BY <2>1, SumsByEntry
  <2> QED
    BY <2>1, <2>2, HostAssumption DEF CacheWithinBudget
<1>2. PlaceInv /\ CacheWithinBudget /\ [Next]_vars => PlaceInv' /\ CacheWithinBudget'
  BY PlacesStep, BudgetStep
<1> QED
  BY <1>1, <1>2, PTL DEF Spec

=============================================================================
