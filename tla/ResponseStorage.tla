---------------------------- MODULE ResponseStorage ----------------------------
(***************************************************************************)
(* ResponseStorage of NetworkObserver.js: the bodies of finished responses,*)
(* in the order they were added, with a limit on each and on their sum.  A *)
(* body is its length; what is sent back for it is decoded elsewhere.      *)
(***************************************************************************)
EXTENDS Integers, Sequences

CONSTANTS MaxTotalSize, MaxResponseSize     \* _maxTotalSize, _maxResponseSize

ASSUME StorageAssumption ==
  /\ MaxTotalSize \in Nat /\ MaxResponseSize \in Nat
  /\ MaxResponseSize < MaxTotalSize

Stored(id, size, evicted) == [id |-> id, size |-> size, evicted |-> evicted]
EmptyStorage == [totalSize |-> 0, responses |-> <<>>]

\* Map.set: a key that is present keeps its place.
SetResponse(responses, response) ==
  IF \E i \in DOMAIN responses : responses[i].id = response.id
    THEN [i \in DOMAIN responses |->
            IF responses[i].id = response.id THEN response ELSE responses[i]]
    ELSE Append(responses, response)

TotalOf(responses) ==
  LET total[i \in 0..Len(responses)] ==
        IF i = 0 THEN 0 ELSE total[i - 1] + responses[i].size
  IN total[Len(responses)]

\* The first n bodies are dropped; what they took is subtracted.
Dropped(storage, n) ==
  [totalSize |-> storage.totalSize - TotalOf(SubSeq(storage.responses, 1, n)),
   responses |-> [i \in DOMAIN storage.responses |->
                    IF i > n THEN storage.responses[i]
                    ELSE Stored(storage.responses[i].id, 0, TRUE)]]

\* Faulty variant: drops every body.
EvictedAll(storage) ==
  IF storage.totalSize <= MaxTotalSize THEN storage
  ELSE Dropped(storage, Len(storage.responses))

\* The loop over the responses, from the oldest on, until they fit.
Evicted(storage) ==
  IF storage.totalSize <= MaxTotalSize THEN storage
  ELSE LET enough == {n \in DOMAIN storage.responses :
                        Dropped(storage, n).totalSize < MaxTotalSize}
       IN Dropped(storage, IF enough = {} THEN Len(storage.responses)
                           ELSE CHOOSE n \in enough : \A m \in enough : n <= m)

\* addResponseBody.  Only a body that is kept counts.
AddResponseBody(storage, id, size) ==
  IF size > MaxResponseSize
    THEN [storage EXCEPT !.responses = SetResponse(@, Stored(id, 0, TRUE))]
    ELSE Evicted([totalSize |-> storage.totalSize + size,
                  responses |-> SetResponse(storage.responses, Stored(id, size, FALSE))])
=============================================================================
