--------------------------- MODULE CallbackProofs ---------------------------
(***************************************************************************)
(* What the callback wrapper does, for every batch size and every kind of  *)
(* item: the lemmas that the proofs about the enumerations share.          *)
(***************************************************************************)
EXTENDS EnumCallback, SequenceTheorems, TLAPS

(* What the closure's buffer holds between two calls of the wrapper: less  *)
(* than a batch, and nothing at all for a consumer of single items.        *)
Waiting ==
  /\ ~isBatch => buffer = <<>>
  /\ Len(buffer) < MaxBatch

(* Every call made to a batch consumer so far was a full batch. *)
AllFull == isBatch => \A i \in 1 .. Len(calls) : calls[i] = MaxBatch

(* Only the last call made to a batch consumer may have been a shorter one.*)
LastShort == isBatch => \A i \in 1 .. Len(calls) : calls[i] # MaxBatch => i = Len(calls)

(* A new wrapper holds nothing and has made no call. *)
LEMMA CallbackInitEffect ==
  ASSUME NEW S, CallbackInit
  PROVE  CallbackTypeOK(S) /\ Waiting /\ AllFull
<1>1. buffer = <<>> /\ received = <<>> /\ calls = <<>>
  BY DEF CallbackInit
<1>2. buffer \in Seq(S) /\ received \in Seq(S) /\ calls \in Seq(1 .. MaxBatch)
  BY <1>1, EmptySeq
<1>3. Len(buffer) < MaxBatch /\ \A i \in 1 .. Len(calls) : FALSE
  BY <1>1, BatchAssumption
<1> QED
  BY <1>1, <1>2, <1>3 DEF CallbackInit, CallbackTypeOK, Waiting, AllFull

(* What the wrapper does with one item, whatever the consumer answers: it  *)
(* hands over everything that is not yet handed over, or nothing; a batch  *)
(* it hands over is full; it answers a failure only for a consumer that    *)
(* has just failed, and then holds nothing.                                *)
LEMMA WrapEffect ==
  ASSUME NEW S, CallbackTypeOK(S), Waiting, NEW o \in S, NEW reply \in BOOLEAN,
         Wrap(o, reply)
  PROVE  /\ CallbackTypeOK(S)' /\ Waiting'
         /\ AllFull => AllFull'
         /\ received' \o buffer' = Append(received \o buffer, o)
         /\ isBatch' = isBatch /\ stopped' = (stopped \/ ~reply)
         /\ ~reply => buffer' = <<>>
         /\ \/ received' = received /\ stopped' = stopped
            \/ received' = Append(received \o buffer, o)
<1> USE BatchAssumption DEF CallbackTypeOK, Waiting
<1> DEFINE items == Append(buffer, o)
<1>1. /\ items \in Seq(S) /\ Len(items) \in 1 .. MaxBatch
      /\ received \o items = Append(received \o buffer, o)
  OBVIOUS
<1>2. CASE isBatch /\ Len(items) < MaxBatch
  <2>1. reply /\ Hold(items)
    BY <1>2 DEF Wrap
  <2> QED
    BY <1>1, <1>2, <2>1 DEF Hold, AllFull
<1>3. CASE ~(isBatch /\ Len(items) < MaxBatch)
  <2>1. /\ received' = received \o items
        /\ calls' = Append(calls, Len(items))
        /\ stopped' = (stopped \/ ~reply)
        /\ buffer' = <<>> /\ isBatch' = isBatch
    BY <1>3 DEF Wrap, HandOver, Callback
  <2>2. /\ received' \in Seq(S) /\ received' \o <<>> = received'
        /\ calls' \in Seq(1 .. MaxBatch)
        /\ stopped' \in BOOLEAN /\ buffer' \in Seq(S) /\ Len(buffer') = 0
    BY <1>1, <2>1
  <2>3. AllFull => AllFull'
    <3>1. isBatch => Len(items) = MaxBatch
      BY <1>1, <1>3
    <3> HIDE DEF items
    <3> QED
      BY <2>1, <3>1 DEF AllFull
  <2> QED
    BY <1>1, <2>1, <2>2, <2>3
<1> QED
  BY <1>2, <1>3

(* What the flush does: the consumer gets all that is not yet handed over. *)
(* With an empty buffer it is not called.                                  *)
LEMMA FlushEffect ==
  ASSUME NEW S, CallbackTypeOK(S), Waiting, Flush
  PROVE  /\ CallbackTypeOK(S)' /\ Waiting'
         /\ received' = received \o buffer
         /\ isBatch' = isBatch /\ buffer' = buffer
         /\ buffer = <<>> => UNCHANGED <<received, calls, stopped>>
         /\ AllFull => LastShort'
<1> USE DEF CallbackTypeOK, Waiting
<1>1. CASE buffer = <<>>
  <2>1. UNCHANGED <<isBatch, buffer, received, calls, stopped>>
    BY <1>1 DEF Flush, callbackVars
  <2>2. received \o buffer = received
    BY <1>1
  <2> QED
    BY <2>1, <2>2 DEF AllFull, LastShort
<1>2. CASE buffer # <<>>
  <2>1. PICK reply \in BOOLEAN : HandOver(buffer, buffer, reply)
    BY <1>2 DEF Flush
  <2>2. /\ received' = received \o buffer
        /\ calls' = Append(calls, Len(buffer))
        /\ stopped' = (stopped \/ ~reply)
        /\ buffer' = buffer /\ isBatch' = isBatch
    BY <2>1 DEF HandOver, Callback
  <2>3. Len(buffer) \in 1 .. MaxBatch
    BY <1>2, BatchAssumption
  <2>4. AllFull => LastShort'
    <3>1. Len(calls') = Len(calls) + 1 /\ \A j \in 1 .. Len(calls) : calls'[j] = calls[j]
      BY <2>2
    <3>2. \A i \in 1 .. Len(calls') : i \in 1 .. Len(calls) \/ i = Len(calls')
      BY <3>1
    <3> QED
      BY <2>2, <3>1, <3>2 DEF AllFull, LastShort
  <2> QED
    BY <1>2, <2>2, <2>3, <2>4
<1> QED
  BY <1>1, <1>2

(* One call of a consumer that is handed single items and nothing else. *)
LEMMA SingleCallEffect ==
  ASSUME NEW S, CallbackTypeOK(S), NEW o \in S, NEW reply \in BOOLEAN,
         Callback(<<o>>, reply), UNCHANGED <<isBatch, buffer>>, buffer = <<>>
  PROVE  /\ CallbackTypeOK(S)' /\ buffer' = <<>>
         /\ received' = Append(received, o)
         /\ isBatch' = isBatch /\ stopped' = (stopped \/ ~reply)
<1> USE DEF CallbackTypeOK
<1>1. /\ received' = received \o <<o>> /\ calls' = Append(calls, 1)
      /\ stopped' = (stopped \/ ~reply)
  BY DEF Callback
<1>2. received \o <<o>> = Append(received, o) /\ 1 \in 1 .. MaxBatch
  BY BatchAssumption
<1> QED
  BY <1>1, <1>2
=============================================================================
