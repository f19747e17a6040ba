---------------------------- MODULE EnumCallback ----------------------------
(***************************************************************************)
(* GetEnumCallbackWrapper (SDbgExt/EnumAdaptors.h): the function object    *)
(* that stands between an enumeration and its consumer.  When the consumer *)
(* implements the batch interface, items wait in the closure's buffer      *)
(* until there are MaxBatch of them; otherwise every item is a call.       *)
(*                                                                         *)
(* The operators are parts of the actions of the enumerations.  reply is   *)
(* the consumer's answer to Callback: TRUE for success, FALSE for a        *)
(* failure HRESULT.  Where the wrapper does not call the consumer its own  *)
(* answer is a success.                                                    *)
(***************************************************************************)
EXTENDS Naturals, Sequences

CONSTANT MaxBatch     (* maxBufferSize                                     *)

ASSUME BatchAssumption == MaxBatch \in Nat \ {0}

VARIABLES
  isBatch,   (* the consumer implements the batch interface                *)
  buffer,    (* the closure's vector                                       *)
  received,  (* every item handed to the consumer, in order                *)
  calls,     (* the sizes of the calls made to the consumer, in order      *)
  stopped    (* the consumer has answered a call with a failure            *)

callbackVars == <<isBatch, buffer, received, calls, stopped>>

CallbackInit ==
  /\ isBatch \in BOOLEAN
  /\ buffer = <<>>
  /\ received = <<>>
  /\ calls = <<>>
  /\ stopped = FALSE

(* One call of the consumer's Callback. *)
Callback(items, reply) ==
  /\ received' = received \o items
  /\ calls' = Append(calls, Len(items))
  /\ stopped' = (stopped \/ ~reply)

Hold(items) ==
  /\ buffer' = items
  /\ UNCHANGED <<isBatch, received, calls, stopped>>

HandOver(items, rest, reply) ==
  /\ Callback(items, reply)
  /\ buffer' = rest
  /\ UNCHANGED isBatch

\* Slips of Wrap and Flush: one item too many in a batch, a buffer that
\* survives a failed call, the item that fills the buffer left out of the
\* call, the last incomplete batch forgotten.
WrapOneTooMany(item, reply) ==
  LET items == Append(buffer, item) IN
  IF isBatch /\ Len(buffer) < MaxBatch THEN reply /\ Hold(items)
                                       ELSE HandOver(items, <<>>, reply)
WrapKeepsFailed(item, reply) ==
  LET items == Append(buffer, item) IN
  IF isBatch /\ Len(items) < MaxBatch THEN reply /\ Hold(items)
                                      ELSE HandOver(items, IF reply THEN <<>> ELSE items, reply)
WrapDropsLast(item, reply) ==
  LET items == Append(buffer, item) IN
  IF isBatch /\ Len(items) < MaxBatch THEN reply /\ Hold(items)
                                      ELSE HandOver(buffer, <<>>, reply)
FlushNever == UNCHANGED callbackVars

(* cbWrapper(item, FALSE) answers reply.  The wrapper of a consumer that   *)
(* takes one item at a time never holds any.                               *)
Wrap(item, reply) ==
  LET items == Append(buffer, item) IN
  IF isBatch /\ Len(items) < MaxBatch THEN reply /\ Hold(items)
                                      ELSE HandOver(items, <<>>, reply)

(* cbWrapper(junk, TRUE): its callers do not look at the answer, and the   *)
(* buffer, which is not cleared, is not used again.                        *)
Flush ==
  IF buffer # <<>> THEN \E reply \in BOOLEAN : HandOver(buffer, buffer, reply)
                   ELSE UNCHANGED callbackVars

-----------------------------------------------------------------------------
CallbackTypeOK(Item) ==
  /\ isBatch \in BOOLEAN
  /\ buffer \in Seq(Item)
  /\ received \in Seq(Item)
  /\ calls \in Seq(1 .. MaxBatch)
  /\ stopped \in BOOLEAN
=============================================================================
