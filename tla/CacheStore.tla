----------------------------- MODULE CacheStore -----------------------------
(***************************************************************************)
(* What storage/flash_storage.h promises its only client, cache_task: a    *)
(* bounded first-in first-out store of payloads.  The client fetches the   *)
(* oldest entry, publishes it, and only then takes it out.  A full store   *)
(* gives up its DropSize oldest entries at once and counts them, and the   *)
(* client may take that count to report it, or give it back.               *)
(*                                                                         *)
(* FlashStorage implements this module (see FlashStorage!Store).           *)
(***************************************************************************)
EXTENDS Naturals, Sequences

CONSTANTS
  Payload,      \* the payloads a client can store
  NoEntry,      \* no payload is in the client's hands
  Capacity,     \* entries the store holds
  DropSize,     \* entries a full store gives up at once
  CounterMod    \* the loss counter is kept modulo this

VARIABLES
  queue,        \* the pending payloads, oldest first
  hand,         \* the payload the client is publishing, or NoEntry
  lost,         \* entries given up and not yet taken for a report
  taken         \* the loss count the client is reporting

vars == <<queue, hand, lost, taken>>

Init ==
  /\ queue = <<>>
  /\ hand = NoEntry
  /\ lost = 0
  /\ taken = 0

Put(p) ==
  /\ hand = NoEntry
  /\ Len(queue) < Capacity
  /\ queue' = Append(queue, p)
  /\ UNCHANGED <<hand, lost, taken>>

DropOldest ==
  /\ hand = NoEntry
  /\ Len(queue) = Capacity
  /\ queue' = SubSeq(queue, DropSize + 1, Capacity)
  /\ lost' = (lost + DropSize) % CounterMod
  /\ UNCHANGED <<hand, taken>>

Fetch ==
  /\ queue # <<>>
  /\ hand' = Head(queue)
  /\ UNCHANGED <<queue, lost, taken>>

Deliver ==
  /\ hand # NoEntry
  /\ queue' = Tail(queue)
  /\ hand' = NoEntry
  /\ UNCHANGED <<lost, taken>>

Retry ==
  /\ hand' = NoEntry
  /\ UNCHANGED <<queue, lost, taken>>

Take ==
  /\ taken' = lost
  /\ lost' = 0
  /\ UNCHANGED <<queue, hand>>

Reported ==
  /\ taken' = 0
  /\ UNCHANGED <<queue, hand, lost>>

GiveBack ==
  /\ lost' = (lost + taken) % CounterMod
  /\ taken' = 0
  /\ UNCHANGED <<queue, hand>>

Next ==
  \/ \E p \in Payload : Put(p)
  \/ DropOldest
  \/ Fetch
  \/ Deliver
  \/ Retry
  \/ Take
  \/ Reported
  \/ GiveBack

Spec == Init /\ [][Next]_vars
=============================================================================
