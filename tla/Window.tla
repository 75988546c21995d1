------------------------------- MODULE Window -------------------------------
(***************************************************************************)
(* The context window of one session (internal/service/memory/window.go).  *)
(*                                                                         *)
(* Messages are numbered in the order in which AppendToSession takes the   *)
(* session's lock, so the slice `sessionWindow.data` (oldest first) is     *)
(* the set of the numbers it holds: appending adds the largest number,     *)
(* and no operation reorders the slice.  IdOf gives a message the          *)
(* MessageID the protocol delivered: it is "" for message_id 0 and may be  *)
(* repeated, so it does not identify a message; the number does.           *)
(***************************************************************************)
EXTENDS Integers, FiniteSets

CONSTANTS WindowCap,        \* upper bound of the window (100 in the code)
          CompressionKeep,  \* messages one compression leaves (20)
          MaxMsgs,          \* bound of the model: messages that ever arrive
          IdOf              \* message number |-> MessageID

Msg == 1..MaxMsgs

ASSUME WindowAssumption ==
    /\ WindowCap \in Nat
    /\ CompressionKeep \in Nat \ {0}
    /\ CompressionKeep < WindowCap
    /\ MaxMsgs \in Nat
    /\ DOMAIN IdOf = Msg

\* Messages of one compression at most (compress.go: CompressBatch).
CompressBatch == WindowCap - CompressionKeep

\* The n newest and the n oldest entries of a window.
Newest(w, n) == {m \in w : Cardinality({k \in w : k > m}) < n}
Oldest(w, n) == {m \in w : Cardinality({k \in w : k < m}) < n}

\* AppendToSession: the window after m is appended, and its "full" result.
Appended(w, m) == Newest(w \cup {m}, WindowCap)
IsFull(w) == Cardinality(w) >= WindowCap

\* The batch a compression takes from its copy of the window: the oldest
\* messages, of which CompressionKeep stay behind.  Empty: too few messages.
BatchOf(w) ==
    LET surplus == Cardinality(w) - CompressionKeep
    IN  Oldest(w, IF surplus > CompressBatch THEN CompressBatch ELSE surplus)

\* Faults of RemoveByIDs, for the checks: the newest message of the batch stays; the
\* messages leave by their position.
KeepsNewestOfBatch(w, batch) ==
    {m \in w : \A b \in batch : IdOf[m] # IdOf[b] \/ \A k \in batch : k <= b}
RemoveByCount(w, batch) == w \ Oldest(w, Cardinality(batch))

\* RemoveByIDs: every message whose MessageID is one of the batch's goes.
RemoveByIDs(w, batch) == {m \in w : \A b \in batch : IdOf[m] # IdOf[b]}

=============================================================================
