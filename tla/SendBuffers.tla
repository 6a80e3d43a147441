----------------------------- MODULE SendBuffers -----------------------------
(***************************************************************************)
(* What one worker sends to others (comm/outBufferQ.cpp), with its use for *)
(* subproblems (deliverSP in pbb/pbWorker.cpp, pbb/spReceiver.cpp).  A     *)
(* message to a processor gathers several segments, one for each           *)
(* subproblem; the processors whose message is not full form a linked      *)
(* list.  MPI may read a buffer until the send has completed; then the     *)
(* buffer is used again.  A receiver has to be warned of a message that    *)
(* its own buffer cannot hold.                                             *)
(***************************************************************************)
EXTENDS Integers, Sequences, FiniteSets, SequencesExt, Functions

CONSTANTS
  Dest,         \* the processors that are sent subproblems
  Size,         \* packed sizes of segments, in integers
  MaxSegments,  \* maxSPPacking
  ScavengeSize, \* how many sends a queue has before it looks for a buffer
  SPReceiveBuf, \* the size of the receivers' buffers at the start
  MaxWritten    \* bound on the number of subproblems sent

noProcessor == -1

BufferAssumption ==
  /\ noProcessor \notin Dest /\ Size \subseteq Nat
  /\ {MaxSegments, ScavengeSize, SPReceiveBuf} \subseteq Nat \ {0}

VARIABLES
  buffer,       \* [Dest -> the buffer that is being filled]
  segmentsUsed, \* [Dest -> how many segments it has]
  firstProc, nextProc, prevProc,  \* the list of those that have any
  heap,         \* contents of all buffers; all sends; the queues of sends
  completed,    \* the sends that MPI has done
  knownBufferSize, bufferSize,  \* [Dest -> Nat], here and at the receiver
  received,     \* [Dest -> the subproblems that have come]
  written       \* how many subproblems have been sent, to each

list == <<segmentsUsed, firstProc, nextProc, prevProc>>
vars == <<buffer, list, heap, completed, knownBufferSize, bufferSize, received, written>>

Init ==
  /\ buffer = [d \in Dest |-> 0] /\ segmentsUsed = [d \in Dest |-> 0]
  /\ firstProc = noProcessor
  /\ nextProc = [d \in Dest |-> noProcessor] /\ prevProc = nextProc
  /\ heap = [content |-> <<>>, sends |-> <<>>, deliver |-> <<>>, aux |-> <<>>]
  /\ completed = {}
  /\ knownBufferSize = [d \in Dest |-> SPReceiveBuf] /\ bufferSize = knownBufferSize
  /\ received = [d \in Dest |-> <<>>] /\ written = [d \in Dest |-> 0]

-----------------------------------------------------------------------------
(***************************************************************************)
(* A queue of sends: "deliver" for subproblems and "aux" for warnings.     *)
(***************************************************************************)
\* Mutant: the oldest buffer is taken although its send has not completed.
Oldest(h, q) == DOMAIN h[q]

Reusable(h, q) == {i \in DOMAIN h[q] : h[q][i] \in completed}

\* getFree: the heap after the call, with the buffer as "free".  The first send
\* that has completed gives its buffer if there are many.
GetFree(h, q) ==
  IF Len(h[q]) >= ScavengeSize /\ Reusable(h, q) # {}
  THEN LET i == CHOOSE j \in Reusable(h, q) : \A k \in Reusable(h, q) : j <= k
           b == h.sends[h[q][i]].buf
       IN  [free |-> b,
            heap |-> [h EXCEPT ![q] = RemoveAt(@, i), !.content[b] = <<>>]]
  ELSE [free |-> Len(h.content) + 1,
        heap |-> [h EXCEPT !.content = Append(@, <<>>)]]

Send(h, q, b, dest) ==
  [h EXCEPT !.sends = Append(@, [buf |-> b, to |-> dest]),
            ![q] = Append(@, Len(h.sends) + 1)]

-----------------------------------------------------------------------------
(***************************************************************************)
(* Lists of destinations.                                                  *)
(***************************************************************************)
Linked ==
  LET walk[n \in Nat] == IF n = 0 THEN firstProc
                         ELSE IF walk[n - 1] = noProcessor THEN noProcessor
                         ELSE nextProc[walk[n - 1]]
  IN  SelectSeq([n \in 1 .. Cardinality(Dest) |-> walk[n - 1]],
                LAMBDA d : d # noProcessor)

\* startSegmentBuffer puts a destination with a new buffer at the head.
LinkFirst(d) ==
  /\ nextProc' = [nextProc EXCEPT ![d] = firstProc]
  /\ prevProc' = [e \in Dest |-> IF e = firstProc THEN d
                                 ELSE IF e = d THEN noProcessor ELSE prevProc[e]]
  /\ firstProc' = d

\* sendOnly takes it out, wherever it is.
Unlink(d) ==
  /\ firstProc' = IF d = firstProc THEN nextProc[d] ELSE firstProc
  /\ nextProc' = [e \in Dest |-> IF e = d THEN noProcessor
                                 ELSE IF e = prevProc[d] THEN nextProc[d] ELSE nextProc[e]]
  /\ prevProc' = [e \in Dest |-> IF e = d THEN noProcessor
                                 ELSE IF e = nextProc[d] THEN prevProc[d] ELSE prevProc[e]]

-----------------------------------------------------------------------------
(***************************************************************************)
(* Packing and sending of subproblems.                                     *)
(***************************************************************************)
\* A signal, and each segment with its separator or the final marker.
MessageSize(segments) ==
  FoldLeft(LAMBDA n, s : n + s.size + 1, 1, segments)

MustWarn(bsize, d) == bsize > knownBufferSize[d]

\* If another segment of the average size would be too much, or the message is
\* full, it goes off at once.
SendNow(bsize, u, d) ==
  \/ bsize * (u + 1) > knownBufferSize[d] * u
  \/ u = MaxSegments

\* startPackingSP and finishDeliverSP, for a problem that goes to d.  Its buffer
\* goes into the list if it is a new one, and leaves it if it is sent.
DeliverSP(d, size) ==
  LET fresh    == segmentsUsed[d] = 0
      got      == IF fresh THEN GetFree(heap, "deliver")
                  ELSE [free |-> buffer[d], heap |-> heap]
      segment  == [number |-> written[d] + 1, size |-> size]
      packed   == [got.heap EXCEPT !.content[got.free] = Append(@, segment)]
      bsize    == MessageSize(packed.content[got.free])
      aux      == GetFree(packed, "aux")
      warned   == IF ~MustWarn(bsize, d) THEN packed
                  ELSE Send([aux.heap EXCEPT !.content[aux.free] = <<[warn |-> bsize]>>],
                            "aux", aux.free, d)
      used     == segmentsUsed[d] + 1
  IN  /\ FoldFunction(+, 0, written) < MaxWritten
      /\ written' = [written EXCEPT ![d] = @ + 1]
      /\ knownBufferSize' = IF MustWarn(bsize, d)
                            THEN [knownBufferSize EXCEPT ![d] = bsize] ELSE knownBufferSize
      /\ IF SendNow(bsize, used, d)
         THEN /\ heap' = Send(warned, "deliver", got.free, d)
              /\ buffer' = [buffer EXCEPT ![d] = 0]
              /\ segmentsUsed' = [segmentsUsed EXCEPT ![d] = 0]
              /\ IF fresh THEN UNCHANGED <<firstProc, nextProc, prevProc>> ELSE Unlink(d)
         ELSE /\ heap' = warned
              /\ buffer' = [buffer EXCEPT ![d] = got.free]
              /\ segmentsUsed' = [segmentsUsed EXCEPT ![d] = used]
              /\ IF fresh THEN LinkFirst(d) ELSE UNCHANGED <<firstProc, nextProc, prevProc>>
      /\ UNCHANGED <<completed, bufferSize, received>>

\* flush: all partly filled messages are sent, along the list.
Flush ==
  /\ firstProc # noProcessor
  /\ heap' = FoldLeft(LAMBDA h, d : Send(h, "deliver", buffer[d], d), heap, Linked)
  /\ buffer' = [d \in Dest |-> IF d \in ToSet(Linked) THEN 0 ELSE buffer[d]]
  /\ segmentsUsed' = [d \in Dest |-> IF d \in ToSet(Linked) THEN 0 ELSE segmentsUsed[d]]
  /\ nextProc' = [d \in Dest |-> IF d \in ToSet(Linked) THEN noProcessor ELSE nextProc[d]]
  /\ prevProc' = [d \in Dest |-> IF d \in ToSet(Linked) THEN noProcessor ELSE prevProc[d]]
  /\ firstProc' = noProcessor
  /\ UNCHANGED <<completed, knownBufferSize, bufferSize, received, written>>

\* MPI: sends to d are done in their order, with what is in the buffer then.
Pending(d) ==
  SelectSeq([i \in DOMAIN heap.sends |-> i],
            LAMBDA i : heap.sends[i].to = d /\ i \notin completed)

NextMessage(d) == heap.content[heap.sends[Head(Pending(d))].buf]

IsWarning(message) == message # <<>> /\ "warn" \in DOMAIN Head(message)

\* spReceiver: after a warning the buffer is enlarged before the next receive.
Receive(d) ==
  /\ Pending(d) # <<>>
  /\ completed' = completed \cup {Head(Pending(d))}
  /\ IF IsWarning(NextMessage(d))
     THEN /\ bufferSize' = [bufferSize EXCEPT ![d] =
                              IF @ < Head(NextMessage(d)).warn
                              THEN Head(NextMessage(d)).warn ELSE @]
          /\ UNCHANGED received
     ELSE /\ received' = [received EXCEPT ![d] =
                @ \o [i \in DOMAIN NextMessage(d) |-> NextMessage(d)[i].number]]
          /\ UNCHANGED bufferSize
  /\ UNCHANGED <<buffer, list, heap, knownBufferSize, written>>

Next ==
  \/ \E d \in Dest : (\E size \in Size : DeliverSP(d, size)) \/ Receive(d)
  \/ Flush

Spec == Init /\ [][Next]_vars

-----------------------------------------------------------------------------
(***************************************************************************)
(* Properties.                                                             *)
(***************************************************************************)
NumbersIn(message) ==
  [i \in DOMAIN SelectSeq(message, LAMBDA s : "number" \in DOMAIN s) |->
     SelectSeq(message, LAMBDA s : "number" \in DOMAIN s)[i].number]

\* What has come, what is being sent and what is being filled is, for each
\* receiver, every subproblem once, in the order in which they were sent: a
\* buffer is never filled again while MPI may still read it, and none is left
\* behind, since the list, in both directions, is that of the ones being filled.
SegmentsAreKept ==
  /\ \A d \in Dest :
       received[d]
         \o FlattenSeq([i \in DOMAIN Pending(d) |->
                          NumbersIn(heap.content[heap.sends[Pending(d)[i]].buf])])
         \o (IF buffer[d] = 0 THEN <<>> ELSE NumbersIn(heap.content[buffer[d]]))
       = [n \in 1 .. written[d] |-> n]
  /\ ToSet(Linked) = {d \in Dest : segmentsUsed[d] > 0}
  /\ \A d \in Dest : segmentsUsed[d] > 0 =>
       IF d = firstProc THEN prevProc[d] = noProcessor
       ELSE prevProc[d] \in Dest /\ nextProc[prevProc[d]] = d

\* No message is longer than the buffer it is received in.
MessagesFit ==
  \A d \in Dest :
    Pending(d) # <<>> /\ ~IsWarning(NextMessage(d)) =>
      MessageSize(NextMessage(d)) <= bufferSize[d]

=============================================================================
