--------------------------- MODULE PipeReadProofs ---------------------------
(***************************************************************************)
(* Proofs about PipeRead: for a buffer and a limit of any size, messages   *)
(* of any length, any number of them and any number of slices.             *)
(*                                                                         *)
(* The three properties look at the reader between two calls; PipeInv says *)
(* in addition how much of the message at the front is in its hands while  *)
(* a call runs, and which messages a cancelled read can have touched.      *)
(***************************************************************************)
EXTENDS PipeRead, SequenceTheorems, TLAPS

\* The bytes a .. b of message m, without the one numbered a.
Part(m, a, b) == [k \in 1 .. b - a |-> <<m, a + k>>]

\* What the front message lost to a cancelled read.
Lost == IF front \in cancelled THEN Chunk ELSE 0

TypeOK ==
  /\ sent \in Seq(Nat)
  /\ front \in 1 .. Len(sent) + 1
  /\ taken \in Nat
  /\ client \in BOOLEAN
  /\ pc \in {"idle", "read", "wait", "cancel", "check", "closed"}
  /\ why \in {"none", "Timeout"} \cup Failures
  /\ outMsg \in Seq(Nat \X Nat)
  /\ delivered \in SUBSET (Nat \ {0})
  /\ cancelled \in SUBSET (Nat \ {0})

\* A message that is partly read is there and not read to its end.
TakenInv == IF Unread THEN taken > 0 => taken < sent[front] ELSE taken = 0

\* A cancelled read was given its chunk of a message that is at the front or
\* has been read since, and of none the broker can still write.
CancelInv ==
  /\ \A m \in cancelled : m <= front
  /\ ~Unread /\ client => front \notin cancelled

\* What the reader has of the front message.  If the message is gone, then
\* with the broker that was writing it.
ReadInv ==
  /\ pc = "read" =>
       /\ Unread => /\ Lost <= taken
                    /\ outMsg = Part(front, Lost, taken)
       /\ ~Unread /\ client => outMsg = <<>>
  /\ pc \in {"wait", "cancel"} =>
       /\ outMsg = <<>> /\ taken = 0
       /\ front \notin cancelled
  /\ pc = "cancel" => why # "none"
  /\ pc \in {"idle", "check"} /\ Unread => taken = Lost

PipeInv ==
  /\ TypeOK /\ TakenInv /\ CancelInv /\ ReadInv
  /\ OkIsOneMessage /\ NothingIsPassedOver /\ BufferIsBounded

-----------------------------------------------------------------------------
(* Pieces of messages.                                                      *)

LEMMA PartIsSeq ==
  ASSUME NEW m \in Nat, NEW a \in Nat, NEW b \in Nat, a <= b
  PROVE  /\ Part(m, a, b) \in Seq(Nat \X Nat)
         /\ Len(Part(m, a, b)) = b - a
         /\ \A k \in 1 .. b - a : Part(m, a, b)[k] = <<m, a + k>>
<1>1. b - a \in Nat
  OBVIOUS
<1>2. \A k \in 1 .. b - a : <<m, a + k>> \in Nat \X Nat
  OBVIOUS
<1>3. Part(m, a, b) \in [1 .. b - a -> Nat \X Nat]
  BY <1>2 DEF Part
<1>4. QED
  BY <1>1, <1>3 DEF Part

\* Reading on where the last chunk ended.
LEMMA PartConcat ==
  ASSUME NEW m \in Nat, NEW a \in Nat, NEW b \in Nat, NEW c \in Nat,
         a <= b, b <= c
  PROVE  Part(m, a, b) \o Part(m, b, c) = Part(m, a, c)
<1> DEFINE p == Part(m, a, b)
           q == Part(m, b, c)
           r == Part(m, a, c)
<1>1. /\ p \in Seq(Nat \X Nat) /\ Len(p) = b - a
      /\ \A k \in 1 .. b - a : p[k] = <<m, a + k>>
  BY PartIsSeq
<1>2. /\ q \in Seq(Nat \X Nat) /\ Len(q) = c - b
      /\ \A k \in 1 .. c - b : q[k] = <<m, b + k>>
  BY PartIsSeq
<1>3. /\ r \in Seq(Nat \X Nat) /\ Len(r) = c - a
      /\ \A k \in 1 .. c - a : r[k] = <<m, a + k>>
  <2>1. a <= c
    OBVIOUS
  <2>2. QED
    BY <2>1, PartIsSeq
<1> HIDE DEF p, q, r
<1>4. /\ p \o q \in Seq(Nat \X Nat)
      /\ Len(p \o q) = Len(p) + Len(q)
      /\ \A k \in 1 .. Len(p) + Len(q) :
           (p \o q)[k] = IF k <= Len(p) THEN p[k] ELSE q[k - Len(p)]
  BY <1>1, <1>2, ConcatProperties
<1>5. Len(p \o q) = Len(r)
  BY <1>1, <1>2, <1>3, <1>4
<1>6. ASSUME NEW k \in 1 .. c - a
      PROVE  (p \o q)[k] = r[k]
  <2>1. k <= b - a => p[k] = <<m, a + k>>
    BY <1>1
  <2>2. k > b - a => q[k - (b - a)] = <<m, b + (k - (b - a))>>
    BY <1>2
  <2>3. r[k] = <<m, a + k>>
    BY <1>3
  <2>4. k \in 1 .. Len(p) + Len(q)
    BY <1>1, <1>2
  <2>5. (p \o q)[k] = IF k <= b - a THEN p[k] ELSE q[k - (b - a)]
    BY <1>1, <1>4, <2>4
  <2>6. b + (k - (b - a)) = a + k /\ (k <= b - a \/ k > b - a)
    OBVIOUS
  <2>7. CASE k <= b - a
    BY <2>1, <2>3, <2>5, <2>7
  <2>8. CASE k > b - a /\ ~(k <= b - a)
    BY <2>2, <2>3, <2>5, <2>6, <2>8
  <2>. QED
    BY <2>6, <2>7, <2>8
<1>7. QED
  BY <1>1, <1>2, <1>3, <1>4, <1>5, <1>6, SeqEqual DEF p, q, r

LEMMA PartEmpty ==
  ASSUME NEW m \in Nat, NEW a \in Nat
  PROVE  Part(m, a, a) = <<>>
  BY PartIsSeq, EmptySeq

\* What OkIsOneMessage compares outMsg with.
LEMMA MessageIsPart ==
  ASSUME NEW m \in Nat, sent[m] \in Nat
  PROVE  /\ Message(m) = Part(m, 0, sent[m])
         /\ Chunk < sent[m] => Tail1(m) = Part(m, Chunk, sent[m])
<1>1. Chunk \in Nat
  BY PipeReadAssumption
<1>2. Message(m) = Part(m, 0, sent[m])
  BY DEF Message, Part
<1>3. ASSUME Chunk < sent[m]
      PROVE  Tail1(m) = Part(m, Chunk, sent[m])
  <2>1. PICK n \in Nat : n = sent[m]
    OBVIOUS
  <2> DEFINE whole == Part(m, 0, n)
             rest == Part(m, Chunk, n)
  <2>2. 0 <= n /\ 0 \in Nat /\ Chunk <= n
    BY <1>1, <1>3, <2>1
  <2>3. /\ Len(whole) = n - 0
        /\ \A k \in 1 .. n - 0 : whole[k] = <<m, 0 + k>>
    BY <2>2, PartIsSeq
  <2>4. /\ rest \in Seq(Nat \X Nat) /\ Len(rest) = n - Chunk
        /\ \A k \in 1 .. n - Chunk : rest[k] = <<m, Chunk + k>>
    BY <1>1, <2>2, PartIsSeq
  <2> HIDE DEF whole, rest
  <2>5. /\ \A k \in Chunk + 1 .. n : whole[k] = <<m, k>>
        /\ \A k \in Chunk + 1 .. n : whole[k] \in Nat \X Nat
        /\ Chunk + 1 \in Int /\ n \in Int
    <3>1. ASSUME NEW k \in Chunk + 1 .. n
          PROVE  k \in Nat /\ k \in 1 .. n - 0 /\ 0 + k = k
      BY <1>1
    <3>2. \A k \in Chunk + 1 .. n : whole[k] = <<m, k>>
      BY <2>3, <3>1
    <3>3. QED
      BY <1>1, <3>1, <3>2
  <2>6. /\ SubSeq(whole, Chunk + 1, n) \in Seq(Nat \X Nat)
        /\ Len(SubSeq(whole, Chunk + 1, n))
             = IF Chunk + 1 <= n THEN n - (Chunk + 1) + 1 ELSE 0
        /\ \A k \in 1 .. n - (Chunk + 1) + 1 :
             SubSeq(whole, Chunk + 1, n)[k] = whole[(Chunk + 1) + k - 1]
    BY ONLY <2>5, SubSeqProperties
  <2>7. Len(SubSeq(whole, Chunk + 1, n)) = Len(rest)
    BY <1>1, <1>3, <2>1, <2>4, <2>6
  <2>8. ASSUME NEW k \in 1 .. n - Chunk
        PROVE  SubSeq(whole, Chunk + 1, n)[k] = rest[k]
    <3>1. /\ k \in 1 .. n - (Chunk + 1) + 1
          /\ (Chunk + 1) + k - 1 = Chunk + k
          /\ Chunk + k \in Chunk + 1 .. n
      BY <1>1
    <3>2. SubSeq(whole, Chunk + 1, n)[k] = whole[Chunk + k]
      BY <2>6, <3>1
    <3>3. QED
      BY <2>4, <2>5, <3>1, <3>2
  <2>9. SubSeq(whole, Chunk + 1, n) = rest
    BY <2>4, <2>6, <2>7, <2>8, SeqEqual
  <2>. QED
    BY <1>2, <2>1, <2>9 DEF Tail1, whole, rest
<1>. QED
  BY <1>2, <1>3

-----------------------------------------------------------------------------
(* The reader.                                                              *)

\* What a read takes out of the pipe.
LEMMA TransferFacts ==
  ASSUME PipeInv, Unread
  PROVE  /\ front \in 1 .. Len(sent) /\ sent[front] \in Nat
         /\ taken <= sent[front]
         /\ Remaining = sent[front] - taken
         /\ Transfer \in Nat /\ Transfer <= Remaining
         /\ Transfer < Remaining => Transfer = Chunk
         /\ ChunkBytes = Part(front, taken, taken + Transfer)
<1>1. /\ front \in 1 .. Len(sent) /\ sent[front] \in Nat /\ taken \in Nat
      /\ taken <= sent[front]
  BY DEF PipeInv, TypeOK, TakenInv, Unread
<1>2. Chunk \in Nat
  BY PipeReadAssumption
<1>3. /\ Remaining = sent[front] - taken
      /\ Transfer \in Nat /\ Transfer <= Remaining
      /\ Transfer < Remaining => Transfer = Chunk
  BY <1>1, <1>2 DEF Remaining, Transfer
<1>4. (taken + Transfer) - taken = Transfer
  BY <1>1, <1>3
<1>5. ChunkBytes = Part(front, taken, taken + Transfer)
  BY <1>4 DEF ChunkBytes, Part
<1>. QED
  BY <1>1, <1>3, <1>5

\* What the reader has after it: the front message without what it lost.
LEMMA ReadSoFar ==
  ASSUME PipeInv, Unread, pc \in {"read", "wait"}
  PROVE  /\ Lost \in Nat /\ Lost <= taken
         /\ outMsg = Part(front, Lost, taken)
         /\ outMsg \o ChunkBytes = Part(front, Lost, taken + Transfer)
         /\ outMsg \o ChunkBytes \in Seq(Nat \X Nat)
         /\ Len(outMsg \o ChunkBytes) = taken + Transfer - Lost
<1>1. /\ front \in Nat /\ taken \in Nat /\ Transfer \in Nat
      /\ ChunkBytes = Part(front, taken, taken + Transfer)
  BY TransferFacts DEF PipeInv, TypeOK
<1>2. Lost \in Nat
  BY PipeReadAssumption DEF Lost
<1>3. Lost <= taken /\ outMsg = Part(front, Lost, taken)
  <2>1. CASE pc = "read"
    BY <2>1 DEF PipeInv, ReadInv
  <2>2. CASE pc = "wait"
    <3>1. outMsg = <<>> /\ taken = 0 /\ front \notin cancelled
      BY <2>2 DEF PipeInv, ReadInv
    <3>2. QED
      BY <1>1, <3>1, PartEmpty DEF Lost
  <2>3. QED
    BY <2>1, <2>2
<1>4. taken + Transfer \in Nat /\ taken <= taken + Transfer /\ Lost <= taken + Transfer
  BY <1>1, <1>2, <1>3
<1>5. outMsg \o ChunkBytes = Part(front, Lost, taken + Transfer)
  <2>1. PICK b \in Nat : b = taken + Transfer
    BY <1>4
  <2>2. taken \in Nat /\ taken <= b /\ Lost <= taken /\ front \in Nat
    BY <1>1, <1>3, <1>4, <2>1
  <2>3. Part(front, Lost, taken) \o Part(front, taken, b) = Part(front, Lost, b)
    BY <1>2, <2>2, PartConcat, Zenon
  <2>4. QED
    BY <1>1, <1>3, <2>1, <2>3
<1>6. /\ Part(front, Lost, taken + Transfer) \in Seq(Nat \X Nat)
      /\ Len(Part(front, Lost, taken + Transfer)) = taken + Transfer - Lost
  <2>1. PICK b \in Nat : b = taken + Transfer
    BY <1>4
  <2>2. Part(front, Lost, b) \in Seq(Nat \X Nat) /\ Len(Part(front, Lost, b)) = b - Lost
    BY <1>1, <1>2, <1>4, <2>1, PartIsSeq
  <2>3. QED
    BY <1>1, <1>2, <2>1, <2>2
<1>7. QED
  BY <1>2, <1>3, <1>5, <1>6

\* A chunk is taken out of the pipe, whoever gets it.
LEMMA TakeChunkSafe ==
  ASSUME PipeInv, Unread, TakeChunk, UNCHANGED <<sent, client>>
  PROVE  /\ front' \in 1 .. Len(sent') + 1 /\ taken' \in Nat
         /\ TakenInv'
         /\ front <= front'
<1>1. /\ front \in 1 .. Len(sent) /\ sent[front] \in Nat /\ taken \in Nat
      /\ taken <= sent[front] /\ Remaining = sent[front] - taken
      /\ Transfer \in Nat /\ Transfer <= Remaining
  BY TransferFacts DEF PipeInv, TypeOK
<1>2. Len(sent) \in Nat /\ sent' = sent
  BY DEF PipeInv, TypeOK
<1>3. CASE Transfer = Remaining
  <2>1. front' = front + 1 /\ taken' = 0
    BY <1>3 DEF TakeChunk
  <2>2. QED
    BY <1>1, <1>2, <2>1 DEF TakenInv, Unread
<1>4. CASE Transfer # Remaining
  <2>1. front' = front /\ taken' = taken + Transfer
    BY <1>4 DEF TakeChunk
  <2>2. taken' < sent'[front']
    BY <1>1, <1>2, <1>4, <2>1
  <2>3. QED
    BY <1>1, <1>2, <2>1, <2>2 DEF TakenInv, Unread
<1>. QED
  BY <1>3, <1>4

\* A call that ends the session leaves nothing more to keep.
LEMMA ClosedSafe ==
  ASSUME PipeInv, pc' = "closed", UNCHANGED <<sent, client, delivered>>,
         front' \in 1 .. Len(sent') + 1, taken' \in Nat, TakenInv', CancelInv',
         cancelled' \in SUBSET (Nat \ {0}), why' \in {"none", "Timeout"} \cup Failures,
         outMsg' = outMsg \/ outMsg' = <<>>
  PROVE  PipeInv'
<1>1. outMsg' \in Seq(Nat \X Nat) /\ Len(outMsg') <= MaxMsgBytes
  <2>1. outMsg \in Seq(Nat \X Nat) /\ Len(outMsg) <= MaxMsgBytes
    BY DEF PipeInv, TypeOK, BufferIsBounded
  <2>2. <<>> \in Seq(Nat \X Nat) /\ Len(<<>>) <= MaxMsgBytes
    BY EmptySeq, PipeReadAssumption
  <2>3. QED
    BY <2>1, <2>2
<1>2. TypeOK'
  BY <1>1 DEF PipeInv, TypeOK
<1>3. ReadInv' /\ OkIsOneMessage' /\ NothingIsPassedOver' /\ BufferIsBounded'
  BY <1>1 DEF ReadInv, OkIsOneMessage, NothingIsPassedOver, BufferIsBounded
<1>. QED
  BY <1>2, <1>3 DEF PipeInv

LEMMA ReceivedSafe ==
  ASSUME PipeInv, pc \in {"read", "wait"}, Received,
         UNCHANGED <<brokerVars, why, slice, cancelled>>
  PROVE  PipeInv'
<1> DEFINE all == outMsg \o ChunkBytes
<1>1. Unread /\ TakeChunk /\ UNCHANGED <<sent, client, why, cancelled>>
  BY DEF Received, brokerVars
<1>2. /\ front' \in 1 .. Len(sent') + 1 /\ taken' \in Nat /\ TakenInv'
      /\ front <= front'
  BY <1>1, TakeChunkSafe
<1>3. /\ front \in 1 .. Len(sent) /\ sent[front] \in Nat /\ taken \in Nat
      /\ taken <= sent[front] /\ Remaining = sent[front] - taken
      /\ Transfer \in Nat /\ Transfer <= Remaining
      /\ Transfer < Remaining => Transfer = Chunk
      /\ Len(sent) \in Nat
  BY <1>1, TransferFacts DEF PipeInv, TypeOK
<1>4. /\ Lost \in Nat /\ Lost <= taken
      /\ all = Part(front, Lost, taken + Transfer)
      /\ all \in Seq(Nat \X Nat)
      /\ Len(all) = taken + Transfer - Lost
  BY <1>1, ReadSoFar
<1>5. CancelInv'
  <2>1. \A m \in cancelled : m <= front /\ m \in Nat
    BY DEF PipeInv, CancelInv, TypeOK
  <2>2. ~Unread' => front' = front + 1
    BY <1>1, <1>3 DEF TakeChunk, Unread
  <2>3. QED
    BY <1>1, <1>2, <1>3, <2>1, <2>2 DEF CancelInv
<1>6. PipeInv /\ why' \in {"none", "Timeout"} \cup Failures /\ cancelled' \in SUBSET (Nat \ {0})
  BY <1>1 DEF PipeInv, TypeOK
<1> HIDE DEF all
<1>7. CASE /\ outMsg' = IF Transfer = 0 THEN outMsg ELSE <<>>
           /\ Return("Failed")
           /\ UNCHANGED delivered
  <2>1. pc' = "closed"
    BY <1>7 DEF Return, Failures
  <2>2. QED
    BY <1>1, <1>2, <1>5, <1>6, <1>7, <2>1, ClosedSafe
<1>8. CASE /\ Transfer > 0 /\ Len(all) <= MaxMsgBytes /\ Transfer = Remaining
           /\ outMsg' = all
           /\ Return("Ok")
           /\ delivered' = IF front \in cancelled THEN delivered
                           ELSE delivered \cup {front}
  <2>1. pc' = "idle" /\ result' = "Ok" /\ front' = front + 1 /\ taken' = 0
    BY <1>1, <1>8 DEF Return, Failures, TakeChunk
  <2>2. taken + Transfer = sent[front] /\ all = Part(front, Lost, sent[front])
    <3>1. Transfer = sent[front] - taken
      BY <1>3, <1>8
    <3>2. taken + Transfer = sent[front]
      BY <1>3, <3>1
    <3>3. QED
      BY <1>4, <3>2
  <2>3. front' \notin cancelled
    BY <1>3, <2>1 DEF PipeInv, CancelInv, TypeOK
  <2>4. TypeOK'
    BY <1>1, <1>2, <1>4, <1>6, <1>8, <2>1 DEF PipeInv, TypeOK
  <2>5. ReadInv'
    BY <1>1, <2>1, <2>3 DEF ReadInv, Lost
  <2>6. NothingIsPassedOver'
    <3>1. \A m \in 1 .. front - 1 : m \in delivered \cup cancelled
      BY DEF PipeInv, NothingIsPassedOver
    <3>2. front \in delivered' \cup cancelled /\ delivered \subseteq delivered'
      BY <1>8
    <3>3. \A m \in 1 .. front' - 1 : m \in 1 .. front - 1 \/ m = front
      BY <1>3, <2>1
    <3>4. QED
      BY <1>1, <3>1, <3>2, <3>3 DEF NothingIsPassedOver
  <2>7. BufferIsBounded'
    BY <1>8 DEF BufferIsBounded
  <2>8. OkIsOneMessage'
    <3>1. Len(all) \in 1 .. MaxMsgBytes
      <4>1. Transfer > 0 /\ Len(all) <= MaxMsgBytes
        BY <1>8
      <4>2. taken - Lost \in Nat /\ Len(all) = Transfer + (taken - Lost)
        BY <1>3, <1>4
      <4>3. Len(all) \in Nat /\ Len(all) >= 1
        BY <1>3, <4>1, <4>2
      <4>4. QED
        BY <4>1, <4>3, PipeReadAssumption
    <3>2. front' - 1 = front /\ front \in Nat
      BY <1>3, <2>1
    <3>3. Message(front - 1)' = Message(front) /\ Tail1(front - 1)' = Tail1(front)
      BY <1>1, <3>2 DEF Message, Tail1
    <3>4. front \notin cancelled => front \in delivered' /\ all = Message(front)
      BY <1>3, <1>8, <2>2, <3>2, MessageIsPart DEF Lost
    <3>5. ASSUME front \in cancelled
          PROVE  all = Tail1(front)
      <4>1. Lost = Chunk /\ Chunk > 0
        BY <3>5, PipeReadAssumption DEF Lost
      <4>2. taken < sent[front]
        BY <1>1, <1>3, <1>4, <4>1, PipeReadAssumption DEF PipeInv, TakenInv
      <4>3. Chunk < sent[front]
        BY <1>3, <1>4, <4>1, <4>2, PipeReadAssumption
      <4>4. QED
        BY <1>3, <2>2, <3>2, <4>1, <4>3, MessageIsPart
    <3>6. QED
      BY <1>1, <1>8, <3>1, <3>2, <3>3, <3>4, <3>5 DEF OkIsOneMessage
  <2>9. QED
    BY <1>2, <1>5, <2>4, <2>5, <2>6, <2>7, <2>8 DEF PipeInv
<1>9. CASE /\ Transfer > 0 /\ Len(all) <= MaxMsgBytes /\ Transfer < Remaining
           /\ outMsg' = all
           /\ pc' = "read"
           /\ UNCHANGED <<result, delivered>>
  <2>1. front' = front /\ taken' = taken + Transfer
    BY <1>1, <1>3, <1>9 DEF TakeChunk
  <2>2. TypeOK'
    BY <1>1, <1>2, <1>4, <1>6, <1>9 DEF PipeInv, TypeOK
  <2>3. ReadInv'
    <3>1. Unread' /\ Lost' = Lost /\ Lost <= taken'
      BY <1>1, <1>3, <1>4, <2>1 DEF Unread, Lost
    <3>2. outMsg' = Part(front', Lost', taken')
      BY <1>4, <1>9, <2>1, <3>1
    <3>3. QED
      BY <1>9, <3>1, <3>2 DEF ReadInv
  <2>4. NothingIsPassedOver' /\ BufferIsBounded' /\ OkIsOneMessage'
    <3>1. pc # "closed"
      OBVIOUS
    <3>2. QED
      BY <1>1, <1>9, <2>1, <3>1
         DEF PipeInv, NothingIsPassedOver, BufferIsBounded, OkIsOneMessage
  <2>5. QED
    BY <1>2, <1>5, <2>2, <2>3, <2>4 DEF PipeInv
<1>. QED
  BY <1>7, <1>8, <1>9 DEF Received, all

\* A call that fails, with the pipe as it was.
LEMMA FailSafe ==
  ASSUME PipeInv, PipeBroken \/ CallFails,
         UNCHANGED <<brokerVars, why, cancelled>>
  PROVE  PipeInv'
<1>1. pc' = "closed" /\ UNCHANGED <<sent, front, taken, client, why, outMsg, delivered, cancelled>>
  BY DEF PipeBroken, CallFails, Return, Failures, brokerVars
<1>2. TakenInv' /\ CancelInv'
  BY <1>1 DEF PipeInv, TakenInv, CancelInv, Unread
<1>3. PipeInv /\ TypeOK
  BY DEF PipeInv
<1>4. QED
  BY <1>1, <1>2, <1>3, ClosedSafe DEF TypeOK

\* A step that leaves the messages alone.
LEMMA StayedSafe ==
  ASSUME PipeInv, TypeOK', ReadInv',
         UNCHANGED <<sent, front, taken, client, cancelled>>,
         delivered' = delivered, pc # "closed",
         pc' = "idle" => result' # "Ok", Len(outMsg') <= MaxMsgBytes
  PROVE  PipeInv'
<1>1. TakenInv' /\ CancelInv'
  BY DEF PipeInv, TakenInv, CancelInv, Unread
<1>2. OkIsOneMessage' /\ NothingIsPassedOver' /\ BufferIsBounded'
  BY DEF PipeInv, OkIsOneMessage, NothingIsPassedOver, BufferIsBounded
<1>. QED
  BY <1>1, <1>2 DEF PipeInv

LEMMA NothingRead ==
  /\ <<>> \in Seq(Nat \X Nat)
  /\ Len(<<>>) <= MaxMsgBytes
  BY EmptySeq, PipeReadAssumption

\* The buffer is emptied where nothing of the front message is held.
LEMMA FreshRead ==
  ASSUME PipeInv, pc \in {"idle", "check"}, pc' = "read", outMsg' = <<>>,
         UNCHANGED <<sent, front, taken, client, cancelled>>
  PROVE  ReadInv'
<1>1. Unread => taken = Lost
  BY DEF PipeInv, ReadInv
<1>2. front \in Nat /\ taken \in Nat
  BY DEF PipeInv, TypeOK
<1>3. Unread' = Unread /\ Lost' = Lost
  BY DEF Unread, Lost
<1>4. Unread => outMsg' = Part(front, Lost, taken) /\ Lost <= taken
  BY <1>1, <1>2, PartEmpty
<1>. QED
  BY <1>3, <1>4 DEF ReadInv

LEMMA CallSafe ==
  ASSUME PipeInv, Call
  PROVE  PipeInv'
<1>1. /\ pc = "idle" /\ pc' = "read" /\ outMsg' = <<>>
      /\ UNCHANGED <<sent, front, taken, client, why, delivered, cancelled>>
  BY DEF Call, brokerVars
<1>2. TypeOK'
  BY <1>1, NothingRead DEF PipeInv, TypeOK
<1>3. ReadInv'
  BY <1>1, FreshRead
<1>. QED
  BY <1>1, <1>2, <1>3, NothingRead, StayedSafe

LEMMA ReadFileSafe ==
  ASSUME PipeInv, ReadFile
  PROVE  PipeInv'
<1>1. pc = "read" /\ UNCHANGED <<brokerVars, why, slice, cancelled>>
  BY DEF ReadFile
<1>2. CASE Received
  BY <1>1, <1>2, ReceivedSafe
<1>3. CASE PipeBroken \/ CallFails
  BY <1>1, <1>3, FailSafe
<1>4. CASE /\ ~Unread /\ client
           /\ pc' = "wait"
           /\ UNCHANGED <<front, taken, outMsg, result, delivered>>
  <2>1. UNCHANGED <<sent, front, taken, client, why, outMsg, delivered, cancelled>>
    BY <1>1, <1>4 DEF brokerVars
  <2>2. outMsg = <<>> /\ taken = 0 /\ front \notin cancelled
    BY <1>1, <1>4 DEF PipeInv, ReadInv, TakenInv, CancelInv
  <2>3. TypeOK'
    BY <1>4, <2>1 DEF PipeInv, TypeOK
  <2>4. ReadInv'
    BY <1>4, <2>1, <2>2 DEF ReadInv
  <2>5. Len(outMsg') <= MaxMsgBytes
    BY <2>1 DEF PipeInv, BufferIsBounded
  <2>6. QED
    BY <1>1, <1>4, <2>1, <2>3, <2>4, <2>5, StayedSafe
<1>. QED
  BY <1>2, <1>3, <1>4 DEF ReadFile

LEMMA ReadCompletesSafe ==
  ASSUME PipeInv, ReadCompletes
  PROVE  PipeInv'
  BY ReceivedSafe, FailSafe DEF ReadCompletes

LEMMA GiveUpSafe ==
  ASSUME PipeInv, pc = "wait", NEW r \in {"Timeout"} \cup Failures, GiveUp(r)
  PROVE  PipeInv'
<1>1. /\ pc' = "cancel" /\ why' = r
      /\ UNCHANGED <<sent, front, taken, client, outMsg, delivered, cancelled>>
  BY DEF GiveUp, brokerVars
<1>2. TypeOK'
  BY <1>1 DEF PipeInv, TypeOK
<1>3. ReadInv'
  BY <1>1 DEF PipeInv, ReadInv, Failures
<1>4. Len(outMsg') <= MaxMsgBytes
  BY <1>1 DEF PipeInv, BufferIsBounded
<1>. QED
  BY <1>1, <1>2, <1>3, <1>4, StayedSafe

LEMMA CancelIoExSafe ==
  ASSUME PipeInv, CancelIoEx
  PROVE  PipeInv'
<1>1. /\ pc = "cancel" /\ why' = "none"
      /\ outMsg = <<>> /\ taken = 0 /\ front \notin cancelled
      /\ front \in Nat \ {0} /\ Len(sent) \in Nat
      /\ UNCHANGED <<sent, client, outMsg, delivered>>
  BY DEF CancelIoEx, PipeInv, ReadInv, TypeOK, brokerVars
<1>2. /\ front' \in 1 .. Len(sent') + 1 /\ taken' \in Nat
      /\ cancelled' \in SUBSET (Nat \ {0})
      /\ TakenInv' /\ CancelInv'
      /\ Unread' => taken' = Lost'
      /\ \A m \in 1 .. front' - 1 : m \in 1 .. front - 1 \/ m \in cancelled'
      /\ cancelled \subseteq cancelled'
  <2>1. \A m \in cancelled : m <= front /\ m \in Nat \ {0}
    BY DEF PipeInv, CancelInv, TypeOK
  <2>2. CASE ~Unread
    <3>1. UNCHANGED <<front, taken, cancelled>>
      BY <2>2 DEF CancelIoEx
    <3>2. ~Unread' /\ TakenInv' /\ CancelInv'
      BY <1>1, <2>2, <3>1 DEF PipeInv, TakenInv, CancelInv, Unread
    <3>3. QED
      BY <1>1, <3>1, <3>2 DEF PipeInv, TypeOK
  <2>3. CASE Unread
    <3>1. TakeChunk /\ cancelled' = cancelled \cup {front}
      BY <2>3 DEF CancelIoEx
    <3>2. /\ front' \in 1 .. Len(sent') + 1 /\ taken' \in Nat
          /\ TakenInv' /\ front <= front'
      BY <1>1, <2>3, <3>1, TakeChunkSafe
    <3>3. /\ Transfer \in Nat /\ Transfer <= Remaining
          /\ Transfer < Remaining => Transfer = Chunk
          /\ front <= Len(sent)
      BY <2>3, TransferFacts
    <3>4. CASE Transfer = Remaining
      <4>1. front' = front + 1 /\ taken' = 0
        BY <3>1, <3>4 DEF TakeChunk
      <4>2. front' \notin cancelled'
        BY <1>1, <2>1, <3>1, <4>1
      <4>3. CancelInv'
        BY <1>1, <2>1, <3>1, <4>1, <4>2 DEF CancelInv
      <4>4. QED
        BY <1>1, <2>1, <3>1, <3>2, <4>1, <4>2, <4>3 DEF Lost
    <3>5. CASE Transfer # Remaining
      <4>1. front' = front /\ taken' = Chunk /\ Unread'
        BY <1>1, <2>3, <3>1, <3>3, <3>5, PipeReadAssumption
           DEF TakeChunk, Remaining, Unread, PipeInv, TypeOK, TakenInv
      <4>2. CancelInv'
        BY <1>1, <2>1, <3>1, <4>1 DEF CancelInv
      <4>3. QED
        BY <1>1, <2>1, <3>1, <3>2, <4>1, <4>2 DEF Lost
    <3>6. QED
      BY <3>4, <3>5
  <2>4. QED
    BY <2>2, <2>3
<1>3. CASE why = "Timeout"
  <2>1. pc' = "check" /\ UNCHANGED result
    BY <1>3 DEF CancelIoEx
  <2>2. TypeOK'
    BY <1>1, <1>2, <2>1 DEF PipeInv, TypeOK
  <2>3. ReadInv'
    BY <1>2, <2>1 DEF ReadInv
  <2>4. NothingIsPassedOver'
    BY <1>1, <1>2 DEF PipeInv, NothingIsPassedOver
  <2>5. OkIsOneMessage' /\ BufferIsBounded'
    BY <1>1, <2>1 DEF PipeInv, OkIsOneMessage, BufferIsBounded
  <2>6. QED
    BY <1>2, <2>2, <2>3, <2>4, <2>5 DEF PipeInv
<1>4. CASE why # "Timeout"
  <2>1. Return(why)
    BY <1>4 DEF CancelIoEx
  <2>2. why \in Failures
    BY <1>1, <1>4 DEF PipeInv, ReadInv, TypeOK
  <2>3. QED
    BY <1>1, <1>2, <2>1, <2>2, ClosedSafe DEF Return
<1>. QED
  BY <1>3, <1>4

LEMMA CheckElapsedSafe ==
  ASSUME PipeInv, CheckElapsed
  PROVE  PipeInv'
<1>1. pc = "check" /\ UNCHANGED <<sent, front, taken, client, why, delivered, cancelled>>
  BY DEF CheckElapsed, brokerVars, callVars
<1>2. CASE Return("BrokerExited") /\ UNCHANGED outMsg
  <2>1. pc' = "closed" /\ outMsg' = outMsg
    BY <1>2 DEF Return, Failures
  <2>2. PipeInv /\ TypeOK /\ TakenInv' /\ CancelInv'
    BY <1>1 DEF PipeInv, TakenInv, CancelInv, Unread
  <2>3. QED
    BY <1>1, <2>1, <2>2, ClosedSafe DEF TypeOK
<1>3. CASE Return("Timeout") /\ UNCHANGED outMsg
  <2>1. pc' = "idle" /\ result' = "Timeout" /\ outMsg' = outMsg
    BY <1>3 DEF Return, Failures
  <2>2. TypeOK' /\ ReadInv'
    BY <1>1, <2>1 DEF PipeInv, TypeOK, ReadInv, Unread, Lost
  <2>3. Len(outMsg') <= MaxMsgBytes
    BY <2>1 DEF PipeInv, BufferIsBounded
  <2>4. QED
    BY <1>1, <2>1, <2>2, <2>3, StayedSafe
<1>4. CASE pc' = "read" /\ outMsg' = <<>> /\ UNCHANGED result
  <2>1. TypeOK'
    BY <1>1, <1>4, NothingRead DEF PipeInv, TypeOK
  <2>2. ReadInv'
    BY <1>1, <1>4, FreshRead
  <2>3. QED
    BY <1>1, <1>4, <2>1, <2>2, NothingRead, StayedSafe
<1>. QED
  BY <1>2, <1>3, <1>4 DEF CheckElapsed

-----------------------------------------------------------------------------
(* The broker.                                                              *)

\* A message that has been read keeps its bytes and their number.
LEMMA OkStays ==
  ASSUME PipeInv, UNCHANGED <<pc, result, outMsg, front>>,
         delivered' = delivered, cancelled' = cancelled,
         \A m \in 1 .. front - 1 : sent'[m] = sent[m]
  PROVE  OkIsOneMessage' /\ NothingIsPassedOver' /\ BufferIsBounded'
<1>1. NothingIsPassedOver' /\ BufferIsBounded'
  BY DEF PipeInv, NothingIsPassedOver, BufferIsBounded
<1>2. front \in Nat /\ delivered \subseteq Nat \ {0} /\ cancelled \subseteq Nat \ {0}
  BY DEF PipeInv, TypeOK
<1>3. front - 1 \in delivered \cup cancelled => front - 1 \in 1 .. front - 1
  BY <1>2
<1>4. front - 1 \in delivered \cup cancelled => sent'[front - 1] = sent[front - 1]
  BY <1>3
<1>5. front - 1 \in delivered \cup cancelled
        => /\ Message(front - 1)' = Message(front - 1)
           /\ Tail1(front - 1)' = Tail1(front - 1)
  BY <1>4 DEF Message, Tail1
<1>6. OkIsOneMessage'
  BY <1>5 DEF PipeInv, OkIsOneMessage
<1>. QED
  BY <1>1, <1>6

LEMMA BrokerSendsSafe ==
  ASSUME PipeInv, NEW size \in Sizes, BrokerSends(size)
  PROVE  PipeInv'
<1>1. /\ client /\ sent' = Append(sent, size)
      /\ UNCHANGED <<front, taken, client, pc, why, outMsg, result, delivered, cancelled>>
  BY DEF BrokerSends, readerVars
<1>2. sent \in Seq(Nat) /\ size \in Nat /\ front \in 1 .. Len(sent) + 1 /\ Len(sent) \in Nat
  BY PipeReadAssumption DEF PipeInv, TypeOK
<1>3. /\ sent' \in Seq(Nat) /\ Len(sent') = Len(sent) + 1
      /\ \A m \in 1 .. Len(sent) : sent'[m] = sent[m]
  BY <1>1, <1>2
<1>4. TypeOK'
  BY <1>1, <1>2, <1>3 DEF PipeInv, TypeOK
<1>5. Unread'
  BY <1>1, <1>2, <1>3 DEF Unread
<1>6. ~Unread => taken = 0 /\ front \notin cancelled
  BY <1>1 DEF PipeInv, TakenInv, CancelInv
<1>7. Unread => sent'[front] = sent[front]
  <2>1. Unread => front \in 1 .. Len(sent)
    BY <1>2 DEF Unread
  <2>2. QED
    BY <1>3, <2>1
<1>8. TakenInv' /\ CancelInv'
  <2>1. CancelInv'
    BY <1>1, <1>5 DEF PipeInv, CancelInv
  <2>2. taken > 0 => taken < sent'[front]
    BY <1>6, <1>7 DEF PipeInv, TakenInv
  <2>3. QED
    BY <1>1, <1>5, <2>1, <2>2 DEF TakenInv
<1>9. ReadInv'
  <2>1. Lost' = Lost /\ (~Unread => Lost = 0)
    BY <1>1, <1>6 DEF Lost
  <2>2. ASSUME pc = "read"
        PROVE  Lost <= taken /\ outMsg = Part(front, Lost, taken)
    <3>1. CASE Unread
      BY <2>2, <3>1 DEF PipeInv, ReadInv
    <3>2. CASE ~Unread
      <4>1. outMsg = <<>> /\ taken = 0 /\ Lost = 0
        BY <1>1, <1>6, <2>1, <2>2, <3>2 DEF PipeInv, ReadInv
      <4>2. QED
        BY <1>2, <4>1, PartEmpty
    <3>3. QED
      BY <3>1, <3>2
  <2>3. pc \in {"idle", "check"} => taken = Lost
    BY <1>6, <2>1 DEF PipeInv, ReadInv
  <2>4. QED
    BY <1>1, <1>5, <2>1, <2>2, <2>3 DEF PipeInv, ReadInv
<1>10. OkIsOneMessage' /\ NothingIsPassedOver' /\ BufferIsBounded'
  BY <1>1, <1>2, <1>3, OkStays
<1>. QED
  BY <1>4, <1>8, <1>9, <1>10 DEF PipeInv

\* The broker's end closes, its process ends, or neither is seen yet.
LEMMA BrokerLeavesSafe ==
  ASSUME PipeInv, client' \in {FALSE, client}, UNCHANGED <<sent, front, taken, readerVars>>
  PROVE  PipeInv'
<1>1. UNCHANGED <<sent, front, taken, pc, why, outMsg, result, delivered, cancelled>>
  BY DEF readerVars
<1>2. TypeOK'
  BY <1>1 DEF PipeInv, TypeOK
<1>3. TakenInv' /\ CancelInv' /\ ReadInv'
  <2>1. Unread' = Unread /\ Lost' = Lost
    BY <1>1 DEF Unread, Lost
  <2>2. client' => client
    BY Zenon
  <2>3. TakenInv' /\ CancelInv'
    BY <1>1, <2>1, <2>2 DEF PipeInv, TakenInv, CancelInv
  <2>4. ReadInv'
    BY <1>1, <2>1, <2>2 DEF PipeInv, ReadInv
  <2>5. QED
    BY <2>3, <2>4
<1>4. OkIsOneMessage' /\ NothingIsPassedOver' /\ BufferIsBounded'
  BY <1>1, OkStays
<1>. QED
  BY <1>2, <1>3, <1>4 DEF PipeInv

LEMMA BrokerExitsSafe ==
  ASSUME PipeInv, BrokerExits
  PROVE  PipeInv'
<1>1. UNCHANGED <<front, pc, why, outMsg, result, delivered, cancelled, readerVars>>
  BY DEF BrokerExits, readerVars
<1>2. CASE client' \in {FALSE, client} /\ UNCHANGED <<sent, taken>>
  BY <1>1, <1>2, BrokerLeavesSafe
<1>3. CASE /\ Unread /\ client
           /\ client' = FALSE
           /\ sent' = SubSeq(sent, 1, Len(sent) - 1)
           /\ taken' = IF front = Len(sent) THEN 0 ELSE taken
  <2>1. /\ sent \in Seq(Nat) /\ Len(sent) \in Nat
        /\ front \in 1 .. Len(sent) /\ taken \in Nat
    BY <1>3 DEF PipeInv, TypeOK, Unread
  <2>2. /\ sent' \in Seq(Nat) /\ Len(sent') = Len(sent) - 1
        /\ \A m \in 1 .. Len(sent) - 1 : sent'[m] = sent[m]
    <3>1. /\ \A m \in 1 .. Len(sent) - 1 : sent[m] \in Nat
          /\ Len(sent) - 1 \in Int /\ 1 \in Int
      BY <2>1
    <3>2. /\ sent' \in Seq(Nat)
          /\ Len(sent') = IF 1 <= Len(sent) - 1 THEN (Len(sent) - 1) - 1 + 1 ELSE 0
          /\ \A m \in 1 .. (Len(sent) - 1) - 1 + 1 : sent'[m] = sent[1 + m - 1]
      BY <1>3, <3>1, SubSeqProperties
    <3>3. Len(sent') = Len(sent) - 1
      <4>1. PICK n \in Nat : n = Len(sent)
        BY <2>1
      <4>2. n >= 1
        BY <2>1, <4>1
      <4>3. Len(sent') = IF 1 <= n - 1 THEN (n - 1) - 1 + 1 ELSE 0
        BY <3>2, <4>1
      <4>4. Len(sent') = n - 1
        BY <4>2, <4>3
      <4>5. QED
        BY <4>1, <4>4
    <3>4. \A m \in 1 .. Len(sent) - 1 : sent'[m] = sent[m]
      BY <2>1, <3>2
    <3>5. QED
      BY <3>2, <3>3, <3>4
  <2>3. TypeOK'
    <3>1. front' \in 1 .. Len(sent') + 1 /\ taken' \in Nat
      BY <1>1, <1>3, <2>1, <2>2
    <3>2. QED
      BY <1>1, <1>3, <2>2, <3>1 DEF PipeInv, TypeOK
  <2>4. TakenInv' /\ CancelInv' /\ ReadInv'
    <3>1. CASE front = Len(sent)
      <4>1. ~Unread' /\ taken' = 0 /\ ~client'
        BY <1>1, <1>3, <2>1, <2>2, <3>1 DEF Unread
      <4>2. TakenInv' /\ CancelInv'
        BY <1>1, <4>1 DEF PipeInv, TakenInv, CancelInv
      <4>3. ReadInv'
        BY <1>1, <4>1 DEF PipeInv, ReadInv
      <4>4. QED
        BY <4>2, <4>3
    <3>2. CASE front # Len(sent)
      <4>1. /\ Unread' /\ Unread /\ taken' = taken /\ Lost' = Lost
            /\ sent'[front] = sent[front]
        BY <1>1, <1>3, <2>1, <2>2, <3>2 DEF Unread, Lost
      <4>2. TakenInv' /\ CancelInv'
        BY <1>1, <4>1 DEF PipeInv, TakenInv, CancelInv
      <4>3. ReadInv'
        BY <1>1, <4>1 DEF PipeInv, ReadInv
      <4>4. QED
        BY <4>2, <4>3
    <3>3. QED
      BY <3>1, <3>2
  <2>5. OkIsOneMessage' /\ NothingIsPassedOver' /\ BufferIsBounded'
    <3>1. \A m \in 1 .. front - 1 : sent'[m] = sent[m]
      BY <2>1, <2>2
    <3>2. QED
      BY <1>1, <3>1, OkStays
  <2>6. QED
    BY <2>3, <2>4, <2>5 DEF PipeInv
<1>. QED
  BY <1>2, <1>3 DEF BrokerExits

-----------------------------------------------------------------------------
LEMMA InitSafe == Init => PipeInv
<1>1. SUFFICES ASSUME Init PROVE PipeInv
  OBVIOUS
<1>2. sent = <<>> /\ Len(sent) = 0 /\ sent \in Seq(Nat)
  BY <1>1, EmptySeq DEF Init
<1>3. TypeOK
  BY <1>1, <1>2, NothingRead DEF Init, TypeOK
<1>4. TakenInv /\ CancelInv /\ ReadInv
  BY <1>1, <1>2 DEF Init, TakenInv, CancelInv, ReadInv, Unread
<1>5. OkIsOneMessage /\ NothingIsPassedOver /\ BufferIsBounded
  BY <1>1, NothingRead DEF Init, OkIsOneMessage, NothingIsPassedOver, BufferIsBounded
<1>. QED
  BY <1>3, <1>4, <1>5 DEF PipeInv

LEMMA StepSafe == PipeInv /\ [Next]_vars => PipeInv'
<1>1. SUFFICES ASSUME PipeInv, [Next]_vars PROVE PipeInv'
  OBVIOUS
<1>2. CASE Call
  BY <1>1, <1>2, CallSafe
<1>3. CASE ReadFile
  BY <1>1, <1>3, ReadFileSafe
<1>4. CASE ReadCompletes
  BY <1>1, <1>4, ReadCompletesSafe
<1>5. CASE ProcessSignalled \/ TimesOut \/ WaitFails
  BY <1>1, <1>5, GiveUpSafe
     DEF ProcessSignalled, TimesOut, WaitFails, Pending, Failures
<1>6. CASE CancelIoEx
  BY <1>1, <1>6, CancelIoExSafe
<1>7. CASE CheckElapsed
  BY <1>1, <1>7, CheckElapsedSafe
<1>8. CASE \E size \in Sizes : BrokerSends(size)
  BY <1>1, <1>8, BrokerSendsSafe
<1>9. CASE BrokerDisconnects
  <2>1. client' = FALSE /\ UNCHANGED <<sent, front, taken, readerVars>>
    BY <1>9 DEF BrokerDisconnects
  <2>2. QED
    BY <1>1, <2>1, BrokerLeavesSafe
<1>10. CASE BrokerExits
  BY <1>1, <1>10, BrokerExitsSafe
<1>11. CASE UNCHANGED vars
  <2>1. client' \in {FALSE, client} /\ UNCHANGED <<sent, front, taken, readerVars>>
    BY <1>11 DEF vars, readerVars
  <2>2. QED
    BY <1>1, <2>1, BrokerLeavesSafe
<1>. QED
  BY <1>1, <1>2, <1>3, <1>4, <1>5, <1>6, <1>7, <1>8, <1>9, <1>10, <1>11 DEF Next

LEMMA Invariance == Spec => []PipeInv
  BY InitSafe, StepSafe, PTL DEF Spec

(***************************************************************************)
(* ReadPipeMessageUntilDone returns one message: its bytes in order, none  *)
(* of another and no more than kMaxMsgBytes, or the tail of a message that *)
(* a cancelled read cut, however the messages fall into chunks and         *)
(* whatever the broker's writes, its end and the timeouts do in between.   *)
(***************************************************************************)
THEOREM OneMessagePerCall == Spec => []OkIsOneMessage
<1>1. PipeInv => OkIsOneMessage
  BY DEF PipeInv
<1>2. QED
  BY <1>1, Invariance, PTL

(***************************************************************************)
(* The loop over slices and chunks passes over nothing the broker wrote:   *)
(* what is not delivered was cut by CancelIoEx, or its call failed and the *)
(* session with it.                                                        *)
(***************************************************************************)
THEOREM NoMessageIsSkipped == Spec => []NothingIsPassedOver
<1>1. PipeInv => NothingIsPassedOver
  BY DEF PipeInv
<1>2. QED
  BY <1>1, Invariance, PTL

(***************************************************************************)
(* outMsg never outgrows kMaxMsgBytes, between two chunks of a message     *)
(* without an end either.                                                  *)
(***************************************************************************)
THEOREM ReaderIsBounded == Spec => []BufferIsBounded
<1>1. PipeInv => BufferIsBounded
  BY DEF PipeInv
<1>2. QED
  BY <1>1, Invariance, PTL
=============================================================================
