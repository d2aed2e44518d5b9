------------------------------ MODULE PipeRead ------------------------------
(***************************************************************************)
(* ReadPipeMessageUntilDone of src/broker/ProviderPipeTransport.cpp at the *)
(* grain of its read operations: messages larger than the buffer come in   *)
(* chunks, each with a wait, a timeout and a cancellation of its own.      *)
(* CredentialProvider takes a message for one read; here is what that      *)
(* leaves out.                                                             *)
(*                                                                         *)
(* The messages of the pipe are numbered from 1.  Byte k of message m is   *)
(* written <<m, k>>.                                                       *)
(***************************************************************************)
EXTENDS Integers, Sequences

CONSTANTS
  Chunk,        \* the buffer, 8192 bytes
  MaxMsgBytes,  \* kMaxMsgBytes, 256 KiB
  Slices,       \* slices after which the overall time is over at the latest
  Sizes,        \* sizes of the messages the broker may write
  MaxMessages   \* bound on the messages it writes

ASSUME PipeReadAssumption ==
  /\ Chunk \in Nat \ {0}
  /\ MaxMsgBytes \in Nat
  /\ Slices \in Nat \ {0}
  /\ Sizes \subseteq Nat
  /\ MaxMessages \in Nat

VARIABLES
  sent,       \* the size of each message written
  front,      \* the message at the front of the pipe
  taken,      \* how many of its bytes have been read
  client,     \* the broker's end of the pipe is open
  alive,      \* the broker process runs
  pc,         \* where the reader is
  why,        \* the result of the read that is being cancelled
  slice,      \* slices this call has waited for
  outMsg,     \* std::string& outMsg
  result,     \* what the last call returned
  delivered,  \* history: messages returned whole
  cancelled   \* history: messages a cancelled read took a chunk of

vars == <<sent, front, taken, client, alive, pc, why, slice, outMsg, result,
          delivered, cancelled>>

brokerVars == <<sent, client, alive>>
callVars   == <<slice, delivered>>

Failures == {"BrokerExited", "Failed"}

Init ==
  /\ sent = <<>>
  /\ front = 1 /\ taken = 0
  /\ client = TRUE /\ alive = TRUE
  /\ pc = "idle" /\ why = "none"
  /\ slice = 0
  /\ outMsg = <<>>
  /\ result = "none"
  /\ delivered = {} /\ cancelled = {}

-----------------------------------------------------------------------------
(* The pipe.                                                                *)

Unread    == front <= Len(sent)
Remaining == sent[front] - taken
Transfer  == IF Remaining < Chunk THEN Remaining ELSE Chunk

\* A read takes the next chunk of the front message out of the pipe.
TakeChunk ==
  IF Transfer = Remaining
  THEN front' = front + 1 /\ taken' = 0
  ELSE front' = front /\ taken' = taken + Transfer

ChunkBytes == [k \in 1 .. Transfer |-> <<front, taken + k>>]

\* The call ends.  After a failure the caller gives up the session.
Return(r) ==
  /\ result' = r
  /\ pc' = IF r \in Failures THEN "closed" ELSE "idle"

-----------------------------------------------------------------------------
(* ReadPipeMessageUntilDone and ReadPipeMessageWithTimeout.                 *)

Call ==
  /\ pc = "idle"
  /\ pc' = "read" /\ slice' = 0 /\ outMsg' = <<>>
  /\ UNCHANGED <<brokerVars, front, taken, why, result, delivered, cancelled>>

\* Mutant: a full buffer is taken for a whole message.
Received_IgnoresMoreData ==
  /\ Unread
  /\ TakeChunk
  /\ outMsg' = outMsg \o ChunkBytes
  /\ IF Transfer = 0 \/ Len(outMsg') > MaxMsgBytes
     THEN Return("Failed") /\ UNCHANGED delivered
     ELSE Return("Ok") /\ delivered' = delivered \cup {front}

\* Mutant: the limit is looked at when the message is complete.
Received_LateLimit ==
  /\ Unread
  /\ TakeChunk
  /\ LET all == outMsg \o ChunkBytes IN
     \/ /\ Transfer = 0 \/ (Transfer = Remaining /\ Len(all) > MaxMsgBytes)
        /\ outMsg' = IF Transfer = 0 THEN outMsg ELSE <<>>
        /\ Return("Failed")
        /\ UNCHANGED delivered
     \/ /\ Transfer > 0 /\ Len(all) <= MaxMsgBytes /\ Transfer = Remaining
        /\ outMsg' = all
        /\ Return("Ok")
        /\ delivered' = IF front \in cancelled THEN delivered
                        ELSE delivered \cup {front}
     \/ /\ Transfer > 0 /\ Transfer < Remaining
        /\ outMsg' = all
        /\ pc' = "read"
        /\ UNCHANGED <<result, delivered>>

\* Mutant: a message that is too large is skipped, and the next one read.
Received_SkipsLarge ==
  /\ Unread
  /\ LET all == outMsg \o ChunkBytes IN
     \/ /\ Transfer = 0 \/ Len(all) > MaxMsgBytes
        /\ front' = front + 1 /\ taken' = 0
        /\ outMsg' = <<>>
        /\ pc' = "read"
        /\ UNCHANGED <<result, delivered>>
     \/ /\ Transfer > 0 /\ Len(all) <= MaxMsgBytes /\ Transfer = Remaining
        /\ TakeChunk
        /\ outMsg' = all
        /\ Return("Ok")
        /\ delivered' = IF front \in cancelled THEN delivered
                        ELSE delivered \cup {front}
     \/ /\ Transfer > 0 /\ Len(all) <= MaxMsgBytes /\ Transfer < Remaining
        /\ TakeChunk
        /\ outMsg' = all
        /\ pc' = "read"
        /\ UNCHANGED <<result, delivered>>

\* A read completed, at once or after the wait: nothing in it or too much in
\* all fails, the last chunk ends the call, ERROR_MORE_DATA reads on.
Received ==
  /\ Unread
  /\ TakeChunk
  /\ LET all == outMsg \o ChunkBytes IN
     \/ /\ Transfer = 0 \/ Len(all) > MaxMsgBytes
        /\ outMsg' = IF Transfer = 0 THEN outMsg ELSE <<>>
        /\ Return("Failed")
        /\ UNCHANGED delivered
     \/ /\ Transfer > 0 /\ Len(all) <= MaxMsgBytes /\ Transfer = Remaining
        /\ outMsg' = all
        /\ Return("Ok")
        /\ delivered' = IF front \in cancelled THEN delivered
                        ELSE delivered \cup {front}
     \/ /\ Transfer > 0 /\ Len(all) <= MaxMsgBytes /\ Transfer < Remaining
        /\ outMsg' = all
        /\ pc' = "read"
        /\ UNCHANGED <<result, delivered>>

\* The broker closed its end and everything it wrote has been read.
PipeBroken ==
  /\ ~Unread /\ ~client
  /\ Return("BrokerExited")
  /\ UNCHANGED <<front, taken, outMsg, delivered>>

\* CreateEventW, ReadFile or GetOverlappedResult fails for another reason.
CallFails ==
  /\ Return("Failed")
  /\ UNCHANGED <<front, taken, outMsg, delivered>>

ReadFile ==
  /\ pc = "read"
  /\ \/ Received
     \/ PipeBroken
     \/ CallFails
     \/ /\ ~Unread /\ client     \* ERROR_IO_PENDING
        /\ pc' = "wait"
        /\ UNCHANGED <<front, taken, outMsg, result, delivered>>
  /\ UNCHANGED <<brokerVars, why, slice, cancelled>>

\* WaitForMultipleObjects: the event comes before the process.
ReadCompletes ==
  /\ pc = "wait"
  /\ Received \/ PipeBroken \/ CallFails
  /\ UNCHANGED <<brokerVars, why, slice, cancelled>>

GiveUp(r) ==
  /\ pc' = "cancel" /\ why' = r
  /\ UNCHANGED <<brokerVars, front, taken, slice, outMsg, result, delivered,
                 cancelled>>

Pending          == pc = "wait" /\ ~Unread /\ client
ProcessSignalled == Pending /\ ~alive /\ GiveUp("BrokerExited")
TimesOut         == Pending /\ GiveUp("Timeout")
WaitFails        == pc = "wait" /\ GiveUp("Failed")

\* CancelIoEx.  A read that completed in between keeps what it took: a chunk
\* of the message, which is wiped with the buffer.
CancelIoEx ==
  /\ pc = "cancel"
  /\ IF Unread
     THEN TakeChunk /\ cancelled' = cancelled \cup {front}
     ELSE UNCHANGED <<front, taken, cancelled>>
  /\ IF why = "Timeout"
     THEN /\ pc' = "check" /\ slice' = slice + 1
          /\ UNCHANGED result
     ELSE Return(why) /\ UNCHANGED slice
  /\ why' = "none"
  /\ UNCHANGED <<brokerVars, outMsg, delivered>>

\* After a slice: the process, then the overall time, then the next slice,
\* which starts with outMsg.clear().
CheckElapsed ==
  /\ pc = "check"
  /\ \/ ~alive /\ Return("BrokerExited") /\ UNCHANGED outMsg
     \/ alive /\ Return("Timeout") /\ UNCHANGED outMsg
     \/ /\ alive /\ slice < Slices
        /\ pc' = "read" /\ outMsg' = <<>>
        /\ UNCHANGED result
  /\ UNCHANGED <<brokerVars, front, taken, why, callVars, cancelled>>

-----------------------------------------------------------------------------
(* The broker.                                                              *)

readerVars == <<pc, why, slice, outMsg, result, delivered, cancelled>>

BrokerSends(size) ==
  /\ client /\ Len(sent) < MaxMessages
  /\ sent' = Append(sent, size)
  /\ UNCHANGED <<front, taken, client, alive, readerVars>>

BrokerDisconnects ==
  /\ client
  /\ client' = FALSE
  /\ UNCHANGED <<sent, front, taken, alive, readerVars>>

\* Its end of the pipe goes with the process unless a child holds on to it.
\* A write larger than the pipe's quota is pending until it has been read; it
\* may die with its process, and what was left of its message with it.
BrokerExits ==
  /\ alive
  /\ alive' = FALSE
  /\ \/ client' \in {FALSE, client} /\ UNCHANGED <<sent, taken>>
     \/ /\ Unread /\ client
        /\ client' = FALSE
        /\ sent' = SubSeq(sent, 1, Len(sent) - 1)
        /\ taken' = IF front = Len(sent) THEN 0 ELSE taken
  /\ UNCHANGED <<front, readerVars>>

Next ==
  \/ Call \/ ReadFile \/ ReadCompletes
  \/ ProcessSignalled \/ TimesOut \/ WaitFails
  \/ CancelIoEx \/ CheckElapsed
  \/ \E size \in Sizes : BrokerSends(size)
  \/ BrokerDisconnects \/ BrokerExits

Spec == Init /\ [][Next]_vars

-----------------------------------------------------------------------------

Message(m) == [k \in 1 .. sent[m] |-> <<m, k>>]

\* What is left of a message behind the chunk a cancelled read took.
Tail1(m) == SubSeq(Message(m), Chunk + 1, sent[m])

(***************************************************************************)
(* Ok comes with one message: all its bytes in order, none of another,     *)
(* within the size limit.  The exception is the tail of a message whose    *)
(* first chunk went to a read that was being cancelled: a piece that       *)
(* BrokerJson's PiecesAreRefused is about.                                 *)
(***************************************************************************)
OkIsOneMessage ==
  pc = "idle" /\ result = "Ok" =>
    /\ Len(outMsg) \in 1 .. MaxMsgBytes
    /\ \/ front - 1 \in delivered /\ outMsg = Message(front - 1)
       \/ front - 1 \in cancelled /\ outMsg = Tail1(front - 1)

(***************************************************************************)
(* Nothing the broker wrote is passed over while the session lives: a      *)
(* message is still in the pipe, or was returned whole, or lost a chunk to *)
(* a cancelled read.                                                       *)
(***************************************************************************)
NothingIsPassedOver ==
  pc # "closed" => \A m \in 1 .. front - 1 : m \in delivered \cup cancelled

(***************************************************************************)
(* However long a message is, the reader never goes on reading with more   *)
(* than the limit in its hands.                                            *)
(***************************************************************************)
BufferIsBounded == Len(outMsg) <= MaxMsgBytes
=============================================================================
