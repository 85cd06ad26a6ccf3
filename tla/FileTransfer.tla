---------------------------- MODULE FileTransfer -----------------------------
(***************************************************************************)
(* A file sent from one Kopete to another over Jabber.  At each end there  *)
(* is a Kopete::Transfer (a KJob that deletes itself when it has ended) in *)
(* the map of Kopete::TransferManager, a JabberFileTransfer that owns an   *)
(* XMPP::FileTransfer and has a plain pointer to the job, and the contact. *)
(* The receiver's user answers in dialogs, whose nested event loops let    *)
(* everything else happen.  Offers and answers are stanzas, which may be   *)
(* lost; the bytes come over a stream, which may break.  The file may be   *)
(* offered again, and what has been received is then resumed.              *)
(*                                                                         *)
(* A byte is its position in the sender's file, or Alien: in a file that   *)
(* was there before, or in place of what could not be read.                *)
(***************************************************************************)
EXTENDS Integers, Sequences, FiniteSetsExt

CONSTANTS
    MaxSize,        \* bound on the size of the file
    MaxOffers,      \* bound on the offers
    MaxFaults,      \* bound on broken streams, cancelled jobs and destroyed contacts
    MaxReadErrors,  \* bound on reads of the sender's disk that fail
    MaxWriteErrors  \* bound on writes to the receiver's disk that fail

ASSUME FileTransferAssumption ==
    {MaxSize, MaxOffers, MaxFaults, MaxReadErrors, MaxWriteErrors} \subseteq Nat

VARIABLES
    size,       \* of the sender's file
    exists,     \* the receiver has a file of that name
    disk,       \* and its bytes
    iq,         \* the stanza under way
    stream,     \* the byte stream
    jft,        \* each end's JabberFileTransfer: "none", "live" or "dying" (deleteLater)
    ft,         \* its XMPP::FileTransfer's state
    job,        \* its Kopete::Transfer: "none", "running", or how it ended, until it is deleted
    contact,    \* the contact is alive
    range,      \* XMPP::FileTransfer::Private::rangeOffset, length and sent
    left,       \* mBytesToTransfer
    request,    \* the receiver's request: "none", "thumbnail", "pending" or "answered"
    dialog,     \* the receiver's dialog: "none", "save" or "resume"
    crashed,    \* the ends that used a deleted object
    hazard,     \* history: what ended before its time at the receiver
    budget      \* what is left of the bounds

vars == <<size, exists, disk, iq, stream, jft, ft, job, contact, range, left, request, dialog,
          crashed, hazard, budget>>

S == "sender"
R == "receiver"
Ends == {S, R}
Alien == 0
Ended == {"complete", "error", "canceled"}
NoIq == [type |-> "none", offset |-> 0, length |-> 0]
NoStream == [up |-> FALSE, data |-> <<>>]
NoRange == [offset |-> 0, length |-> 0, sent |-> 0]

Alive(e) == e \notin crashed
Spend(what) == budget[what] > 0 /\ budget' = [budget EXCEPT ![what] = @ - 1]

Init ==
    /\ size \in 0..MaxSize
    /\ exists \in BOOLEAN
    /\ disk \in {[i \in 1..n |-> Alien] : n \in IF exists THEN 0..MaxSize + 1 ELSE {0}}
    /\ iq = NoIq /\ stream = NoStream
    /\ jft = [e \in Ends |-> "none"]
    /\ ft = [e \in Ends |-> "Idle"]
    /\ job = [e \in Ends |-> "none"]
    /\ contact = [e \in Ends |-> TRUE]
    /\ range = [e \in Ends |-> NoRange]
    /\ left = [e \in Ends |-> 0]
    /\ request = "none" /\ dialog = "none"
    /\ crashed = {} /\ hazard = "none"
    /\ budget = [offers |-> MaxOffers, faults |-> MaxFaults,
                 reads |-> MaxReadErrors, writes |-> MaxWriteErrors]
-----------------------------------------------------------------------------
(* Definitions named Mutant... are the forms a slip in the code would give *)
(* the definition that follows; the specification never uses them.         *)

(* KJob::emitResult(): the job ends once. *)
Finish(e, how) == [job EXCEPT ![e] = IF @ = "running" THEN how ELSE @]

DeleteLater(e) == [jft EXCEPT ![e] = IF @ = "live" THEN "dying" ELSE @]

(* FileTransfer::close(), which rejects an offer that is not answered yet. *)
Close(e) ==
    /\ ft' = [ft EXCEPT ![e] = "Idle"]
    /\ iq' = IF ft[e] = "WaitingForAccept" THEN [NoIq EXCEPT !.type = "reject"] ELSE iq
    /\ stream' = IF ft[e] = "Active" THEN [stream EXCEPT !.up = FALSE] ELSE stream

(* The error is left to the user interface. *)
MutantSlotTransferError(e) ==
    /\ jft' = DeleteLater(e)
    /\ UNCHANGED <<job, crashed>>

(* slotTransferError(): the job ends, unless it is gone. *)
SlotTransferError(e) ==
    IF job[e] = "none"
    THEN crashed' = crashed \cup {e} /\ UNCHANGED <<job, jft>>
    ELSE job' = Finish(e, "error") /\ jft' = DeleteLater(e) /\ UNCHANGED crashed

(* The job is left to its end. *)
MutantCanceled(e) ==
    /\ job' = Finish(e, "canceled")
    /\ UNCHANGED <<jft, ft, iq, stream>>
    /\ hazard' = IF e = R /\ dialog = "resume" THEN "resume" ELSE hazard

(* A job ends with ERR_USER_CANCELED: slotTransferResult(), which is       *)
(* connected at the receiver only after the resume box.                    *)
Canceled(e) ==
    /\ job' = Finish(e, "canceled")
    /\ IF jft[e] = "live" /\ ~(e = R /\ dialog = "resume")
       THEN Close(e) /\ jft' = DeleteLater(e)
       ELSE UNCHANGED <<jft, ft, iq, stream>>
    /\ hazard' = IF e = R /\ dialog = "resume" THEN "resume" ELSE hazard
-----------------------------------------------------------------------------
(* The sender. *)

Quiet(e) == job[e] = "none" /\ ft[e] = "Idle" /\ jft[e] # "dying"

(* JabberFileTransfer of an outgoing transfer.  When the file cannot be    *)
(* opened the job ends at once and the object is left behind.              *)
Send(canOpen) ==
    /\ contact[S] /\ Quiet(S) /\ Quiet(R) /\ iq = NoIq /\ crashed = {}
    /\ Spend("offers")
    /\ jft' = [jft EXCEPT ![S] = "live"]
    /\ job' = [job EXCEPT ![S] = IF canOpen THEN "running" ELSE "error"]
    /\ range' = [e \in Ends |-> NoRange] /\ left' = [e \in Ends |-> 0]
    /\ stream' = NoStream /\ request' = "none" /\ hazard' = "none"
    /\ IF canOpen THEN ft' = [ft EXCEPT ![S] = "Requesting"] /\ iq' = [NoIq EXCEPT !.type = "offer"]
                  ELSE UNCHANGED <<ft, iq>>
    /\ UNCHANGED <<size, exists, disk, contact, dialog, crashed>>

(* ft_finished() without success: refused, timed out after 120 seconds, or *)
(* disconnected. *)
OfferFailed ==
    /\ ft' = [ft EXCEPT ![S] = "Idle"]
    /\ SlotTransferError(S)
    /\ UNCHANGED <<size, exists, disk, stream, contact, range, left, request, dialog, hazard, budget>>

OfferTimeout == ft[S] = "Requesting" /\ OfferFailed /\ UNCHANGED iq

(* JT_FT::take() and ft_finished().  A late answer is ignored. *)
AnswerArrives ==
    /\ iq.type \in {"reject", "result"}
    /\ iq' = NoIq
    /\ IF ft[S] # "Requesting"
       THEN UNCHANGED <<size, exists, disk, stream, jft, ft, job, contact, range, left, request,
                        dialog, crashed, hazard, budget>>
       ELSE IF iq.type = "reject" \/ iq.offset > size \/ iq.length > size - iq.offset
       THEN OfferFailed
       ELSE /\ ft' = [ft EXCEPT ![S] = "Connecting"]
            /\ range' = [range EXCEPT ![S] =
                   [offset |-> iq.offset, sent |-> 0,
                    length |-> IF iq.length = 0 THEN size - iq.offset ELSE iq.length]]
            /\ UNCHANGED <<size, exists, disk, stream, jft, job, contact, left, request, dialog,
                           crashed, hazard, budget>>

(* slotOutgoingBytesWritten(), when togo bytes are left: the next ones are *)
(* written, or the transfer is complete. *)
SlotOutgoingBytesWritten(togo) ==
    /\ left' = [left EXCEPT ![S] = togo]
    /\ IF job[S] = "none" THEN crashed' = crashed \cup {S} /\ UNCHANGED <<job, jft>>
       ELSE /\ UNCHANGED crashed
            /\ IF togo = 0 THEN job' = Finish(S, "complete") /\ jft' = DeleteLater(S)
                           ELSE UNCHANGED <<job, jft>>

(* The stream connects the two ends: slotOutgoingConnected(). *)
StreamConnected ==
    /\ \A e \in Ends : Alive(e) /\ ft[e] = "Connecting"
    /\ ft' = [e \in Ends |-> "Active"]
    /\ stream' = [up |-> TRUE, data |-> <<>>]
    /\ SlotOutgoingBytesWritten(Min({range[S].length, size}))
    /\ UNCHANGED <<size, exists, disk, iq, contact, range, request, dialog, hazard, budget>>

(* stream_error() while connecting. *)
StreamFails(e) ==
    /\ Alive(e) /\ ft[e] = "Connecting"
    /\ ft' = [ft EXCEPT ![e] = "Idle"]
    /\ SlotTransferError(e)
    /\ UNCHANGED <<size, exists, disk, iq, stream, contact, range, left, request, dialog, hazard, budget>>

(* The file is read from its beginning. *)
MutantFileBytes(n, ok) == [i \in 1..n |-> IF ok THEN range[S].sent + i ELSE Alien]

(* The next n bytes of the file, in which slotOutgoingConnected() has      *)
(* sought the offset, or what the buffer held if read() failed: the result *)
(* of read() is not looked at.                                             *)
FileBytes(n, ok) ==
    [i \in 1..n |-> IF ok THEN range[S].offset + range[S].sent + i ELSE Alien]

(* Once a read has failed the position in the file is behind, and so are   *)
(* the bytes read after it.                                                *)
ReadFails == Spend("reads") \/ (budget.reads < MaxReadErrors /\ UNCHANGED budget)

(* stream_bytesWritten(): n bytes of the file are under way. *)
BytesWritten(n, ok) ==
    LET all == range[S].sent + n = range[S].length
    IN  /\ ft[S] = "Active" /\ stream.up /\ n \in 1..(range[S].length - range[S].sent)
        /\ IF ok THEN UNCHANGED budget ELSE ReadFails
        /\ range' = [range EXCEPT ![S].sent = @ + n]
        /\ stream' = [up |-> ~all, data |-> stream.data \o FileBytes(n, ok)]
        /\ ft' = [ft EXCEPT ![S] = IF all THEN "Idle" ELSE @]
        /\ SlotOutgoingBytesWritten(left[S] - n)
        /\ UNCHANGED <<size, exists, disk, iq, contact, request, dialog, hazard>>
-----------------------------------------------------------------------------
(* The receiver. *)

(* JabberFileTransfer of an incoming transfer; a contact is made up if     *)
(* there is none.  The user is asked at once, or when the thumbnail has    *)
(* come. *)
OfferArrives(thumbnail) ==
    /\ iq.type = "offer" /\ iq' = NoIq
    /\ jft' = [jft EXCEPT ![R] = "live"]
    /\ ft' = [ft EXCEPT ![R] = "WaitingForAccept"]
    /\ contact' = [contact EXCEPT ![R] = TRUE]
    /\ request' = IF thumbnail THEN "thumbnail" ELSE "pending"
    /\ UNCHANGED <<size, exists, disk, stream, job, range, left, dialog, crashed, hazard, budget>>

(* askIncomingTransfer(), for the thumbnail or after five seconds, uses    *)
(* the contact.  The other of the two finds the request made. *)
AskIncomingTransfer ==
    /\ Alive(R) /\ request = "thumbnail"
    /\ IF contact[R] THEN request' = "pending" /\ UNCHANGED crashed
                     ELSE crashed' = crashed \cup {R} /\ UNCHANGED request
    /\ UNCHANGED <<size, exists, disk, iq, stream, jft, ft, job, contact, range, left, dialog, hazard, budget>>

Answerable == Alive(R) /\ request = "pending" /\ dialog = "none" /\ contact[R]

(* cancelIncomingTransfer(), from the message or with its window. *)
CancelIncomingTransfer ==
    /\ Answerable
    /\ request' = "answered" /\ jft' = DeleteLater(R)
    /\ UNCHANGED <<size, exists, disk, iq, stream, ft, job, contact, range, left, dialog, crashed, hazard, budget>>

(* saveIncomingTransfer() opens the file dialog, which the user may leave. *)
SaveIncomingTransfer ==
    /\ Answerable
    /\ dialog' = "save"
    /\ UNCHANGED <<size, exists, disk, iq, stream, jft, ft, job, contact, range, left, request, crashed, hazard, budget>>

SaveDialogLeft ==
    /\ Alive(R) /\ dialog = "save"
    /\ dialog' = "none"
    /\ UNCHANGED <<size, exists, disk, iq, stream, jft, ft, job, contact, range, left, request, crashed, hazard, budget>>

(* The length is sent as it is. *)
MutantRespondSuccess(offset, length) == [type |-> "result", offset |-> offset, length |-> length]

(* JT_PushFT::respondSuccess() leaves out what is not positive. *)
RespondSuccess(offset, length) ==
    [type |-> "result", offset |-> offset, length |-> Max({length, 0})]

(* The end of slotIncomingTransferAccepted(): the file could be opened, to *)
(* be resumed or from its beginning, or not.  FileTransfer::accept() takes *)
(* no length, or a negative one, for the whole file.                       *)
Accept(resume, ok) ==
    LET offset == IF resume THEN Len(disk) ELSE 0
        length == IF resume THEN size - offset ELSE 0
    IN  IF ok
        THEN /\ exists' = TRUE
             /\ disk' = IF resume THEN disk ELSE <<>>
             /\ ft' = [ft EXCEPT ![R] = "Connecting"]
             /\ iq' = RespondSuccess(offset, length)
             /\ range' = [range EXCEPT ![R] =
                    [offset |-> offset, length |-> IF length > 0 THEN length ELSE size, sent |-> 0]]
             /\ left' = [left EXCEPT ![R] = IF resume THEN length ELSE size]
             /\ UNCHANGED jft
        ELSE jft' = DeleteLater(R) /\ UNCHANGED <<exists, disk, ft, iq, range, left>>

(* A file is chosen and the job made.  A new file is opened; for the one   *)
(* that is there, a box asks. *)
SaveDialogDone(new, ok) ==
    /\ Alive(R) /\ dialog = "save" /\ (new \/ exists)
    /\ IF new
       THEN /\ Accept(FALSE, ok)
            /\ job' = [job EXCEPT ![R] = IF ok THEN "running" ELSE "error"]
            /\ dialog' = "none" /\ request' = "answered"
       ELSE /\ job' = [job EXCEPT ![R] = "running"]
            /\ dialog' = "resume"
            /\ UNCHANGED <<exists, disk, jft, ft, iq, range, left, request>>
    /\ UNCHANGED <<size, stream, contact, crashed, hazard, budget>>

(* The resume box is answered.  The job may have been deleted meanwhile:   *)
(* Cancel does not use it. *)
ResumeBoxDone(answer, ok) ==
    /\ Alive(R) /\ dialog = "resume"
    /\ dialog' = "none" /\ request' = "answered"
    /\ CASE answer = "cancel" ->
              /\ jft' = DeleteLater(R)
              /\ UNCHANGED <<exists, disk, ft, iq, range, left, job, crashed>>
         [] answer # "cancel" /\ job[R] = "none" ->
              /\ crashed' = crashed \cup {R}
              /\ UNCHANGED <<exists, disk, jft, ft, iq, range, left, job>>
         [] OTHER ->
              /\ Accept(answer = "resume", ok)
              /\ job' = IF ok THEN job ELSE Finish(R, "error")
              /\ UNCHANGED crashed
    /\ UNCHANGED <<size, stream, contact, hazard, budget>>

(* stream_readyRead() and slotIncomingDataReady(), which does not look at  *)
(* the result of the write. *)
ReadyRead(n, written) ==
    LET a == SubSeq(stream.data, 1, Min({n, range[R].length - range[R].sent}))
        togo == left[R] - Len(a)
    IN  /\ Alive(R) /\ ft[R] = "Active" /\ n \in 1..Len(stream.data)
        /\ stream' = [stream EXCEPT !.data = SubSeq(@, n + 1, Len(@))]
        /\ range' = [range EXCEPT ![R].sent = @ + Len(a)]
        /\ left' = [left EXCEPT ![R] = togo]
        /\ IF written THEN UNCHANGED budget ELSE Spend("writes")
        /\ disk' = IF written THEN disk \o a ELSE disk
        /\ IF job[R] = "none" THEN crashed' = crashed \cup {R} /\ UNCHANGED <<job, jft>>
           ELSE /\ UNCHANGED crashed
                /\ IF togo <= 0 THEN job' = Finish(R, "complete") /\ jft' = DeleteLater(R)
                                ELSE UNCHANGED <<job, jft>>
        /\ UNCHANGED <<size, exists, iq, ft, contact, request, dialog, hazard>>
-----------------------------------------------------------------------------
(* Either end. *)

(* stream_connectionClosed(): an error only if bytes are missing. *)
StreamClosed(e) ==
    /\ Alive(e) /\ ft[e] = "Active" /\ ~stream.up /\ (e = R => stream.data = <<>>)
    /\ ft' = [ft EXCEPT ![e] = "Idle"]
    /\ IF range[e].sent # range[e].length THEN SlotTransferError(e) ELSE UNCHANGED <<job, jft, crashed>>
    /\ UNCHANGED <<size, exists, disk, iq, stream, contact, range, left, request, dialog, hazard, budget>>

(* The stream breaks, stream_error() at one end; of what is under way only *)
(* the first k bytes arrive. *)
StreamBreaks(e, k) ==
    /\ Alive(e) /\ ft[e] = "Active" /\ stream.up /\ k \in 0..Len(stream.data)
    /\ Spend("faults")
    /\ ft' = [ft EXCEPT ![e] = "Idle"]
    /\ stream' = [up |-> FALSE, data |-> SubSeq(stream.data, 1, k)]
    /\ SlotTransferError(e)
    /\ UNCHANGED <<size, exists, disk, iq, contact, range, left, request, dialog, hazard>>

(* The user cancels the job in the desktop's list of jobs. *)
KillJob(e) ==
    /\ Alive(e) /\ job[e] = "running"
    /\ Spend("faults")
    /\ Canceled(e)
    /\ UNCHANGED <<size, exists, disk, contact, range, left, request, dialog, crashed>>

(* The contact is deleted: slotContactDestroyed() of the job. *)
ContactDestroyed(e) ==
    /\ Alive(e) /\ contact[e]
    /\ Spend("faults")
    /\ contact' = [contact EXCEPT ![e] = FALSE]
    /\ IF job[e] = "running" THEN Canceled(e)
       ELSE /\ hazard' = IF e = R /\ request = "thumbnail" THEN "thumbnail" ELSE hazard
            /\ UNCHANGED <<job, jft, ft, iq, stream>>
    /\ UNCHANGED <<size, exists, disk, range, left, request, dialog, crashed>>

(* The objects that asked for it are deleted; ~JabberFileTransfer() closes *)
(* the XMPP transfer. *)
DeferredDelete(e) ==
    /\ Alive(e) /\ (jft[e] = "dying" \/ job[e] \in Ended)
    /\ job' = [job EXCEPT ![e] = IF @ \in Ended THEN "none" ELSE @]
    /\ jft' = [jft EXCEPT ![e] = IF @ = "dying" THEN "none" ELSE @]
    /\ IF jft[e] = "dying" THEN Close(e) ELSE UNCHANGED <<ft, iq, stream>>
    /\ UNCHANGED <<size, exists, disk, contact, range, left, request, dialog, crashed, hazard, budget>>

(* A stanza is lost with the connection. *)
StanzaLost ==
    /\ iq # NoIq
    /\ iq' = NoIq
    /\ UNCHANGED <<size, exists, disk, stream, jft, ft, job, contact, range, left, request,
                   dialog, crashed, hazard, budget>>

(* The stream of an end that has crashed is closed. *)
CrashSeen ==
    /\ R \in crashed /\ stream.up
    /\ stream' = [stream EXCEPT !.up = FALSE]
    /\ UNCHANGED <<size, exists, disk, iq, jft, ft, job, contact, range, left, request,
                   dialog, crashed, hazard, budget>>
-----------------------------------------------------------------------------
Written == \E n \in 1..MaxSize, ok \in BOOLEAN : BytesWritten(n, ok)
Read == \E n \in 1..MaxSize, written \in BOOLEAN : ReadyRead(n, written)

Next ==
    \/ \E canOpen \in BOOLEAN : Send(canOpen)
    \/ OfferTimeout \/ AnswerArrives \/ StreamConnected \/ Written
    \/ \E thumbnail \in BOOLEAN : OfferArrives(thumbnail)
    \/ AskIncomingTransfer \/ CancelIncomingTransfer \/ SaveIncomingTransfer \/ SaveDialogLeft
    \/ \E new, ok \in BOOLEAN : SaveDialogDone(new, ok)
    \/ \E answer \in {"resume", "overwrite", "cancel"}, ok \in BOOLEAN : ResumeBoxDone(answer, ok)
    \/ Read
    \/ \E e \in Ends : \/ StreamFails(e) \/ StreamClosed(e) \/ KillJob(e) \/ ContactDestroyed(e)
                       \/ DeferredDelete(e)
                       \/ \E k \in 0..MaxSize : StreamBreaks(e, k)
    \/ StanzaLost \/ CrashSeen

Spec == Init /\ [][Next]_vars

(* The request's task times out, a stream connects or fails, bytes that    *)
(* are written or have arrived are signalled, and the event loop deletes   *)
(* what waits for it.  The users need not answer. *)
FairSpec ==
    /\ Spec
    /\ WF_vars(OfferTimeout) /\ WF_vars(StreamConnected \/ StreamFails(S))
    /\ WF_vars(Written) /\ WF_vars(Read) /\ WF_vars(CrashSeen)
    /\ \A e \in Ends : WF_vars(StreamClosed(e)) /\ WF_vars(DeferredDelete(e))
-----------------------------------------------------------------------------
(* Every variable keeps its type. *)
TypeOK ==
    /\ size \in 0..MaxSize /\ exists \in BOOLEAN
    /\ disk \in Seq(0..MaxSize)
    /\ iq \in [type : {"none", "offer", "reject", "result"}, offset : Nat, length : Nat]
    /\ stream \in [up : BOOLEAN, data : Seq(0..MaxSize)]
    /\ jft \in [Ends -> {"none", "live", "dying"}]
    /\ ft \in [Ends -> {"Idle", "Requesting", "WaitingForAccept", "Connecting", "Active"}]
    /\ job \in [Ends -> {"none", "running"} \cup Ended]
    /\ contact \in [Ends -> BOOLEAN]
    /\ range \in [Ends -> [offset : Nat, length : Nat, sent : Nat]]
    /\ left \in [Ends -> Int]
    /\ request \in {"none", "thumbnail", "pending", "answered"}
    /\ dialog \in {"none", "save", "resume"}
    /\ crashed \subseteq Ends /\ hazard \in {"none", "resume", "thumbnail"}
    /\ budget \in [{"offers", "faults", "reads", "writes"} -> Nat]

(* The plain pointers to the job and the contact are used after these were *)
(* deleted only if the job ended while the resume box was open, or the     *)
(* contact while the thumbnail was awaited; never at the sender, and never *)
(* because of a job cancelled, a broken stream or late bytes.              *)
UsesLiveObjects ==
    /\ S \notin crashed
    /\ R \in crashed => hazard # "none"

(* A file that is reported complete has the length of the sender's, and    *)
(* each byte received is at its place, whatever was resumed, broken off or *)
(* cancelled before - unless a read failed at the sender or a write at the *)
(* receiver, which slotOutgoingBytesWritten() and slotIncomingDataReady()  *)
(* do not look at.                                                         *)
CompleteIsWhole ==
    job[R] = "complete" /\ budget.reads = MaxReadErrors /\ budget.writes = MaxWriteErrors =>
        /\ Len(disk) = size
        /\ \A i \in 1..size : disk[i] \in {i, Alien}

(* The sender's transfer always ends, and the receiver's once the stream   *)
(* is there, unless the file is empty: nothing then calls                  *)
(* slotIncomingDataReady(), and the end of the stream is no error.         *)
TransfersEnd ==
    /\ job[S] = "running" ~> job[S] # "running"
    /\ job[R] = "running" /\ ft[R] = "Active" /\ size > 0 ~> job[R] # "running"
=============================================================================
