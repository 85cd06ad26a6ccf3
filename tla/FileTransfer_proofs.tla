------------------------- MODULE FileTransfer_proofs --------------------------
(***************************************************************************)
(* Proofs, for a file of any size and any bounds, that the two ends of a   *)
(* transfer use no deleted object and that a file reported complete is     *)
(* whole.                                                                  *)
(***************************************************************************)
EXTENDS FileTransfer, SequenceTheorems, TLAPS

(* The objects of an end whose XMPP transfer can still signal: there is a  *)
(* job, and once it has ended the JabberFileTransfer goes with it.         *)
Held(e) ==
    /\ job[e] # "none" /\ jft[e] # "none"
    /\ job[e] \in Ended => jft[e] = "dying"

(* While nothing ended before its time, whoever may signal holds its       *)
(* objects.  At the sender nothing ever does.                              *)
SignalsHeld ==
    /\ ft[S] # "Idle" => Held(S)
    /\ hazard = "none" /\ ft[R] \in {"Connecting", "Active"} => Held(R)

(* An offer waits for the user's answer, in the message or in a dialog;    *)
(* only the resume box is open with a job.                                 *)
RequestOpen ==
    /\ request \in {"thumbnail", "pending"} =>
         /\ ft[R] = "WaitingForAccept" /\ jft[R] = "live"
         /\ dialog # "resume" => job[R] = "none"
    /\ dialog # "none" => request = "pending" /\ job[R] # "complete"
    /\ iq.type = "offer" => ft[R] = "Idle" /\ job[R] = "none"

(* The two ways to lose an object that will be used are recorded. *)
HazardKnown ==
    /\ request = "thumbnail" /\ ~contact[R] => hazard # "none"
    /\ dialog = "resume" /\ job[R] # "running" => hazard # "none"

LiveInv == SignalsHeld /\ RequestOpen /\ HazardKnown /\ UsesLiveObjects

(* What the sender still has to send lies within its file. *)
RangeOK ==
    /\ range[S].offset + range[S].length <= size
    /\ range[S].sent <= range[S].length
    /\ budget.reads <= MaxReadErrors /\ budget.writes <= MaxWriteErrors

NoDiskError == budget.reads = MaxReadErrors /\ budget.writes = MaxWriteErrors

(* The ends answer one another: nobody connects while the user is asked. *)
AnswersInOrder ==
    /\ iq.type = "offer" => ft[S] \in {"Idle", "Requesting"}
    /\ ft[R] = "WaitingForAccept" => iq.type # "result" /\ ft[S] \notin {"Connecting", "Active"}

(* The receiver's answer, its range and what it expects agree with its     *)
(* file, and so does the range the sender makes of the answer.             *)
RangesAgree ==
    ft[R] = "Connecting" =>
        /\ range[R].offset = Len(disk) /\ range[R].sent = 0
        /\ left[R] = size - Len(disk) /\ range[R].length >= left[R]
        /\ iq.type = "result" => iq.offset = Len(disk) /\ iq.length \in {0, size - Len(disk)}
        /\ ft[S] = "Connecting" =>
             range[S] = [offset |-> Len(disk), length |-> size - Len(disk), sent |-> 0]

(* The bytes under way continue the receiver's file. *)
BytesContinue ==
    ft[R] = "Active" /\ NoDiskError =>
        /\ Len(disk) + Len(stream.data) <= size
        /\ left[R] = size - Len(disk)
        /\ range[R].length - range[R].sent >= left[R]
        /\ \A k \in 1..Len(stream.data) : stream.data[k] = Len(disk) + k
        /\ ft[S] = "Active" /\ stream.up =>
             range[S].offset + range[S].sent = Len(disk) + Len(stream.data)

(* Each byte received is at its place, and complete means all are there. *)
FileSound ==
    NoDiskError =>
        /\ \A i \in 1..Len(disk) : disk[i] \in {i, Alien}
        /\ job[R] = "complete" => Len(disk) = size

DataInv == AnswersInOrder /\ RangesAgree /\ BytesContinue /\ FileSound

(* The inductive invariant. *)
IInv == TypeOK /\ RangeOK /\ LiveInv /\ DataInv

-----------------------------------------------------------------------------
(* The types of the parts of the state. *)
JftStates == {"none", "live", "dying"}
FtStates == {"Idle", "Requesting", "WaitingForAccept", "Connecting", "Active"}
JobStates == {"none", "running"} \cup Ended
Stanzas == [type : {"none", "offer", "reject", "result"}, offset : Nat, length : Nat]
Streams == [up : BOOLEAN, data : Seq(0..MaxSize)]
Ranges == [offset : Nat, length : Nat, sent : Nat]
Bounds == {"offers", "faults", "reads", "writes"}

USE DEF JftStates, FtStates, JobStates, Stanzas, Streams, Ranges, Bounds

(* The bounds are numbers, and there are two ends. *)
LEMMA Constants ==
    /\ MaxSize \in Nat /\ MaxOffers \in Nat /\ MaxFaults \in Nat
    /\ MaxReadErrors \in Nat /\ MaxWriteErrors \in Nat
    /\ S \in Ends /\ R \in Ends /\ S # R
BY FileTransferAssumption DEF S, R, Ends

(* The smaller and the larger of two numbers. *)
LEMMA MinPair ==
    ASSUME NEW a \in Int, NEW b \in Int
    PROVE  Min({a, b}) \in {a, b} /\ Min({a, b}) <= a /\ Min({a, b}) <= b
<1>1. \E x \in {a, b} : \A y \in {a, b} : x <= y
  OBVIOUS
<1> QED
  BY <1>1 DEF Min

LEMMA MaxPair ==
    ASSUME NEW a \in Int, NEW b \in Int
    PROVE  Max({a, b}) \in {a, b} /\ Max({a, b}) >= a /\ Max({a, b}) >= b
<1>1. \E x \in {a, b} : \A y \in {a, b} : x >= y
  OBVIOUS
<1> QED
  BY <1>1 DEF Max

(* Ending the job and asking for the deletion of the JabberFileTransfer    *)
(* change only their own end.                                              *)
LEMMA EndingTypes ==
    ASSUME TypeOK, NEW e \in Ends, NEW how \in Ended
    PROVE  /\ Finish(e, how) \in [Ends -> JobStates]
           /\ Finish(e, how)[e] = IF job[e] = "running" THEN how ELSE job[e]
           /\ \A f \in Ends \ {e} : Finish(e, how)[f] = job[f]
           /\ DeleteLater(e) \in [Ends -> JftStates]
           /\ DeleteLater(e)[e] = IF jft[e] = "live" THEN "dying" ELSE jft[e]
           /\ \A f \in Ends \ {e} : DeleteLater(e)[f] = jft[f]
BY DEF Finish, DeleteLater, TypeOK, Ended

(* Closing the XMPP transfer of an end. *)
LEMMA CloseTypes ==
    ASSUME TypeOK, NEW e \in Ends, Close(e)
    PROVE  /\ ft' \in [Ends -> FtStates]
           /\ ft'[e] = "Idle" /\ \A f \in Ends \ {e} : ft'[f] = ft[f]
           /\ iq' \in Stanzas
           /\ iq' = iq \/ iq'.type = "reject"
           /\ stream' \in Streams
           /\ stream'.data = stream.data
           /\ stream' = stream \/ (~stream'.up)
           /\ ft[e] = "Active" => ~stream'.up
<1>1. /\ ft' \in [Ends -> FtStates]
      /\ ft'[e] = "Idle" /\ \A f \in Ends \ {e} : ft'[f] = ft[f]
  BY DEF Close, TypeOK
<1>2. iq' \in Stanzas /\ (iq' = iq \/ iq'.type = "reject")
  BY DEF Close, TypeOK, NoIq
<1>3. stream.up \in BOOLEAN /\ stream.data \in Seq(0..MaxSize)
  BY DEF TypeOK
<1>4. LET down == [stream EXCEPT !.up = FALSE]
      IN  down \in Streams /\ down.data = stream.data /\ ~down.up
  BY DEF TypeOK
<1>5. CASE ft[e] = "Active"
  BY <1>1, <1>2, <1>3, <1>4, <1>5 DEF Close
<1>6. CASE ft[e] # "Active"
  BY <1>1, <1>2, <1>3, <1>6 DEF Close, TypeOK
<1> QED
  BY <1>5, <1>6

LEMMA SpendTypes ==
    ASSUME TypeOK, RangeOK, NEW what \in Bounds, Spend(what)
    PROVE  /\ budget' \in [Bounds -> Nat]
           /\ budget'.reads <= MaxReadErrors /\ budget'.writes <= MaxWriteErrors
           /\ what # "reads" => budget'.reads = budget.reads
           /\ what = "reads" => budget'.reads < MaxReadErrors
           /\ what # "writes" => budget'.writes = budget.writes
           /\ what = "writes" => budget'.writes < MaxWriteErrors
<1>1. budget \in [Bounds -> Nat] /\ MaxReadErrors \in Nat /\ MaxWriteErrors \in Nat
  BY FileTransferAssumption DEF TypeOK
<1>2. /\ budget' = [budget EXCEPT ![what] = @ - 1] /\ budget[what] > 0
      /\ budget["reads"] <= MaxReadErrors /\ budget["writes"] <= MaxWriteErrors
  BY DEF Spend, RangeOK
<1> QED
  BY <1>1, <1>2

(* slotTransferError() ends the job, if there is one. *)
LEMMA ErrorTypes ==
    ASSUME TypeOK, NEW e \in Ends, SlotTransferError(e)
    PROVE  /\ job' \in [Ends -> JobStates] /\ jft' \in [Ends -> JftStates]
           /\ \A f \in Ends \ {e} : job'[f] = job[f] /\ jft'[f] = jft[f]
           /\ crashed' \subseteq Ends
           /\ job[e] # "none" =>
                /\ crashed' = crashed
                /\ job'[e] = IF job[e] = "running" THEN "error" ELSE job[e]
                /\ jft'[e] = IF jft[e] = "live" THEN "dying" ELSE jft[e]
           /\ job[e] = "none" => crashed' = crashed \cup {e} /\ job' = job /\ jft' = jft
<1>1. CASE job[e] = "none"
  BY <1>1 DEF SlotTransferError, TypeOK
<1>2. CASE job[e] # "none"
  <2>1. job' = Finish(e, "error") /\ jft' = DeleteLater(e) /\ crashed' = crashed
    BY <1>2 DEF SlotTransferError
  <2>2. "error" \in Ended
    BY DEF Ended
  <2>3. crashed \subseteq Ends
    BY DEF TypeOK
  <2> QED
    BY <1>2, <2>1, <2>2, <2>3, EndingTypes
<1> QED
  BY <1>1, <1>2

(* A cancelled job takes the transfer with it, unless the resume box is    *)
(* open.                                                                   *)
LEMMA CanceledTypes ==
    ASSUME TypeOK, NEW e \in Ends, Canceled(e), job[e] = "running"
    PROVE  /\ job' \in [Ends -> JobStates] /\ jft' \in [Ends -> JftStates]
           /\ ft' \in [Ends -> FtStates] /\ iq' \in Stanzas /\ stream' \in Streams
           /\ hazard' = IF e = R /\ dialog = "resume" THEN "resume" ELSE hazard
           /\ job'[e] = "canceled"
           /\ \A f \in Ends \ {e} : job'[f] = job[f] /\ jft'[f] = jft[f] /\ ft'[f] = ft[f]
           /\ iq' = iq \/ iq'.type = "reject"
           /\ stream'.data = stream.data
           /\ stream' = stream \/ (~stream'.up)
           /\ \/ ft'[e] = "Idle" /\ jft'[e] = "dying" /\ ~(e = R /\ dialog = "resume")
              \/ ft'[e] = ft[e] /\ jft'[e] = jft[e] /\ (jft[e] # "live" \/ (e = R /\ dialog = "resume"))
<1>1. job' = Finish(e, "canceled") /\ hazard' = IF e = R /\ dialog = "resume" THEN "resume" ELSE hazard
  BY DEF Canceled
<1>2. /\ job' \in [Ends -> JobStates] /\ job'[e] = "canceled"
      /\ \A f \in Ends \ {e} : job'[f] = job[f]
  BY <1>1, EndingTypes DEF Ended
<1>3. CASE jft[e] = "live" /\ ~(e = R /\ dialog = "resume")
  <2>1. Close(e) /\ jft' = DeleteLater(e)
    BY <1>3 DEF Canceled
  <2>2. /\ jft' \in [Ends -> JftStates] /\ jft'[e] = "dying"
        /\ \A f \in Ends \ {e} : jft'[f] = jft[f]
    BY <1>3, <2>1, EndingTypes DEF Ended
  <2> QED
    BY <1>1, <1>2, <1>3, <2>1, <2>2, CloseTypes
<1>4. CASE ~(jft[e] = "live" /\ ~(e = R /\ dialog = "resume"))
  BY <1>1, <1>2, <1>4 DEF Canceled, TypeOK
<1> QED
  BY <1>3, <1>4

(* slotOutgoingBytesWritten() ends the sender's job when all is sent. *)
LEMMA OutgoingTypes ==
    ASSUME TypeOK, NEW togo \in Int, SlotOutgoingBytesWritten(togo)
    PROVE  /\ left' \in [Ends -> Int] /\ left'[R] = left[R]
           /\ job' \in [Ends -> JobStates] /\ jft' \in [Ends -> JftStates]
           /\ job'[R] = job[R] /\ jft'[R] = jft[R]
           /\ crashed' \subseteq Ends
           /\ job[S] # "none" => crashed' = crashed
           /\ \/ job'[S] = job[S] /\ jft'[S] = jft[S]
              \/ /\ job'[S] = IF job[S] = "running" THEN "complete" ELSE job[S]
                 /\ jft'[S] = IF jft[S] = "live" THEN "dying" ELSE jft[S]
<1>1. S \in Ends /\ R \in Ends /\ S # R
  BY DEF S, R, Ends
<1>2. left' \in [Ends -> Int] /\ left'[R] = left[R]
  BY <1>1 DEF SlotOutgoingBytesWritten, TypeOK
<1>3. CASE UNCHANGED <<job, jft>>
  BY <1>1, <1>2, <1>3, SMTT(30) DEF SlotOutgoingBytesWritten, TypeOK
<1>4. CASE job[S] # "none" /\ job' = Finish(S, "complete") /\ jft' = DeleteLater(S) /\ UNCHANGED crashed
  <2>1. "complete" \in Ended
    BY DEF Ended
  <2>2. crashed \subseteq Ends
    BY DEF TypeOK
  <2> QED
    BY <1>1, <1>2, <1>4, <2>1, <2>2, EndingTypes
<1> QED
  BY <1>3, <1>4 DEF SlotOutgoingBytesWritten

(* What slotIncomingTransferAccepted() promises the sender: its range and  *)
(* what it expects are what is missing of the file.                        *)
LEMMA AcceptTypes ==
    ASSUME TypeOK, NEW resume \in BOOLEAN, NEW ok \in BOOLEAN, Accept(resume, ok)
    PROVE  /\ ~ok => UNCHANGED <<exists, disk, ft, iq, range, left>> /\ jft' = DeleteLater(R)
           /\ ok => /\ exists' = TRUE /\ disk' \in {disk, <<>>} /\ disk' \in Seq(0..MaxSize)
                    /\ jft' = jft
                    /\ ft' \in [Ends -> FtStates] /\ ft'[R] = "Connecting" /\ ft'[S] = ft[S]
                    /\ iq' \in Stanzas /\ iq'.type = "result" /\ iq'.offset = Len(disk')
                    /\ iq'.length \in {0, size - Len(disk')}
                    /\ range' \in [Ends -> Ranges] /\ range'[S] = range[S]
                    /\ range'[R].offset = Len(disk') /\ range'[R].sent = 0
                    /\ left' \in [Ends -> Int] /\ left'[R] = size - Len(disk')
                    /\ range'[R].length >= left'[R]
<1> DEFINE offset == IF resume THEN Len(disk) ELSE 0
           length == IF resume THEN size - offset ELSE 0
           whole == IF length > 0 THEN length ELSE size
<1>1. CASE ~ok
  BY <1>1 DEF Accept
<1>2. CASE ok
  <2>0. S \in Ends /\ R \in Ends /\ S # R
    BY DEF S, R, Ends
  <2>1. size \in Nat /\ disk \in Seq(0..MaxSize) /\ Len(disk) \in Nat
    BY FileTransferAssumption DEF TypeOK
  <2>2. /\ disk' = IF resume THEN disk ELSE <<>>
        /\ iq' = RespondSuccess(offset, length)
        /\ range' = [range EXCEPT ![R] = [offset |-> offset, length |-> whole, sent |-> 0]]
        /\ left' = [left EXCEPT ![R] = IF resume THEN length ELSE size]
        /\ ft' = [ft EXCEPT ![R] = "Connecting"]
        /\ exists' = TRUE /\ jft' = jft
    BY <1>2 DEF Accept
  <2>3. disk' \in {disk, <<>>} /\ disk' \in Seq(0..MaxSize) /\ offset = Len(disk') /\ offset \in Nat
    <3>1. <<>> \in Seq(0..MaxSize) /\ Len(<<>>) = 0
      OBVIOUS
    <3>2. CASE resume
      BY <2>1, <2>2, <3>2
    <3>3. CASE ~resume
      BY <2>2, <3>1, <3>3
    <3> QED
      BY <3>2, <3>3
  <2>4. length \in Int /\ whole \in Nat /\ whole >= size - offset /\ length \in {0, size - offset}
    <3>1. CASE resume
      <4>1. length = size - offset
        BY <3>1
      <4> HIDE DEF length, offset
      <4> QED
        BY <2>1, <2>3, <4>1
    <3>2. CASE ~resume
      <4>1. length = 0 /\ offset = 0
        BY <3>2
      <4> HIDE DEF length, offset
      <4> QED
        BY <2>1, <4>1
    <3> QED
      BY <3>1, <3>2
  <2> DEFINE due == IF resume THEN length ELSE size
  <2>9. due = size - offset /\ due \in Int
    <3>1. CASE resume
      BY <2>1, <2>3, <3>1
    <3>2. CASE ~resume
      BY <2>1, <3>2
    <3> QED
      BY <3>1, <3>2
  <2> HIDE DEF offset, length, whole, due
  <2>5. left' \in [Ends -> Int] /\ left'[R] = size - offset
    <3>1. left' = [left EXCEPT ![R] = due]
      BY <2>2 DEF due
    <3> QED
      BY <2>0, <2>9, <3>1 DEF TypeOK
  <2>6. /\ range' \in [Ends -> Ranges] /\ range'[S] = range[S]
        /\ range'[R] = [offset |-> offset, length |-> whole, sent |-> 0]
    BY <2>0, <2>2, <2>3, <2>4 DEF TypeOK
  <2>7. /\ iq' = [type |-> "result", offset |-> offset, length |-> Max({length, 0})]
        /\ Max({length, 0}) \in Nat /\ Max({length, 0}) \in {0, size - offset}
    <3>1. Max({length, 0}) \in {length, 0} /\ Max({length, 0}) >= 0
      BY <2>4, MaxPair
    <3> QED
      BY <2>2, <2>4, <3>1 DEF RespondSuccess
  <2>8. ft' \in [Ends -> FtStates] /\ ft'[R] = "Connecting" /\ ft'[S] = ft[S]
    BY <2>0, <2>2 DEF TypeOK
  <2> QED
    BY <1>2, <2>2, <2>3, <2>4, <2>5, <2>6, <2>7, <2>8
<1> QED
  BY <1>1, <1>2

(* Of the first n bytes of d a reader with room for `free' takes m. *)
LEMMA Taken ==
    \A d \in Seq(0..MaxSize), free \in Int : \A n \in 1..Len(d) : \E m \in 0..n :
        /\ SubSeq(d, 1, Min({n, free})) = SubSeq(d, 1, m)
        /\ free >= n => m = n
        /\ SubSeq(d, 1, m) \in Seq(0..MaxSize) /\ Len(SubSeq(d, 1, m)) = m
        /\ \A k \in 1..m : SubSeq(d, 1, m)[k] = d[k]
<1> TAKE d \in Seq(0..MaxSize), free \in Int
<1> TAKE n \in 1..Len(d)
<1> DEFINE T == 0..MaxSize
<1>6. d \in Seq(T)
  OBVIOUS
<1> HIDE DEF T
<1> DEFINE least == Min({n, free})
<1>0. n \in Int /\ n \in Nat /\ 1 <= n /\ n <= Len(d) /\ Len(d) \in Nat
  OBVIOUS
<1>1. least \in {n, free} /\ least <= n /\ least <= free
  BY <1>0, MinPair, Zenon
<1> HIDE DEF least
<1>2. ASSUME NEW m \in 0..n
      PROVE  /\ SubSeq(d, 1, m) \in Seq(T) /\ Len(SubSeq(d, 1, m)) = m
             /\ \A k \in 1..m : SubSeq(d, 1, m)[k] = d[k]
  <2>1. \A i \in 1..m : d[i] \in T
    BY <1>0, <1>6
  <2> QED
    BY <1>0, <2>1, SubSeqProperties
<1>3. CASE least >= 0
  <2>1. least \in 0..n /\ (free >= n => least = n)
    BY <1>0, <1>1, <1>3
  <2> QED
    BY <1>2, <2>1 DEF least, T
<1>4. CASE least < 0
  <2>1. SubSeq(d, 1, least) = SubSeq(d, 1, 0)
    BY <1>0, <1>1, <1>4, SubSeqEmpty
  <2>2. ~(free >= n) /\ 0 \in 0..n
    BY <1>0, <1>1, <1>4
  <2> QED
    BY <1>2, <2>1, <2>2 DEF least, T
<1>5. least >= 0 \/ least < 0
  BY <1>0, <1>1
<1> QED
  BY <1>3, <1>4, <1>5, Zenon

(* What is read is taken off the stream, counted and, if the disk lets it, *)
(* appended to the file.                                                   *)
LEMMA ReadTypes ==
    ASSUME TypeOK, RangeOK, NEW n \in 1..MaxSize, NEW written \in BOOLEAN, ReadyRead(n, written)
    PROVE  \E m \in 0..n :
             LET a == SubSeq(stream.data, 1, m) IN
             /\ n \in 1..Len(stream.data)
             /\ range[R].length - range[R].sent >= n => m = n
             /\ a \in Seq(0..MaxSize) /\ Len(a) = m
             /\ \A k \in 1..m : a[k] = stream.data[k]
             /\ range' \in [Ends -> Ranges] /\ range'[S] = range[S]
             /\ range'[R].length = range[R].length /\ range'[R].sent = range[R].sent + m
             /\ left' \in [Ends -> Int] /\ left'[R] = left[R] - m
             /\ stream' \in Streams /\ stream'.up = stream.up
             /\ stream'.data = SubSeq(stream.data, n + 1, Len(stream.data))
             /\ disk' = (IF written THEN disk \o a ELSE disk)
             /\ disk' \in Seq(0..MaxSize)
             /\ budget' \in [Bounds -> Nat] /\ budget'.reads <= MaxReadErrors /\ budget'.writes <= MaxWriteErrors
             /\ written => budget' = budget
             /\ ~written => budget'.writes < MaxWriteErrors
<1>0. S \in Ends /\ R \in Ends /\ S # R /\ MaxSize \in Nat /\ n \in Nat
  BY Constants
<1>1. /\ range[R] \in Ranges /\ range[R].length - range[R].sent \in Int
      /\ left[R] \in Int
  BY <1>0, SMTT(30) DEF TypeOK
<1>2. stream.data \in Seq(0..MaxSize) /\ n \in 1..Len(stream.data)
  BY DEF ReadyRead, TypeOK
<1> DEFINE d == stream.data
           free == range[R].length - range[R].sent
<1> HIDE DEF d, free
<1>3. PICK m \in 0..n :
        /\ SubSeq(d, 1, Min({n, free})) = SubSeq(d, 1, m)
        /\ free >= n => m = n
        /\ SubSeq(d, 1, m) \in Seq(0..MaxSize) /\ Len(SubSeq(d, 1, m)) = m
        /\ \A k \in 1..m : SubSeq(d, 1, m)[k] = d[k]
  <2>1. d \in Seq(0..MaxSize) /\ n \in 1..Len(d) /\ free \in Int
    BY <1>1, <1>2 DEF d, free
  <2> QED
    BY <2>1, Taken, Zenon
<1> USE DEF d, free
<1> DEFINE a == SubSeq(stream.data, 1, m)
<1>4. a \in Seq(0..MaxSize) /\ Len(a) = m /\ m \in Nat
  BY <1>0, <1>3
<1>5. /\ range' = [range EXCEPT ![R].sent = @ + Len(a)]
      /\ left' = [left EXCEPT ![R] = left[R] - Len(a)]
      /\ disk' = IF written THEN disk \o a ELSE disk
      /\ stream' = [stream EXCEPT !.data = SubSeq(@, n + 1, Len(@))]
      /\ IF written THEN UNCHANGED budget ELSE Spend("writes")
  BY <1>3 DEF ReadyRead
<1> HIDE DEF a
<1>6. /\ range' \in [Ends -> Ranges] /\ range'[S] = range[S]
      /\ range'[R].length = range[R].length /\ range'[R].sent = range[R].sent + m
  <2>1. range' = [range EXCEPT ![R].sent = @ + m] /\ range \in [Ends -> Ranges]
    BY <1>4, <1>5 DEF TypeOK
  <2>2. LET r == [range[R] EXCEPT !.sent = @ + m]
        IN  r \in Ranges /\ r.length = range[R].length /\ r.sent = range[R].sent + m
    BY <1>1, <1>4, SMTT(30)
  <2> QED
    BY <1>0, <2>1, <2>2
<1>7. left' \in [Ends -> Int] /\ left'[R] = left[R] - m
  <2>1. left' = [left EXCEPT ![R] = left[R] - m] /\ left \in [Ends -> Int]
    BY <1>4, <1>5 DEF TypeOK
  <2> QED
    BY <1>0, <1>1, <1>4, <2>1
<1>8. /\ stream' \in Streams /\ stream'.up = stream.up
      /\ stream'.data = SubSeq(stream.data, n + 1, Len(stream.data))
  <2>1. SubSeq(stream.data, n + 1, Len(stream.data)) \in Seq(0..MaxSize)
    <3>1. \A i \in n + 1 .. Len(stream.data) : stream.data[i] \in 0..MaxSize
      BY <1>0, <1>2
    <3> QED
      BY <1>0, <1>2, <3>1, SubSeqProperties
  <2> QED
    BY <1>5, <2>1 DEF TypeOK
<1>9. disk' \in Seq(0..MaxSize)
  <2>2. a \in Seq(0..MaxSize) /\ disk \in Seq(0..MaxSize)
    BY <1>4 DEF TypeOK
  <2>3. disk \o a \in Seq(0..MaxSize)
    BY <2>2, ConcatProperties
  <2> QED
    BY <1>5, <2>2, <2>3
<1>10. /\ budget' \in [Bounds -> Nat] /\ budget'.reads <= MaxReadErrors /\ budget'.writes <= MaxWriteErrors
       /\ written => budget' = budget
       /\ ~written => budget'.writes < MaxWriteErrors
  <2>1. CASE written
    BY <1>5, <2>1 DEF TypeOK, RangeOK
  <2>2. CASE ~written
    BY <1>5, <2>2, SpendTypes
  <2> QED
    BY <2>1, <2>2
<1> QED
  BY <1>2, <1>3, <1>5, <1>6, <1>7, <1>8, <1>9, <1>10 DEF a

(* The bytes the sender writes lie within its file and continue what it    *)
(* has sent.                                                               *)
LEMMA WriteTypes ==
    ASSUME TypeOK, RangeOK, NEW n \in 1..MaxSize, NEW ok \in BOOLEAN, BytesWritten(n, ok)
    PROVE  /\ FileBytes(n, ok) \in Seq(0..MaxSize) /\ Len(FileBytes(n, ok)) = n
           /\ ok => \A k \in 1..n : FileBytes(n, ok)[k] = range[S].offset + range[S].sent + k
           /\ range' \in [Ends -> Ranges] /\ range'[R] = range[R]
           /\ range'[S].offset = range[S].offset /\ range'[S].length = range[S].length
           /\ range'[S].sent = range[S].sent + n /\ range'[S].sent <= range'[S].length
           /\ stream' \in Streams /\ stream'.data = stream.data \o FileBytes(n, ok)
           /\ stream'.up => stream.up
           /\ ft' \in [Ends -> FtStates] /\ ft'[R] = ft[R] /\ ft'[S] \in {"Idle", ft[S]}
           /\ budget' \in [Bounds -> Nat]
           /\ budget'.reads <= MaxReadErrors /\ budget'.writes = budget.writes
           /\ budget' = budget \/ budget'.reads < MaxReadErrors
           /\ ok \/ budget'.reads < MaxReadErrors
<1>0. S \in Ends /\ R \in Ends /\ S # R /\ MaxSize \in Nat /\ n \in Nat /\ 1 <= n
  BY Constants
<1>1. /\ range[S] \in Ranges /\ range[S].offset \in Nat /\ range[S].length \in Nat /\ range[S].sent \in Nat
      /\ size \in Nat /\ size <= MaxSize
  BY <1>0, SMTT(30) DEF TypeOK
<1>2. n <= range[S].length - range[S].sent
  BY <1>0, <1>1 DEF BytesWritten
<1>3. range[S].offset + range[S].sent + n <= MaxSize
  BY <1>0, <1>1, <1>2 DEF RangeOK
<1> DEFINE base == range[S].offset + range[S].sent
<1>4. base \in Nat /\ base + n <= MaxSize
  BY <1>1, <1>3
<1> HIDE DEF base
<1>5. FileBytes(n, ok) = [i \in 1..n |-> IF ok THEN base + i ELSE Alien]
  BY DEF FileBytes, base
<1>6. [i \in 1..n |-> IF ok THEN base + i ELSE Alien] \in Seq(0..MaxSize)
  <2>1. \A i \in 1..n : base + i \in 0..MaxSize /\ Alien \in 0..MaxSize
    BY <1>0, <1>4 DEF Alien
  <2> QED
    BY <1>0, <2>1
<1>7. FileBytes(n, ok) \in Seq(0..MaxSize) /\ Len(FileBytes(n, ok)) = n
  BY <1>0, <1>5, <1>6
<1>8. ok => \A k \in 1..n : FileBytes(n, ok)[k] = range[S].offset + range[S].sent + k
  BY <1>5 DEF base
<1>9. /\ range' \in [Ends -> Ranges] /\ range'[R] = range[R]
      /\ range'[S].offset = range[S].offset /\ range'[S].length = range[S].length
      /\ range'[S].sent = range[S].sent + n /\ range'[S].sent <= range'[S].length
  <2>1. range' = [range EXCEPT ![S].sent = @ + n] /\ range \in [Ends -> Ranges]
    BY DEF BytesWritten, TypeOK
  <2>2. LET r == [range[S] EXCEPT !.sent = @ + n]
        IN  /\ r \in Ranges /\ r.offset = range[S].offset /\ r.length = range[S].length
            /\ r.sent = range[S].sent + n
    BY <1>0, <1>1
  <2>3. range[S].sent + n <= range[S].length
    BY <1>0, <1>1, <1>2
  <2> QED
    BY <1>0, <2>1, <2>2, <2>3
<1>10. /\ stream' \in Streams /\ stream'.data = stream.data \o FileBytes(n, ok)
       /\ stream'.up => stream.up
  <2>1. stream.data \o FileBytes(n, ok) \in Seq(0..MaxSize)
    BY <1>7, ConcatProperties DEF TypeOK
  <2>2. stream' = [up |-> ~(range[S].sent + n = range[S].length), data |-> stream.data \o FileBytes(n, ok)] /\ stream.up
    BY DEF BytesWritten
  <2> QED
    BY <2>1, <2>2
<1>11. ft' \in [Ends -> FtStates] /\ ft'[R] = ft[R] /\ ft'[S] \in {"Idle", ft[S]}
  BY <1>0 DEF BytesWritten, TypeOK
<1>12. /\ budget' \in [Bounds -> Nat]
       /\ budget'.reads <= MaxReadErrors /\ budget'.writes = budget.writes
       /\ budget' = budget \/ budget'.reads < MaxReadErrors
       /\ ok \/ budget'.reads < MaxReadErrors
  <2>1. CASE Spend("reads") /\ ~ok
    BY <2>1, SpendTypes
  <2>2. CASE budget' = budget /\ (ok \/ budget.reads < MaxReadErrors)
    BY <2>2 DEF TypeOK, RangeOK
  <2> QED
    BY <2>1, <2>2 DEF BytesWritten, ReadFails
<1> QED
  BY <1>7, <1>8, <1>9, <1>10, <1>11, <1>12

-----------------------------------------------------------------------------
(* Every step keeps the types and the sender's range. *)
LEMMA NextTypes == TypeOK /\ RangeOK /\ [Next]_vars => (TypeOK /\ RangeOK)'
<1> SUFFICES ASSUME TypeOK, RangeOK, [Next]_vars PROVE TypeOK' /\ RangeOK'
  OBVIOUS
<1>0. S \in Ends /\ R \in Ends /\ S # R /\ MaxSize \in Nat
  BY Constants
<1>1. ASSUME NEW canOpen \in BOOLEAN, Send(canOpen)
      PROVE  TypeOK' /\ RangeOK'
  <2>1. budget' \in [Bounds -> Nat] /\ budget'.reads <= MaxReadErrors /\ budget'.writes <= MaxWriteErrors
    BY <1>1, SpendTypes DEF Send
  <2>2. /\ range' \in [Ends -> Ranges] /\ left' \in [Ends -> Int] /\ stream' \in Streams
        /\ range'[S].offset + range'[S].length <= size /\ range'[S].sent <= range'[S].length
    BY <1>0, <1>1, SMTT(30) DEF Send, NoRange, NoStream, TypeOK
  <2>3. jft' \in [Ends -> JftStates] /\ job' \in [Ends -> JobStates]
    BY <1>1 DEF Send, TypeOK, Ended
  <2>4. ft' \in [Ends -> FtStates] /\ iq' \in Stanzas
    BY <1>1 DEF Send, TypeOK, NoIq
  <2> QED
    BY <1>1, <2>1, <2>2, <2>3, <2>4 DEF Send, TypeOK, RangeOK
<1>2. CASE OfferTimeout
  <2>1. ft' \in [Ends -> FtStates] /\ UNCHANGED <<size, exists, disk, iq, stream, contact, range, left, request, dialog, hazard, budget>>
    BY <1>2 DEF OfferTimeout, OfferFailed, TypeOK
  <2>2. job' \in [Ends -> JobStates] /\ jft' \in [Ends -> JftStates] /\ crashed' \subseteq Ends
    BY <1>0, <1>2, ErrorTypes DEF OfferTimeout, OfferFailed
  <2> QED
    BY <2>1, <2>2 DEF TypeOK, RangeOK
<1>3. CASE AnswerArrives
  <2>0. iq' \in Stanzas
    BY <1>3 DEF AnswerArrives, NoIq
  <2>1. CASE UNCHANGED <<size, exists, disk, stream, jft, ft, job, contact, range, left, request, dialog, crashed, hazard, budget>>
    BY <2>0, <2>1 DEF TypeOK, RangeOK
  <2>2. CASE OfferFailed
    <3>1. ft' \in [Ends -> FtStates]
      BY <2>2 DEF OfferFailed, TypeOK
    <3>2. job' \in [Ends -> JobStates] /\ jft' \in [Ends -> JftStates] /\ crashed' \subseteq Ends
      BY <1>0, <2>2, ErrorTypes DEF OfferFailed
    <3> QED
      BY <2>0, <2>2, <3>1, <3>2 DEF OfferFailed, TypeOK, RangeOK
  <2>3. CASE /\ ~(iq.offset > size \/ iq.length > size - iq.offset)
             /\ ft' = [ft EXCEPT ![S] = "Connecting"]
             /\ range' = [range EXCEPT ![S] =
                   [offset |-> iq.offset, sent |-> 0,
                    length |-> IF iq.length = 0 THEN size - iq.offset ELSE iq.length]]
             /\ UNCHANGED <<size, exists, disk, stream, jft, job, contact, left, request, dialog,
                            crashed, hazard, budget>>
    <3>1. iq.offset \in Nat /\ iq.length \in Nat /\ size \in Nat
      BY <1>0 DEF TypeOK
    <3> DEFINE length == IF iq.length = 0 THEN size - iq.offset ELSE iq.length
    <3>2. length \in Nat /\ iq.offset + length <= size
      BY <2>3, <3>1
    <3>3. range' = [range EXCEPT ![S] = [offset |-> iq.offset, sent |-> 0, length |-> length]]
      BY <2>3
    <3> HIDE DEF length
    <3>4. /\ range' \in [Ends -> Ranges]
          /\ range'[S].offset + range'[S].length <= size /\ range'[S].sent <= range'[S].length
      BY <1>0, <3>1, <3>2, <3>3 DEF TypeOK
    <3>5. ft' \in [Ends -> FtStates]
      BY <2>3 DEF TypeOK
    <3> QED
      BY <2>0, <2>3, <3>4, <3>5 DEF TypeOK, RangeOK
  <2> QED
    BY <1>3, <2>1, <2>2, <2>3 DEF AnswerArrives
<1>4. CASE StreamConnected
  <2>1. Min({range[S].length, size}) \in Int
    <3>1. range[S].length \in Int /\ size \in Int
      BY <1>0 DEF TypeOK
    <3> QED
      BY <3>1, MinPair
  <2>2. /\ left' \in [Ends -> Int] /\ job' \in [Ends -> JobStates] /\ jft' \in [Ends -> JftStates]
        /\ crashed' \subseteq Ends
    BY <1>4, <2>1, OutgoingTypes DEF StreamConnected
  <2>3. ft' \in [Ends -> FtStates] /\ stream' \in Streams
    BY <1>4 DEF StreamConnected
  <2> QED
    BY <1>4, <2>2, <2>3 DEF StreamConnected, TypeOK, RangeOK
<1>5. ASSUME NEW n \in 1..MaxSize, NEW ok \in BOOLEAN, BytesWritten(n, ok)
      PROVE  TypeOK' /\ RangeOK'
  <2>1. left[S] - n \in Int
    BY <1>0, <1>5, SMTT(30) DEF TypeOK
  <2>2. /\ left' \in [Ends -> Int] /\ job' \in [Ends -> JobStates] /\ jft' \in [Ends -> JftStates]
        /\ crashed' \subseteq Ends
    BY <1>5, <2>1, OutgoingTypes DEF BytesWritten
  <2>3. /\ range' \in [Ends -> Ranges] /\ stream' \in Streams /\ ft' \in [Ends -> FtStates]
        /\ range'[S].offset = range[S].offset /\ range'[S].length = range[S].length
        /\ range'[S].sent <= range'[S].length
        /\ budget' \in [Bounds -> Nat] /\ budget'.reads <= MaxReadErrors /\ budget'.writes = budget.writes
    BY <1>5, WriteTypes
  <2>4. UNCHANGED <<size, exists, disk, iq, contact, request, dialog, hazard>>
    BY <1>5 DEF BytesWritten
  <2> QED
    BY <2>2, <2>3, <2>4 DEF TypeOK, RangeOK
<1>6. ASSUME NEW thumbnail \in BOOLEAN, OfferArrives(thumbnail)
      PROVE  TypeOK' /\ RangeOK'
  <2>1. contact' \in [Ends -> BOOLEAN]
    BY <1>6, Zenon DEF OfferArrives, TypeOK
  <2>2. jft' \in [Ends -> JftStates] /\ ft' \in [Ends -> FtStates] /\ iq' \in Stanzas
    BY <1>6 DEF OfferArrives, TypeOK, NoIq
  <2> QED
    BY <1>6, <2>1, <2>2 DEF OfferArrives, TypeOK, RangeOK
<1>7. CASE AskIncomingTransfer \/ SaveIncomingTransfer \/ SaveDialogLeft
  BY <1>0, <1>7, ZenonT(40) DEF AskIncomingTransfer, SaveIncomingTransfer, SaveDialogLeft, TypeOK, RangeOK
<1>8. CASE CancelIncomingTransfer
  BY <1>8 DEF CancelIncomingTransfer, DeleteLater, TypeOK, RangeOK
<1>9. ASSUME NEW new \in BOOLEAN, NEW ok \in BOOLEAN, SaveDialogDone(new, ok)
      PROVE  TypeOK' /\ RangeOK'
  <2>1. UNCHANGED <<size, stream, contact, crashed, hazard, budget>>
    BY <1>9 DEF SaveDialogDone
  <2>2. job' \in [Ends -> JobStates] /\ dialog' \in {"none", "save", "resume"}
        /\ request' \in {"none", "thumbnail", "pending", "answered"}
    BY <1>9 DEF SaveDialogDone, TypeOK, Ended
  <2>3. /\ exists' \in BOOLEAN /\ disk' \in Seq(0..MaxSize) /\ jft' \in [Ends -> JftStates]
        /\ ft' \in [Ends -> FtStates] /\ iq' \in Stanzas
        /\ range' \in [Ends -> Ranges] /\ range'[S] = range[S] /\ left' \in [Ends -> Int]
    <3>1. CASE new /\ ok
      BY <1>9, <3>1, AcceptTypes DEF SaveDialogDone, TypeOK
    <3>2. CASE new /\ ~ok
      <4>1. UNCHANGED <<exists, disk, ft, iq, range, left>> /\ jft' = DeleteLater(R)
        BY <1>9, <3>2, AcceptTypes DEF SaveDialogDone
      <4> QED
        BY <4>1 DEF DeleteLater, TypeOK
    <3>3. CASE ~new
      BY <1>9, <3>3 DEF SaveDialogDone, TypeOK
    <3> QED
      BY <3>1, <3>2, <3>3
  <2> QED
    BY <2>1, <2>2, <2>3 DEF TypeOK, RangeOK
<1>10. ASSUME NEW answer \in {"resume", "overwrite", "cancel"}, NEW ok \in BOOLEAN, ResumeBoxDone(answer, ok)
       PROVE  TypeOK' /\ RangeOK'
  <2>1. /\ UNCHANGED <<size, stream, contact, hazard, budget>>
        /\ dialog' \in {"none", "save", "resume"}
        /\ request' \in {"none", "thumbnail", "pending", "answered"}
    BY <1>10 DEF ResumeBoxDone
  <2>2. CASE answer = "cancel"
    <3>1. jft' = DeleteLater(R) /\ UNCHANGED <<exists, disk, ft, iq, range, left, job, crashed>>
      BY <1>10, <2>2 DEF ResumeBoxDone
    <3>2. jft' \in [Ends -> JftStates]
      BY <3>1 DEF DeleteLater, TypeOK
    <3> QED
      BY <2>1, <3>1, <3>2 DEF TypeOK, RangeOK
  <2>3. CASE answer # "cancel" /\ job[R] = "none"
    BY <1>0, <1>10, <2>1, <2>3, ZenonT(40) DEF ResumeBoxDone, TypeOK, RangeOK
  <2>4. CASE answer # "cancel" /\ job[R] # "none"
    <3>1. /\ Accept(answer = "resume", ok) /\ job' = (IF ok THEN job ELSE Finish(R, "error"))
          /\ UNCHANGED crashed
      BY <1>10, <2>4 DEF ResumeBoxDone
    <3>2. job' \in [Ends -> JobStates]
      BY <3>1 DEF Finish, TypeOK, Ended
    <3>3. CASE ok
      BY <2>1, <3>1, <3>2, <3>3, AcceptTypes DEF TypeOK, RangeOK
    <3>4. CASE ~ok
      <4>1. UNCHANGED <<exists, disk, ft, iq, range, left>> /\ jft' = DeleteLater(R)
        BY <3>1, <3>4, AcceptTypes
      <4> QED
        BY <2>1, <3>1, <3>2, <4>1 DEF DeleteLater, TypeOK, RangeOK
    <3> QED
      BY <3>3, <3>4
  <2> QED
    BY <2>2, <2>3, <2>4
<1>11. ASSUME NEW n \in 1..MaxSize, NEW written \in BOOLEAN, ReadyRead(n, written)
       PROVE  TypeOK' /\ RangeOK'
  <2>1. /\ range' \in [Ends -> Ranges] /\ range'[S] = range[S] /\ left' \in [Ends -> Int]
        /\ stream' \in Streams /\ disk' \in Seq(0..MaxSize)
        /\ budget' \in [Bounds -> Nat] /\ budget'.reads <= MaxReadErrors /\ budget'.writes <= MaxWriteErrors
    BY <1>11, ReadTypes
  <2>2. /\ UNCHANGED <<size, exists, iq, ft, contact, request, dialog, hazard>>
        /\ crashed' \in {crashed, crashed \cup {R}}
        /\ job' \in {job, Finish(R, "complete")} /\ jft' \in {jft, DeleteLater(R)}
    BY <1>11 DEF ReadyRead
  <2>3. job' \in [Ends -> JobStates] /\ jft' \in [Ends -> JftStates]
    <3>1. "complete" \in Ended
      BY DEF Ended
    <3>2. Finish(R, "complete") \in [Ends -> JobStates] /\ DeleteLater(R) \in [Ends -> JftStates]
      BY <1>0, <3>1, EndingTypes, Zenon
    <3>3. job \in [Ends -> JobStates] /\ jft \in [Ends -> JftStates]
      BY DEF TypeOK
    <3> QED
      BY <2>2, <3>2, <3>3
  <2> QED
    BY <1>0, <2>1, <2>2, <2>3 DEF TypeOK, RangeOK
<1>12. ASSUME NEW e \in Ends, StreamFails(e) \/ StreamClosed(e)
       PROVE  TypeOK' /\ RangeOK'
  <2>1. /\ UNCHANGED <<size, exists, disk, iq, stream, contact, range, left, request, dialog, hazard, budget>>
        /\ SlotTransferError(e) \/ UNCHANGED <<job, jft, crashed>>
        /\ ft' = [ft EXCEPT ![e] = "Idle"]
    BY <1>12 DEF StreamFails, StreamClosed
  <2>2. job' \in [Ends -> JobStates] /\ jft' \in [Ends -> JftStates] /\ crashed' \subseteq Ends
    BY <2>1, ErrorTypes DEF TypeOK
  <2>3. ft' \in [Ends -> FtStates]
    BY <2>1 DEF TypeOK
  <2> QED
    BY <2>1, <2>2, <2>3 DEF TypeOK, RangeOK
<1>13. ASSUME NEW e \in Ends, NEW k \in 0..MaxSize, StreamBreaks(e, k)
       PROVE  TypeOK' /\ RangeOK'
  <2>1. /\ UNCHANGED <<size, exists, disk, iq, contact, range, left, request, dialog, hazard>>
        /\ SlotTransferError(e) /\ ft' = [ft EXCEPT ![e] = "Idle"]
        /\ stream' = [up |-> FALSE, data |-> SubSeq(stream.data, 1, k)]
        /\ k \in 0..Len(stream.data)
    BY <1>13 DEF StreamBreaks
  <2>2. job' \in [Ends -> JobStates] /\ jft' \in [Ends -> JftStates] /\ crashed' \subseteq Ends
    BY <2>1, ErrorTypes
  <2>3. ft' \in [Ends -> FtStates]
    BY <2>1 DEF TypeOK
  <2>4. budget' \in [Bounds -> Nat] /\ budget'.reads <= MaxReadErrors /\ budget'.writes <= MaxWriteErrors
    BY <1>13, SpendTypes DEF StreamBreaks
  <2>5. stream' \in Streams
    <3>1. stream.data \in Seq(0..MaxSize) /\ k \in Int /\ \A i \in 1..k : stream.data[i] \in 0..MaxSize
      <4>1. stream.data \in Seq(0..MaxSize) /\ k \in Int
        BY <1>0 DEF TypeOK
      <4>2. \A i \in 1..k : i \in 1..Len(stream.data)
        BY <2>1, <4>1, LenProperties
      <4> QED
        BY <4>1, <4>2, ElementOfSeq, Zenon
    <3>2. SubSeq(stream.data, 1, k) \in Seq(0..MaxSize)
      BY <3>1, SubSeqProperties
    <3> QED
      BY <2>1, <3>2
  <2> QED
    BY <2>1, <2>2, <2>3, <2>4, <2>5 DEF TypeOK, RangeOK
<1>14. ASSUME NEW e \in Ends, KillJob(e) \/ ContactDestroyed(e)
       PROVE  TypeOK' /\ RangeOK'
  <2>1. UNCHANGED <<size, exists, disk, range, left, request, dialog, crashed>> /\ Spend("faults")
    BY <1>14 DEF KillJob, ContactDestroyed
  <2>2. budget' \in [Bounds -> Nat] /\ budget'.reads <= MaxReadErrors /\ budget'.writes <= MaxWriteErrors
    BY <2>1, SpendTypes
  <2>3. contact' \in [Ends -> BOOLEAN]
    BY <1>14, Zenon DEF KillJob, ContactDestroyed, TypeOK
  <2>4. CASE Canceled(e) /\ job[e] = "running"
    BY <2>1, <2>2, <2>3, <2>4, CanceledTypes DEF TypeOK, RangeOK
  <2>5. CASE UNCHANGED <<job, jft, ft, iq, stream>> /\ hazard' \in {"thumbnail", hazard}
    BY <2>1, <2>2, <2>3, <2>5, ZenonT(40) DEF TypeOK, RangeOK
  <2> QED
    BY <1>14, <2>4, <2>5 DEF KillJob, ContactDestroyed
<1>15. ASSUME NEW e \in Ends, DeferredDelete(e)
       PROVE  TypeOK' /\ RangeOK'
  <2>1. /\ UNCHANGED <<size, exists, disk, contact, range, left, request, dialog, crashed, hazard, budget>>
        /\ job' \in [Ends -> JobStates] /\ jft' \in [Ends -> JftStates]
    BY <1>15 DEF DeferredDelete, TypeOK
  <2>2. ft' \in [Ends -> FtStates] /\ iq' \in Stanzas /\ stream' \in Streams
    BY <1>15, CloseTypes DEF DeferredDelete, TypeOK
  <2> QED
    BY <2>1, <2>2 DEF TypeOK, RangeOK
<1>16. CASE StanzaLost \/ UNCHANGED vars
  <2>1. iq' \in Stanzas
    BY <1>16 DEF StanzaLost, NoIq, vars, TypeOK
  <2> QED
    BY <1>16, <2>1 DEF StanzaLost, vars, TypeOK, RangeOK
<1>17. CASE CrashSeen
  <2>1. stream' \in Streams
    BY <1>17 DEF CrashSeen, TypeOK
  <2> QED
    BY <1>17, <2>1 DEF CrashSeen, TypeOK, RangeOK
<1> QED
  BY <1>1, <1>2, <1>3, <1>4, <1>5, <1>6, <1>7, <1>8, <1>9, <1>10, <1>11, <1>12, <1>13, <1>14, <1>15, <1>16, <1>17
  DEF Next, Written, Read

-----------------------------------------------------------------------------
(* Every step keeps hold of the objects that can still be used. *)
LEMMA NextLive == TypeOK /\ RangeOK /\ LiveInv /\ [Next]_vars => LiveInv'
<1> SUFFICES ASSUME TypeOK, RangeOK, LiveInv, [Next]_vars PROVE LiveInv'
  OBVIOUS
<1> USE DEF LiveInv, SignalsHeld, RequestOpen, HazardKnown, UsesLiveObjects, Held
<1>0. S \in Ends /\ R \in Ends /\ S # R
  BY Constants
<1>t. /\ jft \in [Ends -> JftStates] /\ ft \in [Ends -> FtStates] /\ job \in [Ends -> JobStates]
      /\ contact \in [Ends -> BOOLEAN] /\ crashed \subseteq Ends
      /\ request \in {"none", "thumbnail", "pending", "answered"}
      /\ dialog \in {"none", "save", "resume"} /\ hazard \in {"none", "resume", "thumbnail"}
  BY DEF TypeOK
<1>1. ASSUME NEW canOpen \in BOOLEAN, Send(canOpen)
      PROVE  LiveInv'
  <2>1. ft[S] = "Idle" /\ ft[R] = "Idle" /\ job[R] = "none" /\ dialog = "none" /\ crashed = {}
    BY <1>1, <1>t DEF Send, Quiet
  <2>2. /\ jft'[S] = "live" /\ job'[S] \in {"running", "error"} /\ job'[R] = "none" /\ ft'[R] = "Idle"
        /\ ft'[S] # "Idle" => job'[S] = "running"
        /\ request' = "none" /\ dialog' = "none" /\ crashed' = {}
    BY <1>0, <1>1, <1>t, <2>1 DEF Send
  <2> QED
    BY <2>1, <2>2 DEF Ended
<1>2. CASE OfferFailed /\ ft[S] = "Requesting" /\ (iq' = iq \/ iq' = NoIq)
  <2>1. job[S] # "none"
    BY <1>2
  <2>2. ft'[S] = "Idle" /\ ft'[R] = ft[R] /\ job'[R] = job[R] /\ jft'[R] = jft[R] /\ crashed' = crashed
    BY <1>0, <1>2, <1>t, <2>1, ErrorTypes DEF OfferFailed
  <2>3. iq'.type = "offer" => iq.type = "offer"
    BY <1>2 DEF NoIq
  <2> QED
    BY <1>2, <2>2, <2>3 DEF OfferFailed
<1>3. CASE AnswerArrives
  <2>0. iq' = NoIq /\ iq'.type = "none"
    BY <1>3 DEF AnswerArrives, NoIq
  <2>1. CASE ft[S] = "Requesting" /\ OfferFailed
    BY <1>2, <2>0, <2>1
  <2>2. CASE ~(ft[S] = "Requesting" /\ OfferFailed)
    <3>1. /\ UNCHANGED <<jft, job, contact, request, dialog, crashed, hazard>>
          /\ ft' = ft \/ (ft[S] = "Requesting" /\ ft' = [ft EXCEPT ![S] = "Connecting"])
      BY <1>3, <2>2 DEF AnswerArrives
    <3>2. ft'[R] = ft[R] /\ (ft'[S] # "Idle" => ft[S] # "Idle")
      BY <1>0, <1>t, <3>1
    <3> QED
      BY <2>0, <3>1, <3>2
  <2> QED
    BY <2>1, <2>2
<1>4. CASE StreamConnected
  <2>1. Min({range[S].length, size}) \in Int
    <3>1. range[S].length \in Int /\ size \in Int
      BY <1>0 DEF TypeOK
    <3> QED
      BY <3>1, MinPair
  <2>2. /\ ft[S] = "Connecting" /\ ft[R] = "Connecting" /\ ft'[S] = "Active" /\ ft'[R] = "Active"
        /\ UNCHANGED <<iq, contact, request, dialog, hazard>>
    BY <1>0, <1>4 DEF StreamConnected
  <2>3. /\ job'[R] = job[R] /\ jft'[R] = jft[R] /\ crashed' = crashed
        /\ \/ job'[S] = job[S] /\ jft'[S] = jft[S]
           \/ /\ job'[S] = IF job[S] = "running" THEN "complete" ELSE job[S]
              /\ jft'[S] = IF jft[S] = "live" THEN "dying" ELSE jft[S]
    BY <1>4, <2>1, <2>2, OutgoingTypes DEF StreamConnected
  <2> QED
    BY <1>0, <1>t, <2>2, <2>3 DEF Ended
<1>5. ASSUME NEW n \in 1..MaxSize, NEW ok \in BOOLEAN, BytesWritten(n, ok)
      PROVE  LiveInv'
  <2>1. left[S] - n \in Int
    BY <1>0, <1>5, Constants, SMTT(30) DEF TypeOK
  <2>2. /\ ft[S] = "Active" /\ ft'[R] = ft[R] /\ UNCHANGED <<iq, contact, request, dialog, hazard>>
    BY <1>5, WriteTypes DEF BytesWritten
  <2>3. /\ job'[R] = job[R] /\ jft'[R] = jft[R] /\ crashed' = crashed
        /\ \/ job'[S] = job[S] /\ jft'[S] = jft[S]
           \/ /\ job'[S] = IF job[S] = "running" THEN "complete" ELSE job[S]
              /\ jft'[S] = IF jft[S] = "live" THEN "dying" ELSE jft[S]
    BY <1>5, <2>1, <2>2, OutgoingTypes DEF BytesWritten
  <2> QED
    BY <1>0, <1>t, <2>2, <2>3 DEF Ended
<1>6. ASSUME NEW thumbnail \in BOOLEAN, OfferArrives(thumbnail)
      PROVE  LiveInv'
  <2>1. ft[R] = "Idle" /\ job[R] = "none" /\ dialog = "none"
    BY <1>6, <1>t DEF OfferArrives
  <2>2. /\ jft'[R] = "live" /\ jft'[S] = jft[S] /\ ft'[R] = "WaitingForAccept" /\ ft'[S] = ft[S]
        /\ contact'[R] = TRUE /\ iq'.type = "none"
        /\ UNCHANGED <<job, dialog, crashed, hazard>>
    BY <1>0, <1>6, <1>t DEF OfferArrives, NoIq
  <2> QED
    BY <2>1, <2>2
<1>7. CASE AskIncomingTransfer
  BY <1>0, <1>7 DEF AskIncomingTransfer
<1>8. CASE CancelIncomingTransfer
  <2>1. jft'[S] = jft[S] /\ jft'[R] = "dying"
    BY <1>0, <1>8, <1>t DEF CancelIncomingTransfer, Answerable, DeleteLater
  <2> QED
    BY <1>8, <2>1 DEF CancelIncomingTransfer, Answerable
<1>9. CASE SaveIncomingTransfer \/ SaveDialogLeft
  BY <1>9 DEF SaveIncomingTransfer, SaveDialogLeft, Answerable
<1>10. ASSUME NEW new \in BOOLEAN, NEW ok \in BOOLEAN, SaveDialogDone(new, ok)
       PROVE  LiveInv'
  <2>1. request = "pending" /\ ft[R] = "WaitingForAccept" /\ jft[R] = "live" /\ job[R] = "none"
    BY <1>10, <1>t DEF SaveDialogDone
  <2>2. UNCHANGED <<contact, crashed, hazard>> /\ job'[S] = job[S]
    BY <1>0, <1>10, <1>t DEF SaveDialogDone
  <2>3. CASE new /\ ok
    <3>1. Accept(FALSE, ok) /\ job'[R] = "running" /\ dialog' = "none" /\ request' = "answered"
      BY <1>0, <1>10, <1>t, <2>3 DEF SaveDialogDone
    <3>2. jft' = jft /\ ft'[R] = "Connecting" /\ ft'[S] = ft[S] /\ iq'.type = "result"
      BY <2>3, <3>1, AcceptTypes
    <3> QED
      BY <2>1, <2>2, <3>1, <3>2 DEF Ended
  <2>4. CASE new /\ ~ok
    <3>1. Accept(FALSE, ok) /\ job'[R] = "error" /\ dialog' = "none" /\ request' = "answered"
      BY <1>0, <1>10, <1>t, <2>4 DEF SaveDialogDone
    <3>2. jft' = DeleteLater(R) /\ UNCHANGED <<ft, iq>>
      BY <2>4, <3>1, AcceptTypes
    <3>3. jft'[S] = jft[S]
      BY <1>0, <1>t, <3>2 DEF DeleteLater
    <3> QED
      BY <2>1, <2>2, <3>1, <3>2, <3>3
  <2>5. CASE ~new
    <3>1. job'[R] = "running" /\ dialog' = "resume" /\ UNCHANGED <<jft, ft, iq, request>>
      BY <1>0, <1>10, <1>t, <2>5 DEF SaveDialogDone
    <3> QED
      BY <2>1, <2>2, <3>1
  <2> QED
    BY <2>3, <2>4, <2>5
<1>11. ASSUME NEW answer \in {"resume", "overwrite", "cancel"}, NEW ok \in BOOLEAN, ResumeBoxDone(answer, ok)
       PROVE  LiveInv'
  <2>1. /\ ft[R] = "WaitingForAccept" /\ jft[R] = "live" /\ job[R] # "complete"
        /\ hazard = "none" => job[R] = "running"
    BY <1>11, <1>t DEF ResumeBoxDone
  <2>2. dialog' = "none" /\ request' = "answered" /\ UNCHANGED <<contact, hazard>>
    BY <1>11 DEF ResumeBoxDone
  <2>3. CASE answer = "cancel"
    <3>1. jft' = DeleteLater(R) /\ UNCHANGED <<ft, iq, job, crashed>>
      BY <1>11, <2>3 DEF ResumeBoxDone
    <3>2. jft'[S] = jft[S]
      BY <1>0, <1>t, <3>1 DEF DeleteLater
    <3> QED
      BY <2>1, <2>2, <3>1, <3>2
  <2>4. CASE answer # "cancel" /\ job[R] = "none"
    <3>1. crashed' = crashed \cup {R} /\ UNCHANGED <<jft, ft, iq, job>>
      BY <1>11, <2>4 DEF ResumeBoxDone
    <3> QED
      BY <1>0, <2>1, <2>2, <2>4, <3>1
  <2>5. CASE answer # "cancel" /\ job[R] # "none"
    <3>1. /\ Accept(answer = "resume", ok) /\ job' = (IF ok THEN job ELSE Finish(R, "error"))
          /\ UNCHANGED crashed
      BY <1>11, <2>5 DEF ResumeBoxDone
    <3>2. CASE ok
      <4>1. jft' = jft /\ ft'[R] = "Connecting" /\ ft'[S] = ft[S] /\ iq'.type = "result"
        BY <3>1, <3>2, AcceptTypes
      <4> QED
        BY <2>1, <2>2, <3>1, <3>2, <4>1 DEF Ended
    <3>3. CASE ~ok
      <4>1. jft' = DeleteLater(R) /\ UNCHANGED <<ft, iq>>
        BY <3>1, <3>3, AcceptTypes
      <4>2. jft'[S] = jft[S] /\ job'[S] = job[S]
        BY <1>0, <1>t, <3>1, <3>3, <4>1 DEF DeleteLater, Finish
      <4> QED
        BY <2>1, <2>2, <3>1, <4>1, <4>2
    <3> QED
      BY <3>2, <3>3
  <2> QED
    BY <2>3, <2>4, <2>5
<1>12. ASSUME NEW n \in 1..MaxSize, NEW written \in BOOLEAN, ReadyRead(n, written)
       PROVE  LiveInv'
  <2>1. ft[R] = "Active" /\ UNCHANGED <<iq, ft, contact, request, dialog, hazard>>
    BY <1>12 DEF ReadyRead
  <2>2. request \notin {"thumbnail", "pending"} /\ dialog = "none" /\ iq.type # "offer"
    BY <2>1, <1>t
  <2>3. CASE job[R] = "none"
    <3>1. crashed' = crashed \cup {R} /\ UNCHANGED <<job, jft>>
      BY <1>12, <2>3 DEF ReadyRead
    <3> QED
      BY <1>0, <2>1, <2>2, <2>3, <3>1
  <2>4. CASE job[R] # "none"
    <3>1. /\ crashed' = crashed
          /\ \/ UNCHANGED <<job, jft>>
             \/ job' = Finish(R, "complete") /\ jft' = DeleteLater(R)
      BY <1>12, <2>4 DEF ReadyRead
    <3>2. job'[S] = job[S] /\ jft'[S] = jft[S]
      BY <1>0, <1>t, <3>1 DEF Finish, DeleteLater
    <3>3. hazard = "none" => Held(R)'
      <4>1. CASE UNCHANGED <<job, jft>>
        BY <2>1, <4>1
      <4>2. CASE job' = Finish(R, "complete") /\ jft' = DeleteLater(R)
        <5>1. /\ job'[R] = IF job[R] = "running" THEN "complete" ELSE job[R]
              /\ jft'[R] = IF jft[R] = "live" THEN "dying" ELSE jft[R]
          BY <1>0, <1>t, <4>2 DEF Finish, DeleteLater
        <5> QED
          BY <1>0, <1>t, <2>1, <5>1 DEF Ended
      <4> QED
        BY <3>1, <4>1, <4>2
    <3> QED
      BY <2>1, <2>2, <3>1, <3>2, <3>3
  <2> QED
    BY <2>3, <2>4
<1>13. ASSUME NEW e \in Ends, ft[e] \in {"Connecting", "Active"}, SlotTransferError(e), ft' = [ft EXCEPT ![e] = "Idle"],
              UNCHANGED <<iq, contact, request, dialog, hazard>>
       PROVE  LiveInv'
  <2>1. /\ ft'[e] = "Idle" /\ \A f \in Ends \ {e} : ft'[f] = ft[f]
        /\ \A f \in Ends \ {e} : job'[f] = job[f] /\ jft'[f] = jft[f]
        /\ job[e] # "none" => crashed' = crashed
        /\ job[e] = "none" => crashed' = crashed \cup {e}
    BY <1>13, <1>t, ErrorTypes
  <2>2. CASE e = S
    BY <1>0, <1>13, <2>1, <2>2
  <2>3. CASE e = R
    <3>1. request \notin {"thumbnail", "pending"} /\ dialog = "none" /\ iq.type # "offer"
      BY <1>13, <1>t, <2>3
    <3> QED
      BY <1>0, <1>13, <2>1, <2>3, <3>1
  <2> QED
    BY <2>2, <2>3 DEF Ends
<1>14. ASSUME NEW e \in Ends, StreamFails(e) \/ StreamClosed(e)
       PROVE  LiveInv'
  <2>1. CASE SlotTransferError(e)
    BY <1>13, <1>14, <2>1 DEF StreamFails, StreamClosed
  <2>2. CASE UNCHANGED <<job, jft, crashed>> /\ StreamClosed(e)
    <3>1. ft'[e] = "Idle" /\ \A f \in Ends \ {e} : ft'[f] = ft[f]
      BY <1>t, <2>2 DEF StreamClosed
    <3>2. ft[e] = "Active" /\ UNCHANGED <<iq, contact, request, dialog, hazard>>
      BY <2>2 DEF StreamClosed
    <3>3. CASE e = S
      BY <1>0, <2>2, <3>1, <3>2, <3>3
    <3>4. CASE e = R
      BY <1>0, <1>t, <2>2, <3>1, <3>2, <3>4
    <3> QED
      BY <3>3, <3>4 DEF Ends
  <2> QED
    BY <1>14, <2>1, <2>2 DEF StreamFails, StreamClosed
<1>15. ASSUME NEW e \in Ends, NEW k \in 0..MaxSize, StreamBreaks(e, k)
       PROVE  LiveInv'
  BY <1>13, <1>15 DEF StreamBreaks
<1>16. ASSUME NEW e \in Ends, Canceled(e), job[e] = "running",
              UNCHANGED <<request, dialog, crashed>>,
              \A f \in Ends : contact'[f] => contact[f],
              contact'[R] = contact[R] \/ e = R
       PROVE  LiveInv'
  <2>1. /\ hazard' = IF e = R /\ dialog = "resume" THEN "resume" ELSE hazard
        /\ job'[e] = "canceled"
        /\ \A f \in Ends \ {e} : job'[f] = job[f] /\ jft'[f] = jft[f] /\ ft'[f] = ft[f]
        /\ iq' = iq \/ iq'.type = "reject"
        /\ \/ ft'[e] = "Idle" /\ jft'[e] = "dying" /\ ~(e = R /\ dialog = "resume")
           \/ ft'[e] = ft[e] /\ jft'[e] = jft[e] /\ (jft[e] # "live" \/ (e = R /\ dialog = "resume"))
    BY <1>16, CanceledTypes
  <2>2. CASE e = S
    BY <1>0, <1>16, <1>t, <2>1, <2>2 DEF Ended
  <2>3. CASE e = R
    <3>1. request # "thumbnail" /\ iq.type # "offer" /\ (request = "pending" => dialog = "resume")
      BY <1>16, <1>t, <2>3
    <3> QED
      BY <1>0, <1>16, <1>t, <2>1, <2>3, <3>1 DEF Ended
  <2> QED
    BY <2>2, <2>3 DEF Ends
<1>17. ASSUME NEW e \in Ends, KillJob(e)
       PROVE  LiveInv'
  BY <1>16, <1>17 DEF KillJob
<1>18. ASSUME NEW e \in Ends, ContactDestroyed(e)
       PROVE  LiveInv'
  <2>1. UNCHANGED <<request, dialog, crashed>> /\ contact' = [contact EXCEPT ![e] = FALSE]
    BY <1>18 DEF ContactDestroyed
  <2>2. (\A f \in Ends : contact'[f] => contact[f]) /\ (contact'[R] = contact[R] \/ e = R)
    BY <1>0, <1>t, <2>1
  <2>3. CASE job[e] = "running"
    BY <1>16, <1>18, <2>1, <2>2, <2>3 DEF ContactDestroyed
  <2>4. CASE job[e] # "running"
    <3>1. /\ hazard' = (IF e = R /\ request = "thumbnail" THEN "thumbnail" ELSE hazard)
          /\ UNCHANGED <<job, jft, ft, iq, stream>>
      BY <1>18, <2>4 DEF ContactDestroyed
    <3> QED
      BY <1>t, <2>1, <2>2, <3>1
  <2> QED
    BY <2>3, <2>4
<1>19. ASSUME NEW e \in Ends, DeferredDelete(e)
       PROVE  LiveInv'
  <2>1. /\ UNCHANGED <<contact, request, dialog, crashed, hazard>>
        /\ job'[e] = (IF job[e] \in Ended THEN "none" ELSE job[e])
        /\ jft'[e] = (IF jft[e] = "dying" THEN "none" ELSE jft[e])
        /\ \A f \in Ends \ {e} : job'[f] = job[f] /\ jft'[f] = jft[f]
    BY <1>19, <1>t DEF DeferredDelete
  <2>2. /\ \A f \in Ends \ {e} : ft'[f] = ft[f]
        /\ IF jft[e] = "dying" THEN ft'[e] = "Idle" ELSE ft'[e] = ft[e]
        /\ iq' = iq \/ iq'.type = "reject"
    BY <1>19, CloseTypes DEF DeferredDelete
  <2>3. CASE e = S
    BY <1>0, <1>t, <2>1, <2>2, <2>3 DEF Ended
  <2>4. CASE e = R
    BY <1>0, <1>t, <2>1, <2>2, <2>4 DEF Ended
  <2> QED
    BY <2>3, <2>4 DEF Ends
<1>20. CASE StanzaLost \/ CrashSeen \/ UNCHANGED vars
  BY <1>20 DEF StanzaLost, CrashSeen, NoIq, vars
<1> QED
  BY <1>1, <1>2, <1>3, <1>4, <1>5, <1>6, <1>7, <1>8, <1>9, <1>10, <1>11, <1>12, <1>14, <1>15, <1>17, <1>18, <1>19, <1>20
  DEF Next, Written, Read, OfferTimeout

-----------------------------------------------------------------------------
(* A step that moves no byte, answers nothing and completes nothing leaves *)
(* the two ends in agreement.                                              *)
LEMMA DataFrame ==
    ASSUME TypeOK, DataInv,
           UNCHANGED <<size, disk, range, left>>, budget'.reads = budget.reads, budget'.writes = budget.writes,
           stream'.data = stream.data, stream'.up => stream.up,
           \A e \in Ends : ft'[e] \in {"Idle", ft[e]},
           iq' = iq \/ iq'.type \in {"none", "reject"},
           job'[R] = "complete" => job[R] = "complete"
    PROVE  DataInv'
<1>0. S \in Ends /\ R \in Ends
  BY Constants
<1>1. ft'[S] \in {"Idle", ft[S]} /\ ft'[R] \in {"Idle", ft[R]}
  BY <1>0
<1>2. AnswersInOrder'
  BY <1>1 DEF DataInv, AnswersInOrder
<1>3. RangesAgree'
  BY <1>1 DEF DataInv, RangesAgree
<1>4. BytesContinue'
  BY <1>1 DEF DataInv, BytesContinue, NoDiskError
<1>5. FileSound'
  BY DEF DataInv, FileSound, NoDiskError
<1> QED
  BY <1>2, <1>3, <1>4, <1>5 DEF DataInv

(* slotIncomingTransferAccepted() brings the two ends into agreement. *)
LEMMA AcceptData ==
    ASSUME TypeOK, DataInv, NEW resume \in BOOLEAN, NEW ok \in BOOLEAN, Accept(resume, ok),
           ft[R] = "WaitingForAccept", job'[R] # "complete", UNCHANGED <<size, stream, budget>>
    PROVE  DataInv'
<1>0. S \in Ends /\ R \in Ends /\ S # R
  BY Constants
<1>1. CASE ~ok
  <2>1. UNCHANGED <<disk, ft, iq, range, left>>
    BY <1>1, AcceptTypes
  <2> QED
    BY <2>1, DataFrame
<1>2. CASE ok
  <2>1. /\ disk' \in {disk, <<>>} /\ ft'[R] = "Connecting" /\ ft'[S] = ft[S]
        /\ iq'.type = "result" /\ iq'.offset = Len(disk') /\ iq'.length \in {0, size - Len(disk')}
        /\ range'[R].offset = Len(disk') /\ range'[R].sent = 0
        /\ left'[R] = size - Len(disk') /\ range'[R].length >= left'[R]
    BY <1>2, AcceptTypes
  <2>2. ft[S] \notin {"Connecting", "Active"}
    BY DEF DataInv, AnswersInOrder
  <2>3. AnswersInOrder' /\ RangesAgree'
    BY <2>1, <2>2 DEF AnswersInOrder, RangesAgree
  <2>4. BytesContinue'
    BY <2>1 DEF BytesContinue
  <2>5. FileSound'
    <3>1. CASE disk' = disk
      BY <3>1 DEF DataInv, FileSound, NoDiskError
    <3>2. CASE disk' = <<>>
      BY <3>2 DEF FileSound
    <3> QED
      BY <2>1, <3>1, <3>2
  <2> QED
    BY <2>3, <2>4, <2>5 DEF DataInv
<1> QED
  BY <1>1, <1>2

(* What is written continues what is under way. *)
LEMMA WriteData ==
    ASSUME TypeOK, RangeOK, DataInv, NEW n \in 1..MaxSize, NEW ok \in BOOLEAN, BytesWritten(n, ok)
    PROVE  DataInv'
<1>0. S \in Ends /\ R \in Ends /\ S # R /\ MaxSize \in Nat /\ n \in Nat
  BY Constants
<1>1. /\ ft[S] = "Active" /\ stream.up
      /\ UNCHANGED <<size, exists, disk, iq, contact, request, dialog, hazard>>
      /\ SlotOutgoingBytesWritten(left[S] - n)
  BY DEF BytesWritten
<1>2. left[S] - n \in Int
  BY <1>0, SMTT(30) DEF TypeOK
<1>3. left'[R] = left[R] /\ job'[R] = job[R]
  BY <1>1, <1>2, OutgoingTypes
<1> DEFINE more == FileBytes(n, ok)
<1>4. /\ more \in Seq(0..MaxSize) /\ Len(more) = n
      /\ ok => \A k \in 1..n : more[k] = range[S].offset + range[S].sent + k
      /\ range'[R] = range[R]
      /\ range'[S].offset = range[S].offset /\ range'[S].length = range[S].length
      /\ range'[S].sent = range[S].sent + n /\ range'[S].sent <= range'[S].length
      /\ stream'.data = stream.data \o more
      /\ ft'[R] = ft[R] /\ ft'[S] \in {"Idle", "Active"}
      /\ budget' = budget \/ budget'.reads < MaxReadErrors
      /\ ok \/ budget'.reads < MaxReadErrors
  BY <1>1, WriteTypes
<1>w. NoDiskError' => ok /\ NoDiskError
  BY <1>4, Constants DEF NoDiskError
<1> HIDE DEF more
<1>5. AnswersInOrder'
  BY <1>1, <1>4 DEF DataInv, AnswersInOrder
<1>6. RangesAgree'
  BY <1>1, <1>3, <1>4 DEF DataInv, RangesAgree
<1>7. FileSound'
  BY <1>1, <1>3, <1>w DEF DataInv, FileSound
<1>8. ASSUME ft[R] = "Active", NoDiskError, ok
      PROVE  BytesContinue'
  <2> DEFINE d == stream.data  top == range[S].offset + range[S].sent  have == Len(disk)
  <2>1. /\ have + Len(d) = top /\ left[R] = size - have /\ range[R].length - range[R].sent >= left[R]
        /\ \A k \in 1..Len(d) : d[k] = have + k
    BY <1>1, <1>8 DEF DataInv, BytesContinue
  <2>2. d \in Seq(0..MaxSize) /\ Len(d) \in Nat /\ have \in Nat /\ size \in Nat
    BY <1>0, SMTT(30) DEF TypeOK
  <2>3. top + n <= size /\ range'[S].offset + range'[S].sent = top + n
    <3>1. range[S].offset \in Nat /\ range[S].length \in Nat /\ range[S].sent \in Nat
      BY <1>0 DEF TypeOK
    <3>2. range[S].offset + range[S].length <= size /\ range[S].sent + n <= range[S].length
      BY <1>4 DEF RangeOK
    <3>3. range'[S].offset + range'[S].sent = range[S].offset + range[S].sent + n
      BY <1>0, <1>4, <3>1
    <3> QED
      BY <1>0, <2>2, <3>1, <3>2, <3>3, SMTT(30)
  <2>9. stream'.data = d \o more
    BY <1>4
  <2>4. /\ Len(stream'.data) = Len(d) + n
        /\ \A k \in 1..Len(d) + n : stream'.data[k] = IF k <= Len(d) THEN d[k] ELSE more[k - Len(d)]
    <3> HIDE DEF d
    <3>1. /\ Len(d \o more) = Len(d) + Len(more)
          /\ \A k \in 1..Len(d) + Len(more) : (d \o more)[k] = IF k <= Len(d) THEN d[k] ELSE more[k - Len(d)]
      BY <1>4, <2>2, ConcatProperties, Zenon
    <3>2. Len(more) = n
      BY <1>4
    <3> QED
      BY <2>9, <3>1, <3>2, Zenon
  <2>5. \A k \in 1..n : more[k] = top + k
    BY <1>4, <1>8
  <2>6. disk' = disk /\ size' = size /\ left'[R] = left[R] /\ range'[R] = range[R]
    BY <1>1, <1>3, <1>4
  <2> HIDE DEF d, top
  <2>7. ASSUME NEW k \in 1..Len(d) + n
        PROVE  stream'.data[k] = have + k
    <3>1. CASE k <= Len(d)
      BY <2>1, <2>2, <2>4, <3>1
    <3>2. CASE k > Len(d)
      <4>1. k - Len(d) \in 1..n
        BY <1>0, <2>2, <3>2
      <4>2. stream'.data[k] = top + (k - Len(d))
        BY <1>0, <2>2, <2>4, <2>5, <3>2, <4>1
      <4> QED
        BY <1>0, <2>1, <2>2, <4>2
    <3> QED
      BY <1>0, <2>2, <3>1, <3>2
  <2>8. have + Len(stream'.data) <= size /\ range'[S].offset + range'[S].sent = have + Len(stream'.data)
    BY <1>0, <2>1, <2>2, <2>3, <2>4
  <2> QED
    BY <2>1, <2>4, <2>6, <2>7, <2>8 DEF BytesContinue
<1>9. BytesContinue'
  BY <1>1, <1>4, <1>8, <1>w DEF BytesContinue
<1> QED
  BY <1>5, <1>6, <1>7, <1>9 DEF DataInv

(* What is read is appended where it belongs, and the job completes with   *)
(* the last byte.                                                          *)
LEMMA ReadData ==
    ASSUME TypeOK, RangeOK, DataInv, NEW n \in 1..MaxSize, NEW written \in BOOLEAN,
           ReadyRead(n, written)
    PROVE  DataInv'
<1>0. S \in Ends /\ R \in Ends /\ S # R /\ MaxSize \in Nat /\ n \in Nat /\ 1 <= n
  BY Constants
<1>1. ft[R] = "Active" /\ UNCHANGED <<size, exists, iq, ft, contact, request, dialog, hazard>>
  BY DEF ReadyRead
<1> DEFINE d == stream.data
<1>2. PICK m \in 0..n :
        /\ n \in 1..Len(d)
        /\ range[R].length - range[R].sent >= n => m = n
        /\ SubSeq(d, 1, m) \in Seq(0..MaxSize) /\ Len(SubSeq(d, 1, m)) = m
        /\ \A k \in 1..m : SubSeq(d, 1, m)[k] = d[k]
        /\ range'[S] = range[S]
        /\ range'[R].length = range[R].length /\ range'[R].sent = range[R].sent + m
        /\ left'[R] = left[R] - m
        /\ stream'.up = stream.up
        /\ stream'.data = SubSeq(d, n + 1, Len(d))
        /\ disk' = (IF written THEN disk \o SubSeq(d, 1, m) ELSE disk)
        /\ written => budget' = budget
        /\ ~written => budget'.writes < MaxWriteErrors
  BY ReadTypes
<1>3. AnswersInOrder' /\ RangesAgree'
  BY <1>1 DEF DataInv, AnswersInOrder, RangesAgree
<1>4. CASE ~(written /\ NoDiskError)
  <2>1. ~NoDiskError'
    <3>1. CASE written
      BY <1>2, <1>4, <3>1 DEF NoDiskError
    <3>2. CASE ~written
      <4>1. budget'.writes \in Nat /\ MaxWriteErrors \in Nat
        <5>1. budget' \in [Bounds -> Nat]
          BY ReadTypes
        <5> QED
          BY <5>1, Constants
      <4> QED
        BY <1>2, <3>2, <4>1 DEF NoDiskError
    <3> QED
      BY <3>1, <3>2
  <2> QED
    BY <1>3, <2>1 DEF DataInv, BytesContinue, FileSound
<1>5. CASE written /\ NoDiskError
  <2> DEFINE have == Len(disk)  a == SubSeq(d, 1, m)
  <2>1. /\ have + Len(d) <= size /\ left[R] = size - have /\ range[R].length - range[R].sent >= left[R]
        /\ \A k \in 1..Len(d) : d[k] = have + k
        /\ ft[S] = "Active" /\ stream.up => range[S].offset + range[S].sent = have + Len(d)
        /\ \A i \in 1..have : disk[i] \in {i, Alien}
        /\ job[R] = "complete" => have = size
    BY <1>1, <1>5 DEF DataInv, BytesContinue, FileSound
  <2>2. /\ d \in Seq(0..MaxSize) /\ Len(d) \in Nat /\ have \in Nat /\ size \in Nat /\ disk \in Seq(0..MaxSize)
        /\ range[R].length \in Nat /\ range[R].sent \in Nat
    BY <1>0, SMTT(30) DEF TypeOK
  <2>3. n <= Len(d)
    BY <1>2, <2>2
  <2>4. m = n
    <3>1. range[R].length - range[R].sent >= n
      <4> HIDE DEF d, have
      <4>1. left[R] \in Int /\ left[R] >= n
        BY <1>0, <2>1, <2>2, <2>3
      <4>2. range[R].length - range[R].sent >= left[R]
        BY <2>1
      <4> QED
        BY <1>0, <2>2, <4>1, <4>2
    <3> QED
      BY <1>2, <3>1
  <2>5. a \in Seq(0..MaxSize) /\ Len(a) = n /\ \A k \in 1..n : a[k] = d[k]
    BY <1>2, <2>4
  <2>6. disk' = disk \o a /\ budget' = budget /\ stream'.data = SubSeq(d, n + 1, Len(d)) /\ stream'.up = stream.up
        /\ left'[R] = left[R] - n /\ range'[S] = range[S]
        /\ range'[R].length = range[R].length /\ range'[R].sent = range[R].sent + n
    BY <1>2, <1>5, <2>4
  <2> HIDE DEF a, d, have
  <2>7. /\ Len(disk') = have + n
        /\ \A i \in 1..have + n : disk'[i] = IF i <= have THEN disk[i] ELSE a[i - have]
    <3>1. a \in Seq(0..MaxSize)
      BY <2>5
    <3>2. /\ Len(disk \o a) = Len(disk) + Len(a)
          /\ \A k \in 1..Len(disk) + Len(a) : (disk \o a)[k] = IF k <= Len(disk) THEN disk[k] ELSE a[k - Len(disk)]
      BY <2>2, <3>1, ConcatProperties, Zenon
    <3>3. Len(a) = n /\ Len(disk) = have /\ disk' = disk \o a
      BY <2>5, <2>6 DEF have
    <3> QED
      BY <3>2, <3>3, Zenon
  <2>8. /\ Len(stream'.data) = Len(d) - n
        /\ \A k \in 1..Len(d) - n : stream'.data[k] = have + n + k
    <3>1. \A i \in n + 1 .. Len(d) : d[i] \in 0..MaxSize
      <4>1. \A i \in n + 1 .. Len(d) : i \in 1..Len(d)
        BY <1>0, <2>2
      <4> QED
        BY <2>2, <4>1, ElementOfSeq, Zenon
    <3>2. n + 1 \in Int /\ Len(d) \in Int
      BY <1>0, <2>2
    <3>3. /\ Len(SubSeq(d, n + 1, Len(d))) = IF n + 1 <= Len(d) THEN Len(d) - (n + 1) + 1 ELSE 0
          /\ \A i \in 1..Len(d) - (n + 1) + 1 : SubSeq(d, n + 1, Len(d))[i] = d[n + 1 + i - 1]
      BY <3>1, <3>2, SubSeqProperties
    <3>4. Len(SubSeq(d, n + 1, Len(d))) = Len(d) - n
      BY <1>0, <2>2, <2>3, <3>3
    <3>5. ASSUME NEW k \in 1..Len(d) - n
          PROVE  SubSeq(d, n + 1, Len(d))[k] = have + n + k
      <4>1. k \in 1..Len(d) - (n + 1) + 1 /\ n + 1 + k - 1 = n + k /\ n + k \in 1..Len(d) /\ k \in Nat
        BY <1>0, <2>2
      <4>2. SubSeq(d, n + 1, Len(d))[k] = d[n + k]
        BY <3>3, <4>1
      <4>3. d[n + k] = have + (n + k)
        BY <2>1, <4>1
      <4> QED
        BY <1>0, <2>2, <4>1, <4>2, <4>3
    <3> QED
      BY <2>6, <3>4, <3>5
  <2>9. BytesContinue'
    <3>1. /\ Len(disk') + Len(stream'.data) = have + Len(d)
          /\ left'[R] = size - Len(disk')
          /\ range'[R].length - range'[R].sent >= left'[R]
      <4>1. /\ range'[R].length - range'[R].sent = range[R].length - (range[R].sent + n)
            /\ left'[R] = size - have - n
        BY <2>1, <2>6
      <4>2. range[R].length - range[R].sent >= size - have
        BY <2>1
      <4>3. range[R].length - (range[R].sent + n) >= size - have - n
        BY <1>0, <2>2, <4>2, SMTT(30)
      <4>4. left'[R] = size - Len(disk') /\ Len(disk') + Len(stream'.data) = have + Len(d)
        BY <1>0, <2>2, <2>7, <2>8, <4>1
      <4> QED
        BY <4>1, <4>3, <4>4
    <3>2. \A k \in 1..Len(stream'.data) : stream'.data[k] = Len(disk') + k
      BY <2>7, <2>8
    <3>3. ft[S] = "Active" /\ stream'.up => range'[S].offset + range'[S].sent = Len(disk') + Len(stream'.data)
      BY <2>1, <2>6, <3>1
    <3> QED
      BY <1>1, <2>1, <3>1, <3>2, <3>3 DEF BytesContinue
  <2>10. FileSound'
    <3>1. ASSUME NEW i \in 1..Len(disk')
          PROVE  disk'[i] \in {i, Alien}
      <4>0. i \in 1..have + n
        BY <2>7
      <4>1. CASE i <= have
        <5>1. i \in 1..have
          BY <1>0, <2>2, <4>0, <4>1
        <5>2. disk'[i] = disk[i]
          BY <2>7, <4>0, <4>1
        <5> QED
          BY <2>1, <5>1, <5>2
      <4>2. CASE i > have
        <5>1. i - have \in 1..n /\ i - have \in 1..Len(d) /\ have + (i - have) = i
          BY <1>0, <2>2, <2>3, <4>0, <4>2
        <5>2. disk'[i] = a[i - have]
          BY <2>2, <2>7, <4>0, <4>2
        <5>3. a[i - have] = d[i - have]
          BY <2>5, <5>1
        <5>4. d[i - have] = have + (i - have)
          BY <2>1, <5>1
        <5> QED
          BY <5>1, <5>2, <5>3, <5>4
      <4> QED
        BY <1>0, <2>2, <4>0, <4>1, <4>2
    <3>2. ASSUME job'[R] = "complete"
          PROVE  Len(disk') = size
      <4>1. have # size
        BY <1>0, <2>1, <2>2, <2>3
      <4>2. job[R] # "complete"
        BY <2>1, <4>1
      <4>3. left'[R] <= 0
        <5>1. left[R] - Len(SubSeq(d, 1, Min({n, range[R].length - range[R].sent}))) <= 0
          BY <3>2, <4>2 DEF ReadyRead, d
        <5>2. left' = [left EXCEPT ![R] = left[R] - Len(SubSeq(d, 1, Min({n, range[R].length - range[R].sent})))]
          BY DEF ReadyRead, d
        <5> QED
          BY <1>0, <5>1, <5>2 DEF TypeOK
      <4> QED
        BY <1>0, <2>1, <2>2, <2>3, <2>6, <2>7, <4>3
    <3> QED
      BY <1>1, <3>1, <3>2 DEF FileSound
  <2> QED
    BY <1>3, <2>9, <2>10 DEF DataInv
<1> QED
  BY <1>4, <1>5

(* Every step keeps the two ends in agreement. *)
LEMMA NextData == TypeOK /\ RangeOK /\ LiveInv /\ DataInv /\ [Next]_vars => DataInv'
<1> SUFFICES ASSUME TypeOK, RangeOK, LiveInv, DataInv, [Next]_vars PROVE DataInv'
  OBVIOUS
<1>0. S \in Ends /\ R \in Ends /\ S # R
  BY Constants
<1>t. ft \in [Ends -> FtStates] /\ job \in [Ends -> JobStates]
  BY DEF TypeOK
<1>1. ASSUME NEW canOpen \in BOOLEAN, Send(canOpen)
      PROVE  DataInv'
  <2>1. budget'.reads = budget.reads /\ budget'.writes = budget.writes
    BY <1>1, SpendTypes DEF Send
  <2>2. /\ ft'[R] = "Idle" /\ ft'[S] \in {"Idle", "Requesting"} /\ job'[R] = "none"
        /\ UNCHANGED <<size, disk>>
    BY <1>0, <1>1, <1>t DEF Send, Quiet
  <2> QED
    BY <2>1, <2>2 DEF DataInv, AnswersInOrder, RangesAgree, BytesContinue, FileSound, NoDiskError
<1>2. CASE OfferFailed /\ (iq' = iq \/ iq' = NoIq)
  <2>2. job'[R] = job[R]
    BY <1>0, <1>2, ErrorTypes DEF OfferFailed
  <2>3. \A e \in Ends : ft'[e] \in {"Idle", ft[e]}
    BY <1>2, <1>t DEF OfferFailed
  <2>4. iq' = iq \/ iq'.type \in {"none", "reject"}
    BY <1>2 DEF NoIq
  <2> QED
    BY <1>2, <2>2, <2>3, <2>4, DataFrame DEF OfferFailed
<1>3. CASE AnswerArrives
  <2>0. iq' = NoIq /\ iq'.type = "none" /\ iq.type \in {"reject", "result"}
    BY <1>3 DEF AnswerArrives, NoIq
  <2>1. CASE UNCHANGED <<size, exists, disk, stream, jft, ft, job, contact, range, left, request, dialog, crashed, hazard, budget>>
    BY <2>0, <2>1, DataFrame
  <2>2. CASE OfferFailed
    BY <1>2, <2>0, <2>2
  <2>3. CASE /\ iq.type = "result" /\ ~(iq.offset > size \/ iq.length > size - iq.offset)
             /\ ft' = [ft EXCEPT ![S] = "Connecting"]
             /\ range' = [range EXCEPT ![S] =
                   [offset |-> iq.offset, sent |-> 0,
                    length |-> IF iq.length = 0 THEN size - iq.offset ELSE iq.length]]
             /\ UNCHANGED <<size, exists, disk, stream, jft, job, contact, left, request, dialog,
                            crashed, hazard, budget>>
    <3>1. ft'[S] = "Connecting" /\ ft'[R] = ft[R] /\ range'[R] = range[R]
      BY <1>0, <1>t, <2>3 DEF TypeOK
    <3>2. AnswersInOrder'
      BY <2>0, <2>3, <3>1 DEF DataInv, AnswersInOrder
    <3>3. ASSUME ft[R] = "Connecting"
          PROVE  range'[S] = [offset |-> Len(disk), length |-> size - Len(disk), sent |-> 0]
      <4>1. iq.offset = Len(disk) /\ iq.length \in {0, size - Len(disk)}
        BY <2>3, <3>3 DEF DataInv, RangesAgree
      <4>2. range'[S] = [offset |-> iq.offset, sent |-> 0,
                         length |-> IF iq.length = 0 THEN size - iq.offset ELSE iq.length]
        BY <1>0, <2>3 DEF TypeOK
      <4> QED
        BY <4>1, <4>2
    <3>4. RangesAgree'
      BY <2>0, <2>3, <3>1, <3>3 DEF DataInv, RangesAgree
    <3>5. BytesContinue' /\ FileSound'
      BY <2>3, <3>1 DEF DataInv, BytesContinue, FileSound, NoDiskError
    <3> QED
      BY <3>2, <3>4, <3>5 DEF DataInv
  <2> QED
    BY <1>3, <2>0, <2>1, <2>2, <2>3 DEF AnswerArrives
<1>4. CASE StreamConnected
  <2>1. Min({range[S].length, size}) \in Int
    <3>1. range[S].length \in Int /\ size \in Int
      BY <1>0 DEF TypeOK
    <3> QED
      BY <3>1, MinPair
  <2>2. /\ ft[S] = "Connecting" /\ ft[R] = "Connecting" /\ ft'[S] = "Active" /\ ft'[R] = "Active"
        /\ stream'.data = <<>> /\ Len(<<>>) = 0
        /\ UNCHANGED <<size, disk, iq, range, budget>>
    BY <1>0, <1>4 DEF StreamConnected
  <2>3. left'[R] = left[R] /\ job'[R] = job[R]
    BY <1>4, <2>1, OutgoingTypes DEF StreamConnected
  <2>4. Len(disk) \in Nat /\ size \in Nat /\ range[R].length \in Nat
    BY <1>0, Constants, SMTT(30) DEF TypeOK
  <2>5. AnswersInOrder' /\ RangesAgree'
    BY <2>2 DEF DataInv, AnswersInOrder, RangesAgree
  <2>6. BytesContinue'
    <3>1. /\ range[S].offset = Len(disk) /\ range[S].length = size - Len(disk) /\ range[S].sent = 0
          /\ range[R].sent = 0 /\ left[R] = size - Len(disk) /\ range[R].length >= left[R]
      BY <2>2 DEF DataInv, RangesAgree
    <3>2. Len(disk) + Len(stream'.data) = Len(disk) /\ Len(disk) <= size
      BY <2>2, <2>4, <3>1 DEF RangeOK
    <3>3. range[R].length - range[R].sent = range[R].length /\ range[S].offset + range[S].sent = Len(disk)
      BY <2>4, <3>1
    <3> QED
      BY <2>2, <2>3, <3>1, <3>2, <3>3 DEF BytesContinue
  <2>7. FileSound'
    BY <2>2, <2>3 DEF DataInv, FileSound, NoDiskError
  <2> QED
    BY <2>5, <2>6, <2>7 DEF DataInv
<1>5. ASSUME NEW n \in 1..MaxSize, NEW ok \in BOOLEAN, BytesWritten(n, ok)
      PROVE  DataInv'
  BY <1>5, WriteData
<1>6. ASSUME NEW thumbnail \in BOOLEAN, OfferArrives(thumbnail)
      PROVE  DataInv'
  <2>1. /\ ft'[R] = "WaitingForAccept" /\ ft'[S] = ft[S] /\ iq.type = "offer" /\ iq'.type = "none"
        /\ UNCHANGED <<size, disk, job, budget>>
    BY <1>0, <1>6, <1>t DEF OfferArrives, NoIq
  <2> QED
    BY <2>1 DEF DataInv, AnswersInOrder, RangesAgree, BytesContinue, FileSound, NoDiskError
<1>7. CASE AskIncomingTransfer \/ CancelIncomingTransfer \/ SaveIncomingTransfer \/ SaveDialogLeft
  <2>1. UNCHANGED <<size, disk, range, left, budget, stream, ft, iq, job>>
    BY <1>7 DEF AskIncomingTransfer, CancelIncomingTransfer, SaveIncomingTransfer, SaveDialogLeft
  <2> QED
    BY <2>1, DataFrame
<1>8. ASSUME NEW new \in BOOLEAN, NEW ok \in BOOLEAN, SaveDialogDone(new, ok)
      PROVE  DataInv'
  <2>1. ft[R] = "WaitingForAccept" /\ job'[R] # "complete"
    BY <1>0, <1>8, <1>t DEF SaveDialogDone, LiveInv, RequestOpen
  <2>2. CASE new
    BY <1>8, <2>1, <2>2, AcceptData DEF SaveDialogDone
  <2>3. CASE ~new
    <3>1. UNCHANGED <<size, disk, range, left, budget, stream, ft, iq>>
      BY <1>8, <2>3 DEF SaveDialogDone
    <3> QED
      BY <2>1, <3>1, DataFrame
  <2> QED
    BY <2>2, <2>3
<1>9. ASSUME NEW answer \in {"resume", "overwrite", "cancel"}, NEW ok \in BOOLEAN, ResumeBoxDone(answer, ok)
      PROVE  DataInv'
  <2>1. ft[R] = "WaitingForAccept" /\ job[R] # "complete" /\ UNCHANGED <<size, stream, budget>>
    BY <1>9 DEF ResumeBoxDone, LiveInv, RequestOpen
  <2>2. CASE answer = "cancel" \/ job[R] = "none"
    <3>1. UNCHANGED <<disk, range, left, ft, iq, job>>
      BY <1>9, <2>2 DEF ResumeBoxDone
    <3> QED
      BY <2>1, <3>1, DataFrame
  <2>3. CASE answer # "cancel" /\ job[R] # "none"
    <3>1. Accept(answer = "resume", ok) /\ job' = (IF ok THEN job ELSE Finish(R, "error"))
      BY <1>9, <2>3 DEF ResumeBoxDone
    <3>2. job'[R] # "complete"
      BY <1>0, <1>t, <2>1, <3>1 DEF Finish
    <3> QED
      BY <2>1, <3>1, <3>2, AcceptData
  <2> QED
    BY <2>2, <2>3
<1>10. ASSUME NEW n \in 1..MaxSize, NEW written \in BOOLEAN, ReadyRead(n, written)
       PROVE  DataInv'
  BY <1>10, ReadData
<1>11. ASSUME NEW e \in Ends, StreamFails(e) \/ StreamClosed(e)
       PROVE  DataInv'
  <2>1. /\ UNCHANGED <<size, disk, iq, stream, range, left, budget>>
        /\ SlotTransferError(e) \/ UNCHANGED <<job, jft, crashed>>
        /\ ft' = [ft EXCEPT ![e] = "Idle"]
    BY <1>11 DEF StreamFails, StreamClosed
  <2>2. job'[R] = "complete" => job[R] = "complete"
    BY <1>0, <2>1, ErrorTypes
  <2>3. \A f \in Ends : ft'[f] \in {"Idle", ft[f]}
    BY <1>t, <2>1
  <2> QED
    BY <2>1, <2>2, <2>3, DataFrame
<1>12. ASSUME NEW e \in Ends, NEW k \in 0..MaxSize, StreamBreaks(e, k)
       PROVE  DataInv'
  <2>1. /\ UNCHANGED <<size, disk, iq, range, left>> /\ SlotTransferError(e)
        /\ ft' = [ft EXCEPT ![e] = "Idle"]
        /\ stream' = [up |-> FALSE, data |-> SubSeq(stream.data, 1, k)]
        /\ k \in 0..Len(stream.data)
    BY <1>12 DEF StreamBreaks
  <2>2. job'[R] = "complete" => job[R] = "complete"
    BY <1>0, <2>1, ErrorTypes
  <2>3. ft'[S] \in {"Idle", ft[S]} /\ ft'[R] \in {"Idle", ft[R]}
    BY <1>0, <1>t, <2>1
  <2>4. budget'.reads = budget.reads /\ budget'.writes = budget.writes
    BY <1>12, SpendTypes DEF StreamBreaks
  <2>5. /\ Len(stream'.data) = k /\ Len(stream'.data) <= Len(stream.data)
        /\ \A i \in 1..k : i \in 1..Len(stream.data) /\ stream'.data[i] = stream.data[i]
    <3> DEFINE d == stream.data
    <3>1. d \in Seq(0..MaxSize) /\ k \in 0..Len(d) /\ stream'.data = SubSeq(d, 1, k)
      BY <2>1 DEF TypeOK
    <3> HIDE DEF d
    <3>2. Len(d) \in Nat /\ k \in Nat /\ k <= Len(d)
      BY <3>1
    <3>3. Len(SubSeq(d, 1, k)) = k /\ \A i \in 1..k : i \in 1..Len(d) /\ SubSeq(d, 1, k)[i] = d[i]
      BY <3>1, <3>2
    <3> QED
      BY <3>1, <3>2, <3>3 DEF d
  <2>6. AnswersInOrder' /\ RangesAgree' /\ FileSound'
    BY <2>1, <2>2, <2>3, <2>4 DEF DataInv, AnswersInOrder, RangesAgree, FileSound, NoDiskError
  <2>7. ASSUME ft[R] = "Active", NoDiskError, ft'[R] = "Active"
        PROVE  BytesContinue'
    <3>1. /\ Len(disk) + Len(stream.data) <= size /\ left[R] = size - Len(disk)
          /\ range[R].length - range[R].sent >= left[R]
          /\ \A i \in 1..Len(stream.data) : stream.data[i] = Len(disk) + i
      BY <2>7 DEF DataInv, BytesContinue
    <3>2. Len(disk) \in Nat /\ Len(stream.data) \in Nat /\ size \in Nat /\ k \in Nat
      <4>1. MaxSize \in Nat /\ k \in Nat /\ size \in Nat
        BY Constants DEF TypeOK
      <4>2. stream.data \in Seq(0..MaxSize) /\ disk \in Seq(0..MaxSize)
        BY DEF TypeOK
      <4> QED
        BY <4>1, <4>2, LenProperties
    <3>3. Len(disk) + Len(stream'.data) <= size
      BY <2>5, <3>1, <3>2
    <3>4. \A i \in 1..k : stream'.data[i] = Len(disk) + i
      BY <2>5, <3>1
    <3>5. ~stream'.up
      BY <2>1
    <3> QED
      BY <2>1, <2>5, <3>1, <3>3, <3>4, <3>5 DEF BytesContinue
  <2>8. BytesContinue'
    BY <2>3, <2>4, <2>7 DEF BytesContinue, NoDiskError
  <2> QED
    BY <2>6, <2>8 DEF DataInv
<1>13. ASSUME NEW e \in Ends, KillJob(e) \/ ContactDestroyed(e)
       PROVE  DataInv'
  <2>1. UNCHANGED <<size, disk, range, left>> /\ budget'.reads = budget.reads /\ budget'.writes = budget.writes
    BY <1>13, SpendTypes DEF KillJob, ContactDestroyed
  <2>2. CASE Canceled(e) /\ job[e] = "running"
    <3>1. /\ job'[e] = "canceled" /\ \A f \in Ends \ {e} : job'[f] = job[f] /\ ft'[f] = ft[f]
          /\ iq' = iq \/ iq'.type = "reject"
          /\ stream'.data = stream.data /\ (stream' = stream \/ ~stream'.up)
          /\ ft'[e] \in {"Idle", ft[e]}
      BY <2>2, CanceledTypes
    <3>2. job'[R] = "complete" => job[R] = "complete"
      BY <1>0, <3>1
    <3>3. \A f \in Ends : ft'[f] \in {"Idle", ft[f]}
      BY <3>1
    <3> QED
      BY <2>1, <3>1, <3>2, <3>3, DataFrame
  <2>3. CASE UNCHANGED <<job, jft, ft, iq, stream>>
    BY <2>1, <2>3, DataFrame
  <2> QED
    BY <1>13, <2>2, <2>3 DEF KillJob, ContactDestroyed
<1>14. ASSUME NEW e \in Ends, DeferredDelete(e)
       PROVE  DataInv'
  <2>1. /\ UNCHANGED <<size, disk, range, left, budget>>
        /\ job'[R] = "complete" => job[R] = "complete"
    BY <1>0, <1>14, <1>t DEF DeferredDelete
  <2>2. /\ \A f \in Ends : ft'[f] \in {"Idle", ft[f]}
        /\ iq' = iq \/ iq'.type \in {"none", "reject"}
        /\ stream'.data = stream.data /\ (stream'.up => stream.up)
    BY <1>14, CloseTypes DEF DeferredDelete
  <2> QED
    BY <2>1, <2>2, DataFrame
<1>15. CASE StanzaLost \/ CrashSeen \/ UNCHANGED vars
  <2>1. UNCHANGED <<size, disk, range, left, budget, ft, job>> /\ (iq' = iq \/ iq'.type = "none")
    BY <1>15 DEF StanzaLost, CrashSeen, NoIq, vars
  <2>2. stream'.data = stream.data /\ (stream'.up => stream.up)
    BY <1>15 DEF StanzaLost, CrashSeen, vars, TypeOK
  <2> QED
    BY <2>1, <2>2, DataFrame
<1> QED
  BY <1>1, <1>2, <1>3, <1>4, <1>5, <1>6, <1>7, <1>8, <1>9, <1>10, <1>11, <1>12, <1>13, <1>14, <1>15
  DEF Next, Written, Read, OfferTimeout

-----------------------------------------------------------------------------
(* Nothing is under way at first; a file that is there is Alien. *)
LEMMA InitIInv == Init => IInv
<1> SUFFICES ASSUME Init PROVE IInv
  OBVIOUS
<1>0. S \in Ends /\ R \in Ends /\ S # R
  BY Constants
<1>1. PICK n \in 0..MaxSize + 1 : disk = [i \in 1..n |-> Alien]
  BY Constants DEF Init
<1>2. n \in Nat /\ MaxSize \in Nat /\ Alien \in 0..MaxSize
  BY Constants DEF Alien
<1>3. disk \in Seq(0..MaxSize) /\ \A i \in 1..Len(disk) : disk[i] = Alien
  BY <1>1, <1>2
<1>4. size \in 0..MaxSize /\ size \in Nat
  BY Constants DEF Init
<1>5. /\ iq \in Stanzas /\ iq.type = "none"
      /\ stream \in Streams
      /\ range \in [Ends -> Ranges] /\ left \in [Ends -> Int]
      /\ range[S].offset + range[S].length <= size /\ range[S].sent <= range[S].length
  BY <1>0, <1>4 DEF Init, NoIq, NoStream, NoRange
<1>6. /\ jft \in [Ends -> JftStates] /\ ft \in [Ends -> FtStates] /\ job \in [Ends -> JobStates]
      /\ \A e \in Ends : ft[e] = "Idle" /\ job[e] = "none"
  BY DEF Init
<1>7. contact \in [Ends -> BOOLEAN] /\ contact[R] = TRUE
  BY <1>0 DEF Init
<1>8. budget \in [Bounds -> Nat] /\ budget.reads <= MaxReadErrors /\ budget.writes <= MaxWriteErrors
  BY Constants DEF Init
<1>9. exists \in BOOLEAN
  BY DEF Init
<1>10. TypeOK /\ RangeOK
  BY <1>3, <1>4, <1>5, <1>6, <1>7, <1>8, <1>9 DEF Init, TypeOK, RangeOK
<1>11. LiveInv
  BY <1>0, <1>5, <1>6, <1>7 DEF Init, LiveInv, SignalsHeld, RequestOpen, HazardKnown, UsesLiveObjects
<1>12. DataInv
  BY <1>0, <1>3, <1>5, <1>6 DEF DataInv, AnswersInOrder, RangesAgree, BytesContinue, FileSound
<1> QED
  BY <1>10, <1>11, <1>12 DEF IInv

(* The specification keeps the inductive invariant. *)
THEOREM TransferInvariance == Spec => []IInv
<1>1. IInv /\ [Next]_vars => IInv'
  BY NextTypes, NextLive, NextData DEF IInv
<1> QED
  BY <1>1, InitIInv, PTL DEF Spec

(* The type invariant: among it, every byte under way is one of the file.  *)
THEOREM TransferTypeCorrect == Spec => []TypeOK
<1>1. IInv => TypeOK
  BY DEF IInv
<1> QED
  BY <1>1, TransferInvariance, PTL

(* The sender never uses a job or contact that is gone, the receiver only  *)
(* in the two cases that `hazard' records.                                 *)
THEOREM TransferUsesLiveObjects == Spec => []UsesLiveObjects
<1>1. IInv => UsesLiveObjects
  BY DEF IInv, LiveInv
<1> QED
  BY <1>1, TransferInvariance, PTL

(* A file reported complete is whole, unless a read or a write failed:    *)
(* however often it was offered, broken off, resumed or overwritten.       *)
THEOREM TransferCompleteIsWhole == Spec => []CompleteIsWhole
<1>1. IInv => CompleteIsWhole
  <2> SUFFICES ASSUME IInv, job[R] = "complete", budget.reads = MaxReadErrors, budget.writes = MaxWriteErrors
               PROVE  Len(disk) = size /\ \A i \in 1..size : disk[i] \in {i, Alien}
    BY DEF CompleteIsWhole
  <2> QED
    BY DEF IInv, DataInv, FileSound, NoDiskError
<1> QED
  BY <1>1, TransferInvariance, PTL
=============================================================================
