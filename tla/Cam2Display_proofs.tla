------------------------- MODULE Cam2Display_proofs -------------------------
(***************************************************************************)
(* Proofs about Cam2Display for every number of buffers, every grant of    *)
(* the driver, every number of frames and with every failure allowed.      *)
(***************************************************************************)
EXTENDS Cam2Display, TLAPS

(* What the sequence operators do to the elements.                         *)
LEMMA AppendFacts ==
  ASSUME NEW S, NEW s \in Seq(S), NEW e \in S
  PROVE  /\ Append(s, e) \in Seq(S)
         /\ Len(Append(s, e)) = Len(s) + 1
         /\ \A i \in 1 .. Len(s) : Append(s, e)[i] = s[i]
         /\ Append(s, e)[Len(s) + 1] = e
OBVIOUS

LEMMA TailFacts ==
  ASSUME NEW S, NEW s \in Seq(S), s # <<>>
  PROVE  /\ Len(s) \in Nat /\ Len(s) >= 1
         /\ Head(s) = s[1] /\ Head(s) \in S
         /\ Tail(s) \in Seq(S)
         /\ Len(Tail(s)) = Len(s) - 1
         /\ \A i \in 1 .. Len(s) - 1 : Tail(s)[i] = s[i + 1]
OBVIOUS

LEMMA DistinctAppend ==
  ASSUME NEW S, NEW s \in Seq(S), NEW e \in S, Distinct(s),
         \A i \in 1 .. Len(s) : s[i] # e
  PROVE  Distinct(Append(s, e))
<1>1. \A i \in 1 .. Len(s) + 1 : i \in 1 .. Len(s) \/ i = Len(s) + 1
  OBVIOUS
<1> QED
  BY <1>1, AppendFacts DEF Distinct

LEMMA DistinctTail ==
  ASSUME NEW S, NEW s \in Seq(S), s # <<>>, Distinct(s)
  PROVE  /\ Distinct(Tail(s))
         /\ \A i \in 1 .. Len(Tail(s)) : Tail(s)[i] # Head(s)
BY TailFacts DEF Distinct

LEMMA EmptyFacts ==
  ASSUME NEW S
  PROVE  <<>> \in Seq(S) /\ Len(<<>>) = 0
OBVIOUS

-----------------------------------------------------------------------------
LEMMA InitIInv == Init => IInv
<1> SUFFICES ASSUME Init PROVE IInv
  OBVIOUS
<1> USE BufferAssumption, EmptyFacts DEF Init
<1>1. TypeOK
  <2>1. <<>> \in Seq(Buffers)
    BY EmptyFacts
  <2>2. frame \in [Buffers -> Nat]
    OBVIOUS
  <2>3. curr \in Buffers /\ n \in 0 .. BUFCOUNT
    BY DEF Buffers
  <2> QED
    BY <2>1, <2>2, <2>3 DEF TypeOK
<1>2. Phases
  BY DEF Phases, Setup
<1>3. SingleOwner
  BY DEF SingleOwner, Distinct, DriverOwns, None
<1>4. NoDoubleQueue /\ NoBufferLost /\ EventMeansShown /\ FlipsCurrent
  BY DEF NoDoubleQueue, NoBufferLost, EventMeansShown, FlipsCurrent
<1>5. NewerUpstream /\ ReturnedBehind
  BY DEF NewerUpstream, ReturnedBehind, Buffers
<1> QED
  BY <1>1, <1>2, <1>3, <1>4, <1>5 DEF IInv

(* The parts about buffers depend only on where the buffers are.           *)
BufferVars == <<n, next, curr, einval, queued, filled, streaming, frame,
                captured, scanout, flip, event, shown, lag>>

LEMMA SameBuffers ==
  ASSUME IInv, UNCHANGED BufferVars
  PROVE  (SingleOwner /\ NoDoubleQueue /\ NoBufferLost /\ FlipsCurrent
            /\ NewerUpstream /\ ReturnedBehind)'
<1> USE DEF IInv, BufferVars
<1>1. (SingleOwner /\ NoDoubleQueue)'
  BY DEF SingleOwner, Distinct, DriverOwns, NoDoubleQueue
<1>2. (NoBufferLost /\ FlipsCurrent)'
  BY DEF NoBufferLost, FlipsCurrent
<1>3. NewerUpstream'
  BY DEF NewerUpstream
<1>4. ReturnedBehind'
  BY DEF ReturnedBehind
<1> QED
  BY <1>1, <1>2, <1>3, <1>4

(* Without streaming and with empty queues little is left to show.         *)
LEMMA StoppedBuffers ==
  ASSUME IInv, queued' = <<>>, filled' = <<>>, streaming' = FALSE,
         UNCHANGED <<next, curr, frame, captured, shown>>
  PROVE  (SingleOwner /\ NoBufferLost /\ NewerUpstream /\ ReturnedBehind)'
<1> USE EmptyFacts DEF IInv
<1>1. SingleOwner'
  BY DEF SingleOwner, Distinct, DriverOwns
<1>2. (NoBufferLost /\ ReturnedBehind)'
  BY DEF NoBufferLost, ReturnedBehind
<1>3. NewerUpstream'
  BY DEF NewerUpstream
<1> QED
  BY <1>1, <1>2, <1>3

(* Ending by exit() before the teardown keeps the invariant when no QBUF   *)
(* was refused for a buffer the driver had.                                *)
LEMMA AbortIInv == IInv /\ ~freed /\ Abort /\ einval' = FALSE => IInv'
<1> SUFFICES ASSUME IInv, ~freed, Abort, einval' = FALSE PROVE IInv'
  OBVIOUS
<1> USE DEF Abort
<1>1. TypeOK'
  BY EmptyFacts DEF IInv, TypeOK, Off, Saved, None
<1>2. Phases'
  BY DEF IInv, Phases, Setup
<1>3. (NoDoubleQueue /\ EventMeansShown /\ FlipsCurrent)'
  BY DEF NoDoubleQueue, EventMeansShown, FlipsCurrent
<1>4. (SingleOwner /\ NoBufferLost /\ NewerUpstream /\ ReturnedBehind)'
  BY StoppedBuffers
<1> QED
  BY <1>1, <1>2, <1>3, <1>4 DEF IInv

(* A QBUF is never refused because the driver has the buffer.              *)
LEMMA RequeueFailsIInv ==
  ASSUME IInv, pc = "handle", NEW b \in {curr, next}, b # None,
         RequeueFails(b)
  PROVE  IInv'
<1>1. ~DriverOwns(b)
  BY DEF IInv, SingleOwner
<1>2. einval' = FALSE
  BY <1>1 DEF RequeueFails
<1>3. ~freed
  BY DEF IInv, Phases
<1> QED
  BY <1>2, <1>3, AbortIInv DEF RequeueFails

-----------------------------------------------------------------------------
(* Steps that leave every buffer where it is.                              *)
Control ==
  \/ CheckQuit \/ PollReady \/ PollInterrupted \/ PollEnds \/ DequeueFails
  \/ Signal

LEMMA ControlIInv == IInv /\ Control => IInv'
<1> SUFFICES ASSUME IInv, Control PROVE IInv'
  OBVIOUS
<1>1. UNCHANGED BufferVars
  BY DEF Control, CheckQuit, PollReady, PollInterrupted, PollEnds,
         DequeueFails, Signal, BufferVars, camVars, dispVars
<1>2. TypeOK'
  BY DEF Control, CheckQuit, PollReady, Ready, PollInterrupted, PollEnds,
         DequeueFails, Signal, IInv, TypeOK, camVars, dispVars
<1>3. Phases'
  BY DEF Control, CheckQuit, PollReady, PollInterrupted, PollEnds,
         DequeueFails, Signal, IInv, Phases, Setup, camVars, dispVars
<1>4. EventMeansShown'
  BY DEF Control, CheckQuit, PollReady, Ready, PollInterrupted, PollEnds,
         DequeueFails, Signal, IInv, EventMeansShown, camVars, dispVars
<1> QED
  BY <1>1, <1>2, <1>3, <1>4, SameBuffers DEF IInv

LEMMA StutterIInv == IInv /\ UNCHANGED vars => IInv'
<1> SUFFICES ASSUME IInv, UNCHANGED vars PROVE IInv'
  OBVIOUS
<1> USE DEF vars, appVars, camVars, dispVars
<1>1. UNCHANGED BufferVars
  BY DEF BufferVars
<1>2. (TypeOK /\ Phases /\ EventMeansShown)'
  BY DEF IInv, TypeOK, Phases, EventMeansShown
<1> QED
  BY <1>1, <1>2, SameBuffers DEF IInv

-----------------------------------------------------------------------------
(* Setup.                                                                  *)
LEMMA DrmSetupIInv == IInv /\ DrmSetup => IInv'
<1> SUFFICES ASSUME IInv, DrmSetup PROVE IInv'
  OBVIOUS
<1> USE BufferAssumption DEF IInv, DrmSetup, camVars
<1>1. TypeOK'
  BY DEF TypeOK, Buffers
<1>2. Phases'
  BY DEF Phases, Setup
<1>3. SingleOwner'
  BY DEF SingleOwner, Distinct, DriverOwns
<1>4. (NoDoubleQueue /\ NoBufferLost /\ ReturnedBehind)'
  BY DEF NoDoubleQueue, NoBufferLost, ReturnedBehind, Phases, Setup
<1>5. (EventMeansShown /\ FlipsCurrent)'
  BY DEF EventMeansShown, FlipsCurrent, Phases, Setup, None
<1>6. NewerUpstream'
  BY DEF NewerUpstream
<1> QED
  BY <1>1, <1>2, <1>3, <1>4, <1>5, <1>6

LEMMA V4l2SetupIInv == IInv /\ V4l2Setup => IInv'
<1> SUFFICES ASSUME IInv, V4l2Setup PROVE IInv'
  OBVIOUS
<1>1. CASE Abort /\ UNCHANGED einval
  <2>1. einval' = FALSE /\ ~freed
    BY <1>1 DEF V4l2Setup, IInv, NoDoubleQueue, TypeOK, Phases
  <2> QED
    BY <1>1, <2>1, AbortIInv
<1>2. ASSUME NEW granted \in Grants, granted >= 2, n' = granted,
             pc' = "start", pc = "v4l2_setup",
             UNCHANGED <<todo, quit, next, curr, einval, freed, camVars,
                         dispVars, lag>>
      PROVE  IInv'
  <2> USE <1>2, BufferAssumption DEF IInv, camVars, dispVars
  <2>1. TypeOK'
    BY DEF TypeOK
  <2>2. Phases'
    BY DEF Phases, Setup
  <2>3. SingleOwner'
    BY DEF SingleOwner, Distinct, DriverOwns
  <2>4. (NoDoubleQueue /\ NoBufferLost /\ ReturnedBehind)'
    BY DEF NoDoubleQueue, NoBufferLost, ReturnedBehind, Phases, Setup
  <2>5. (EventMeansShown /\ FlipsCurrent)'
    BY DEF EventMeansShown, FlipsCurrent
  <2>6. NewerUpstream'
    BY DEF NewerUpstream
  <2> QED
    BY <2>1, <2>2, <2>3, <2>4, <2>5, <2>6
<1> QED
  BY <1>1, <1>2 DEF V4l2Setup

LEMMA StartCapturingIInv == IInv /\ StartCapturing => IInv'
<1> SUFFICES ASSUME IInv, StartCapturing PROVE IInv'
  OBVIOUS
<1> USE BufferAssumption DEF StartCapturing, IInv
<1>1. /\ queued' \in Seq(Buffers) /\ Len(queued') = n - 1
      /\ \A i \in 1 .. n - 1 : queued'[i] = i
      /\ n >= 2
  BY DEF TypeOK, Phases, Setup, Buffers
<1>2. filled = <<>> /\ next = None /\ curr = 0 /\ scanout = 0
  BY DEF Phases, Setup
<1>3. TypeOK'
  BY <1>1 DEF TypeOK, dispVars
<1>4. Phases'
  BY DEF Phases, Setup, TypeOK
<1>5. SingleOwner'
  BY <1>1, <1>2, EmptyFacts
     DEF SingleOwner, Distinct, DriverOwns, TypeOK, None, Buffers
<1>6. NoBufferLost'
  BY <1>1, <1>2, EmptyFacts DEF NoBufferLost, TypeOK, None
<1>7. (NoDoubleQueue /\ EventMeansShown /\ FlipsCurrent)'
  BY <1>2 DEF NoDoubleQueue, EventMeansShown, FlipsCurrent, dispVars
<1>8. NewerUpstream'
  BY <1>2 DEF NewerUpstream, dispVars
<1>9. ReturnedBehind'
  BY <1>2 DEF ReturnedBehind, dispVars
<1> QED
  BY <1>3, <1>4, <1>5, <1>6, <1>7, <1>8, <1>9

LEMMA SetupFailsIInv == IInv /\ SetupFails => IInv'
<1> SUFFICES ASSUME IInv, SetupFails PROVE IInv'
  OBVIOUS
<1>1. einval' = FALSE /\ ~freed
  BY DEF IInv, NoDoubleQueue, TypeOK, SetupFails, DrmSetupFails, V4l2SetupFails, StartFails, Fails, Phases
<1> QED
  BY <1>1, AbortIInv DEF SetupFails, DrmSetupFails, V4l2SetupFails, StartFails, Fails

-----------------------------------------------------------------------------
(* Teardown.                                                               *)
LEMMA StopIInv == IInv /\ (StopCapturing \/ CloseCapture) => IInv'
<1> SUFFICES ASSUME IInv, StopCapturing \/ CloseCapture PROVE IInv'
  OBVIOUS
<1>1. TypeOK'
  BY EmptyFacts DEF StopCapturing, CloseCapture, IInv, TypeOK, dispVars
<1>2. Phases'
  BY DEF StopCapturing, CloseCapture, IInv, Phases, Setup, dispVars
<1>3. (NoDoubleQueue /\ EventMeansShown /\ FlipsCurrent)'
  BY DEF StopCapturing, CloseCapture, IInv, NoDoubleQueue, EventMeansShown,
         FlipsCurrent, dispVars
<1>4. (SingleOwner /\ NoBufferLost /\ NewerUpstream /\ ReturnedBehind)'
  <2>1. CASE queued' = <<>> /\ filled' = <<>> /\ streaming' = FALSE
    BY <2>1, StoppedBuffers DEF StopCapturing, CloseCapture, dispVars
  <2>2. CASE UNCHANGED <<queued, filled, streaming>>
    <3>1. UNCHANGED BufferVars
      BY <2>2 DEF StopCapturing, CloseCapture, BufferVars, dispVars
    <3> QED
      BY <3>1, SameBuffers
  <2> QED
    BY <2>1, <2>2 DEF StopCapturing, CloseCapture
<1> QED
  BY <1>1, <1>2, <1>3, <1>4 DEF IInv

LEMMA DestroyIInv == IInv /\ Destroy => IInv'
<1> SUFFICES ASSUME IInv, Destroy PROVE IInv'
  OBVIOUS
<1> USE DEF IInv, Destroy, camVars
<1>1. TypeOK'
  BY DEF TypeOK
<1>2. Phases'
  BY DEF Phases, Setup
<1>3. SingleOwner'
  BY DEF SingleOwner, Distinct, DriverOwns
<1>4. (NoDoubleQueue /\ NoBufferLost /\ EventMeansShown /\ FlipsCurrent)'
  BY DEF NoDoubleQueue, NoBufferLost, EventMeansShown, FlipsCurrent, Phases
<1>5. (NewerUpstream /\ ReturnedBehind)'
  BY DEF NewerUpstream, ReturnedBehind, Phases
<1> QED
  BY <1>1, <1>2, <1>3, <1>4, <1>5

-----------------------------------------------------------------------------
(* The camera fills the buffer at the head of its queue.                   *)
LEMMA CaptureIInv == IInv /\ Capture => IInv'
<1> SUFFICES ASSUME IInv, Capture PROVE IInv'
  OBVIOUS
<1> DEFINE b == Head(queued)
<1>a. /\ TypeOK /\ Phases /\ SingleOwner /\ NoDoubleQueue /\ NoBufferLost
      /\ EventMeansShown /\ FlipsCurrent /\ NewerUpstream /\ ReturnedBehind
  BY DEF IInv
<1>b. /\ streaming /\ queued # <<>> /\ captured' = captured + 1
      /\ frame' = [frame EXCEPT ![b] = captured + 1]
      /\ filled' = Append(filled, b) /\ queued' = Tail(queued)
      /\ lag' = lag + 1
  BY DEF Capture
<1>c. UNCHANGED <<pc, todo, quit, n, next, curr, einval, freed, streaming,
                  scanout, flip, event, shown>>
  BY DEF Capture, appVars, dispVars
<1>1. /\ queued \in Seq(Buffers) /\ filled \in Seq(Buffers)
      /\ frame \in [Buffers -> Nat] /\ captured \in Nat /\ lag \in Nat
      /\ n \in Int /\ curr \in Buffers /\ shown \in Nat
      /\ next \in Buffers \cup {None}
  BY <1>a, BufferAssumption DEF TypeOK
<1>2. /\ Len(queued) \in Nat /\ Len(queued) >= 1
      /\ b = queued[1] /\ b \in Buffers
      /\ queued' \in Seq(Buffers) /\ Len(queued') = Len(queued) - 1
      /\ \A i \in 1 .. Len(queued) - 1 : queued'[i] = queued[i + 1]
  BY <1>b, <1>1, TailFacts
<1> HIDE DEF b
<1>3. /\ Len(filled) \in Nat
      /\ filled' \in Seq(Buffers) /\ Len(filled') = Len(filled) + 1
      /\ \A i \in 1 .. Len(filled) : filled'[i] = filled[i]
      /\ filled'[Len(filled) + 1] = b
  BY <1>b, <1>1, <1>2, AppendFacts
<1>4. /\ frame' \in [Buffers -> Nat]
      /\ frame'[b] = captured + 1
      /\ \A c \in Buffers : c # b => frame'[c] = frame[c]
  BY <1>b, <1>1, <1>2
<1>5. ~DriverOwns(curr) /\ (next # None => ~DriverOwns(next)) /\ next # curr
  BY <1>a DEF SingleOwner
<1>6. /\ b # curr /\ b # next
      /\ \A i \in 1 .. Len(filled) : filled[i] # b
  <2>1. b # curr
    BY <1>2, <1>5 DEF DriverOwns
  <2>2. b # next
    BY <1>2, <1>5 DEF DriverOwns, Buffers, None
  <2>3. \A i \in 1 .. Len(filled) : filled[i] # b
    BY <1>a, <1>2 DEF SingleOwner
  <2> QED
    BY <2>1, <2>2, <2>3
<1>7. TypeOK'
  BY <1>a, <1>b, <1>c, <1>1, <1>2, <1>3, <1>4 DEF TypeOK
<1>8. Phases'
  BY <1>a, <1>b, <1>c DEF Phases, Setup
<1>9. SingleOwner'
  <2>1. Distinct(queued') /\ \A i \in 1 .. Len(queued') : queued'[i] # b
    BY <1>a, <1>b, <1>1, DistinctTail DEF SingleOwner, b
  <2>2. Distinct(filled')
    BY <1>a, <1>b, <1>1, <1>2, <1>6, DistinctAppend DEF SingleOwner
  <2>3. \A i \in 1 .. Len(queued') : \E k \in 1 .. Len(queued) :
          queued'[i] = queued[k]
    <3>1. \A i \in 1 .. Len(queued') : i + 1 \in 1 .. Len(queued)
      BY <1>2
    <3> QED
      BY <1>2, <3>1
  <2>4. \A j \in 1 .. Len(filled') :
          filled'[j] = b \/ \E k \in 1 .. Len(filled) : filled'[j] = filled[k]
    <3>1. \A j \in 1 .. Len(filled') : j \in 1 .. Len(filled) \/ j = Len(filled) + 1
      BY <1>3
    <3> QED
      BY <1>3, <3>1
  <2>5. \A i \in 1 .. Len(queued'), j \in 1 .. Len(filled') :
          queued'[i] # filled'[j]
    BY <1>a, <2>1, <2>3, <2>4 DEF SingleOwner
  <2>6. ~DriverOwns(curr)' /\ (next' # None => ~DriverOwns(next)')
    BY <1>c, <1>5, <1>6, <2>3, <2>4 DEF DriverOwns
  <2> QED
    BY <1>c, <1>5, <2>1, <2>2, <2>5, <2>6 DEF SingleOwner
<1>10. NoBufferLost'
  BY <1>a, <1>c, <1>1, <1>2, <1>3 DEF NoBufferLost
<1>11. (NoDoubleQueue /\ EventMeansShown /\ FlipsCurrent)'
  BY <1>a, <1>c DEF NoDoubleQueue, EventMeansShown, FlipsCurrent
<1>12. NewerUpstream'
  <2>1. /\ frame'[curr] = frame[curr] /\ frame[curr] \in Nat
        /\ next # None => frame'[next] = frame[next]
        /\ \A i \in 1 .. Len(filled) : frame'[filled'[i]] = frame[filled[i]]
    <3>1. frame'[curr] = frame[curr] /\ frame[curr] \in Nat
      BY <1>1, <1>4, <1>6
    <3>2. next # None => frame'[next] = frame[next]
      BY <1>1, <1>4, <1>6
    <3>3. ASSUME NEW i \in 1 .. Len(filled) PROVE frame'[filled'[i]] = frame[filled[i]]
      <4>1. filled[i] \in Buffers /\ filled[i] # b /\ filled'[i] = filled[i]
        BY <1>1, <1>3, <1>6
      <4> QED
        BY <1>4, <4>1
    <3> QED
      BY <3>1, <3>2, <3>3
  <2>2. \A i \in 1 .. Len(filled) :
          /\ frame'[filled'[i]] \in 1 .. captured
          /\ frame'[filled'[i]] > frame'[curr]
          /\ next # None => frame'[filled'[i]] > frame'[next]
          /\ \A j \in 1 .. Len(filled) :
               i < j => frame'[filled'[i]] < frame'[filled'[j]]
    BY <1>a, <2>1 DEF NewerUpstream
  <2>3. /\ frame'[filled'[Len(filled) + 1]] = captured + 1
        /\ frame'[curr] < captured + 1
        /\ next # None => frame'[next] < captured + 1
    BY <1>a, <1>1, <1>3, <1>4, <2>1 DEF NewerUpstream
  <2>4. \A i \in 1 .. Len(filled') : i \in 1 .. Len(filled) \/ i = Len(filled) + 1
    BY <1>3
  <2>5. \A i \in 1 .. Len(filled') :
          /\ frame'[filled'[i]] \in 1 .. captured'
          /\ frame'[filled'[i]] > frame'[curr]
          /\ next # None => frame'[filled'[i]] > frame'[next]
    BY <1>b, <1>1, <2>2, <2>3, <2>4
  <2>6. \A i, j \in 1 .. Len(filled') :
          i < j => frame'[filled'[i]] < frame'[filled'[j]]
    <3> TAKE i, j \in 1 .. Len(filled')
    <3> HAVE i < j
    <3>1. i \in 1 .. Len(filled) /\ Len(filled) \in Nat
      BY <1>3, <2>4
    <3>2. CASE j \in 1 .. Len(filled)
      BY <2>2, <3>1, <3>2
    <3>3. CASE j = Len(filled) + 1
      <4>1. /\ frame'[filled'[j]] = captured + 1
            /\ frame'[filled'[i]] \in 1 .. captured
        BY <2>2, <2>3, <3>1, <3>3
      <4>2. captured \in Nat
        BY <1>1
      <4> QED
        BY <4>1, <4>2
    <3> QED
      BY <2>4, <3>2, <3>3
  <2>7. /\ shown <= frame[curr] /\ frame[curr] <= captured /\ captured' = captured + 1
        /\ next # None => frame[next] \in 1 .. captured /\ frame[next] > frame[curr]
    BY <1>a, <1>b DEF NewerUpstream
  <2>8. /\ shown' <= frame'[curr'] /\ frame'[curr'] <= captured'
        /\ next' # None =>
             frame'[next'] \in 1 .. captured' /\ frame'[next'] > frame'[curr']
    BY <1>c, <1>1, <2>1, <2>7
  <2>9. next' = next /\ curr' = curr
    BY <1>c
  <2> QED
    BY <2>5, <2>6, <2>8, <2>9 DEF NewerUpstream
<1>13. ReturnedBehind'
  <2> SUFFICES ASSUME scanout # curr
               PROVE  /\ \A i \in 1 .. Len(queued') :
                           queued'[i] = scanout => i + (lag + 1) >= n - 1
                      /\ (\A i \in 1 .. Len(queued') : queued'[i] # scanout)
                           => lag + 1 >= n - 1
    BY <1>b, <1>c DEF ReturnedBehind
  <2>1. /\ \A i \in 1 .. Len(queued) : queued[i] = scanout => i + lag >= n - 1
        /\ (\A i \in 1 .. Len(queued) : queued[i] # scanout) => lag >= n - 1
    BY <1>a, <1>b DEF ReturnedBehind
  <2>2. \A i \in 1 .. Len(queued') :
          i + 1 \in 1 .. Len(queued) /\ queued'[i] = queued[i + 1]
    BY <1>2
  <2>3. \A i \in 1 .. Len(queued') : queued'[i] = scanout => i + (lag + 1) >= n - 1
    <3> TAKE i \in 1 .. Len(queued')
    <3> HAVE queued'[i] = scanout
    <3>1. i + 1 \in 1 .. Len(queued) /\ queued[i + 1] = scanout
      BY <2>2
    <3>2. (i + 1) + lag >= n - 1
      BY <2>1, <3>1
    <3>3. i \in Int /\ lag \in Int /\ n \in Int
      BY <1>1
    <3> QED
      BY <3>2, <3>3
  <2>4. CASE b = scanout
    <3>1. 1 \in 1 .. Len(queued) /\ queued[1] = scanout
      BY <1>2, <2>4
    <3>2. 1 + lag >= n - 1
      BY <2>1, <3>1
    <3>3. lag + 1 >= n - 1
      BY <1>1, <3>2
    <3> QED
      BY <2>3, <3>3
  <2>5. CASE b # scanout
    <3>1. \A i \in 1 .. Len(queued) : i = 1 \/ i - 1 \in 1 .. Len(queued')
      BY <1>2
    <3>2. \A i \in 1 .. Len(queued) :
            i = 1 \/ queued[i] = queued'[i - 1]
      BY <1>2, <3>1
    <3>3. (\A i \in 1 .. Len(queued') : queued'[i] # scanout)
            => (\A i \in 1 .. Len(queued) : queued[i] # scanout)
      BY <1>2, <2>5, <3>1, <3>2
    <3> QED
      BY <1>1, <2>1, <2>3, <3>3
  <2> QED
    BY <2>4, <2>5
<1> QED
  BY <1>7, <1>8, <1>9, <1>10, <1>11, <1>12, <1>13 DEF IInv

(* The vertical blank shows the current buffer.                            *)
LEMMA VBlankIInv == IInv /\ VBlank => IInv'
<1> SUFFICES ASSUME IInv, VBlank PROVE IInv'
  OBVIOUS
<1> USE DEF IInv, VBlank, appVars, camVars
<1>1. flip = curr /\ curr \in Buffers /\ frame[curr] \in Nat
  BY DEF FlipsCurrent, TypeOK
<1>2. TypeOK'
  BY <1>1 DEF TypeOK
<1>3. Phases'
  BY <1>1 DEF Phases, Setup
<1>4. SingleOwner'
  BY DEF SingleOwner, Distinct, DriverOwns
<1>5. (NoDoubleQueue /\ NoBufferLost /\ EventMeansShown /\ FlipsCurrent)'
  BY <1>1 DEF NoDoubleQueue, NoBufferLost, EventMeansShown, FlipsCurrent
<1>6. NewerUpstream'
  BY <1>1 DEF NewerUpstream
<1>7. ReturnedBehind'
  BY <1>1 DEF ReturnedBehind
<1> QED
  BY <1>2, <1>3, <1>4, <1>5, <1>6, <1>7

(* Appending keeps a buffer that is not in the queue apart from the rest.  *)
LEMMA AppendMembers ==
  ASSUME NEW S, NEW s \in Seq(S), NEW e \in S
  PROVE  \A i \in 1 .. Len(Append(s, e)) :
           \/ Append(s, e)[i] = e
           \/ \E k \in 1 .. Len(s) : Append(s, e)[i] = s[k]
<1>1. \A i \in 1 .. Len(s) + 1 : i \in 1 .. Len(s) \/ i = Len(s) + 1
  OBVIOUS
<1> QED
  BY <1>1, AppendFacts

LEMMA TailMembers ==
  ASSUME NEW S, NEW s \in Seq(S), s # <<>>
  PROVE  \A i \in 1 .. Len(Tail(s)) :
           i + 1 \in 1 .. Len(s) /\ Tail(s)[i] = s[i + 1]
BY TailFacts

(* A captured buffer becomes the next one; the previous next one goes back.*)
LEMMA DequeueIInv == IInv /\ Dequeue => IInv'
<1> SUFFICES ASSUME IInv, Dequeue PROVE IInv'
  OBVIOUS
<1> DEFINE h == Head(filled)
<1>a. /\ TypeOK /\ Phases /\ SingleOwner /\ NoDoubleQueue /\ NoBufferLost
      /\ EventMeansShown /\ FlipsCurrent /\ NewerUpstream /\ ReturnedBehind
  BY DEF IInv
<1>b. /\ pc = "handle" /\ "v4l2" \in todo /\ filled # <<>>
      /\ next' = h /\ filled' = Tail(filled)
      /\ todo' = todo \ {"v4l2"}
      /\ pc' = IF "drm" \in todo THEN "handle" ELSE "check"
      /\ \/ next = None /\ queued' = queued
         \/ next # None /\ ~DriverOwns(next) /\ queued' = Append(queued, next)
  BY DEF Dequeue, Requeue
<1>c. UNCHANGED <<quit, n, curr, einval, freed, streaming, frame, captured,
                  scanout, flip, event, shown, lag>>
  BY DEF Dequeue, dispVars
<1>1. /\ queued \in Seq(Buffers) /\ filled \in Seq(Buffers)
      /\ next \in Buffers \cup {None}
      /\ Len(queued) \in Nat
  BY <1>a DEF TypeOK
<1>2. captured \in Nat /\ lag \in Nat /\ n \in Int /\ frame \in [Buffers -> Nat]
  BY <1>a, BufferAssumption DEF TypeOK
<1>3. /\ Len(filled) \in Nat /\ Len(filled) >= 1
      /\ h = filled[1] /\ h \in Buffers
      /\ filled' \in Seq(Buffers) /\ Len(filled') = Len(filled) - 1
  BY <1>b, <1>1, TailFacts
<1>4. \A i \in 1 .. Len(filled') :
        i + 1 \in 1 .. Len(filled) /\ filled'[i] = filled[i + 1]
  BY <1>b, <1>1, TailMembers
<1>5. 1 \in 1 .. Len(filled)
  BY <1>3
<1>6. h # None /\ next' = h
  BY <1>b, <1>3 DEF Buffers, None
<1>7. queued' \in Seq(Buffers) /\ Len(queued') \in Nat
      /\ Len(queued') = Len(queued) + (IF next = None THEN 0 ELSE 1)
  BY <1>b, <1>1, AppendFacts
<1>8. \A i \in 1 .. Len(queued') :
        \/ next # None /\ queued'[i] = next
        \/ \E k \in 1 .. Len(queued) : queued'[i] = queued[k]
  <2>1. CASE next = None
    BY <1>b, <2>1
  <2>2. CASE next # None
    <3>1. next \in Buffers /\ queued' = Append(queued, next)
      BY <1>b, <1>1, <2>2
    <3> QED
      BY <1>1, <2>2, <3>1, AppendMembers
  <2> QED
    BY <2>1, <2>2
<1>9. /\ ~DriverOwns(curr) /\ (next # None => ~DriverOwns(next))
      /\ next # curr
      /\ \A i \in 1 .. Len(queued), j \in 1 .. Len(filled) :
           queued[i] # filled[j]
      /\ Distinct(queued) /\ Distinct(filled)
  BY <1>a DEF SingleOwner
<1>10. Distinct(filled') /\ \A i \in 1 .. Len(filled') : filled'[i] # h
  BY <1>b, <1>1, <1>9, DistinctTail
<1> HIDE DEF h
<1>11. TypeOK'
  BY <1>a, <1>b, <1>c, <1>3, <1>6, <1>7 DEF TypeOK
<1>12. Phases'
  <2>1. todo' \subseteq {"drm"} /\ ("drm" \in todo' => pc' = "handle")
    BY <1>a, <1>b DEF TypeOK
  <2> QED
    BY <1>a, <1>b, <1>c, <2>1 DEF Phases, Setup
<1>13. SingleOwner'
  <2>1. Distinct(queued')
    <3>1. CASE next = None
      BY <1>b, <1>9, <3>1
    <3>2. CASE next # None
      <4>1. next \in Buffers /\ queued' = Append(queued, next)
            /\ \A i \in 1 .. Len(queued) : queued[i] # next
        BY <1>b, <1>1, <3>2 DEF DriverOwns
      <4> QED
        BY <1>1, <1>9, <4>1, DistinctAppend
    <3> QED
      BY <3>1, <3>2
  <2>2. \A i \in 1 .. Len(queued'), j \in 1 .. Len(filled') :
          queued'[i] # filled'[j]
    BY <1>4, <1>8, <1>9 DEF DriverOwns
  <2>3. ~DriverOwns(curr)'
    BY <1>c, <1>4, <1>8, <1>9 DEF DriverOwns
  <2>4. \A i \in 1 .. Len(queued') : queued'[i] # h
    BY <1>3, <1>5, <1>8, <1>9 DEF DriverOwns
  <2>5. ~DriverOwns(next)'
    BY <1>6, <1>10, <2>4 DEF DriverOwns
  <2>6. h # curr
    BY <1>3, <1>5, <1>9 DEF DriverOwns
  <2>7. next' # curr'
    BY <1>c, <1>6, <2>6
  <2> QED
    BY <1>10, <2>1, <2>2, <2>3, <2>5, <2>7 DEF SingleOwner
<1>14. NoBufferLost'
  <2>1. next' # None /\ n' = n /\ streaming' = streaming
    BY <1>c, <1>6
  <2>2. streaming => Len(queued) + Len(filled)
                       + (IF next = None THEN 0 ELSE 1) + 1 = n
    BY <1>a DEF NoBufferLost
  <2>3. /\ Len(queued) \in Nat /\ Len(filled) \in Nat /\ n \in Int
        /\ Len(filled') = Len(filled) - 1
        /\ Len(queued') = Len(queued) + (IF next = None THEN 0 ELSE 1)
    BY <1>1, <1>2, <1>3, <1>7
  <2> QED
    BY <2>1, <2>2, <2>3 DEF NoBufferLost
<1>15. (NoDoubleQueue /\ EventMeansShown /\ FlipsCurrent)'
  BY <1>a, <1>b, <1>c DEF NoDoubleQueue, EventMeansShown, FlipsCurrent
<1>16. NewerUpstream'
  <2>1. /\ shown <= frame[curr] /\ frame[curr] <= captured
        /\ \A i \in 1 .. Len(filled) :
             /\ frame[filled[i]] \in 1 .. captured
             /\ frame[filled[i]] > frame[curr]
             /\ \A j \in 1 .. Len(filled) :
                  i < j => frame[filled[i]] < frame[filled[j]]
    BY <1>a DEF NewerUpstream
  <2>2. /\ frame[h] \in 1 .. captured /\ frame[h] > frame[curr]
        /\ \A j \in 1 .. Len(filled) : 1 < j => frame[h] < frame[filled[j]]
    BY <1>3, <1>5, <2>1
  <2>3. \A i \in 1 .. Len(filled') :
          /\ frame[filled'[i]] \in 1 .. captured
          /\ frame[filled'[i]] > frame[curr]
    BY <1>4, <2>1
  <2>4. \A i \in 1 .. Len(filled') : frame[h] < frame[filled'[i]]
    BY <1>4, <2>2
  <2>5. \A i, j \in 1 .. Len(filled') :
          i < j => frame[filled'[i]] < frame[filled'[j]]
    <3> TAKE i, j \in 1 .. Len(filled')
    <3> HAVE i < j
    <3>1. i + 1 < j + 1
      OBVIOUS
    <3> QED
      BY <1>4, <2>1, <3>1
  <2>6. \A i \in 1 .. Len(filled') : frame[filled'[i]] > frame[h]
    <3>1. \A i \in 1 .. Len(filled') : frame[filled'[i]] \in Int
      BY <2>3
    <3>2. frame[h] \in Int
      BY <2>2
    <3> QED
      BY <2>4, <3>1, <3>2
  <2>7. UNCHANGED <<frame, curr, captured, shown>>
    BY <1>c
  <2> QED
    BY <1>6, <2>1, <2>2, <2>3, <2>5, <2>6, <2>7 DEF NewerUpstream
<1>17. ReturnedBehind'
  <2> SUFFICES ASSUME streaming, scanout # curr
               PROVE  /\ \A i \in 1 .. Len(queued') :
                           queued'[i] = scanout => i + lag >= n - 1
                      /\ (\A i \in 1 .. Len(queued') : queued'[i] # scanout)
                           => lag >= n - 1
    BY <1>c DEF ReturnedBehind
  <2>1. /\ \A i \in 1 .. Len(queued) : queued[i] = scanout => i + lag >= n - 1
        /\ (\A i \in 1 .. Len(queued) : queued[i] # scanout) => lag >= n - 1
    BY <1>a DEF ReturnedBehind
  <2>2. CASE next = None
    BY <1>b, <2>1, <2>2
  <2>3. CASE next # None /\ scanout = next
    <3>1. lag >= n - 1
      BY <1>9, <2>1, <2>3 DEF DriverOwns
    <3>2. \A i \in 1 .. Len(queued') : i + lag >= n - 1
      BY <1>2, <1>7, <3>1
    <3> QED
      BY <3>1, <3>2
  <2>4. CASE next # None /\ scanout # next
    <3>1. next \in Buffers /\ queued' = Append(queued, next)
      BY <1>b, <1>1, <2>4
    <3>2. /\ \A i \in 1 .. Len(queued) :
               i \in 1 .. Len(queued') /\ queued'[i] = queued[i]
          /\ \A i \in 1 .. Len(queued') :
               i \in 1 .. Len(queued) \/ queued'[i] = next
      BY <1>1, <3>1, AppendFacts
    <3> QED
      BY <2>1, <2>4, <3>2
  <2> QED
    BY <2>2, <2>3, <2>4
<1> QED
  BY <1>11, <1>12, <1>13, <1>14, <1>15, <1>16, <1>17 DEF IInv

(* The flip handler hands the current buffer back behind all others.       *)
LEMMA SwapIInv == IInv /\ PageFlipSwap => IInv'
<1> SUFFICES ASSUME IInv, PageFlipSwap PROVE IInv'
  OBVIOUS
<1>a. /\ TypeOK /\ Phases /\ SingleOwner /\ NoDoubleQueue /\ NoBufferLost
      /\ EventMeansShown /\ FlipsCurrent /\ NewerUpstream /\ ReturnedBehind
  BY DEF IInv
<1>b. /\ pc = "handle" /\ "drm" \in todo /\ next # None
      /\ ~event' /\ todo' = {} /\ pc' = "check" /\ event' = FALSE
      /\ ~DriverOwns(curr) /\ queued' = Append(queued, curr)
      /\ curr' = next /\ next' = None /\ lag' = Len(filled)
      /\ RequestFlip(curr')
  BY DEF PageFlipSwap, FlipHandled, Requeue
<1>c. UNCHANGED <<quit, n, einval, freed, filled, streaming, frame, captured,
                  scanout, shown>>
  BY DEF PageFlipSwap
<1>1. /\ queued \in Seq(Buffers) /\ filled \in Seq(Buffers)
      /\ n \in Int /\ curr \in Buffers /\ next \in Buffers
      /\ Len(queued) \in Nat /\ Len(filled) \in Nat
  BY <1>a, <1>b, BufferAssumption DEF TypeOK
<1>2. /\ queued' \in Seq(Buffers) /\ Len(queued') = Len(queued) + 1
      /\ \A i \in 1 .. Len(queued) : queued'[i] = queued[i]
      /\ queued'[Len(queued) + 1] = curr
  BY <1>b, <1>1, AppendFacts
<1>3. \A i \in 1 .. Len(queued') :
        queued'[i] = curr \/ \E k \in 1 .. Len(queued) : queued'[i] = queued[k]
  BY <1>b, <1>1, AppendMembers
<1>4. flip = None /\ scanout = curr
  BY <1>a, <1>b DEF EventMeansShown
<1>5. flip' \in {None, next}
  BY <1>b, <1>4 DEF RequestFlip
<1>6. TypeOK'
  BY <1>a, <1>b, <1>c, <1>1, <1>2, <1>5 DEF TypeOK
<1>7. Phases'
  BY <1>a, <1>b, <1>c DEF Phases, Setup
<1>8. SingleOwner'
  <2>1. /\ ~DriverOwns(next) /\ next # curr
        /\ \A i \in 1 .. Len(queued), j \in 1 .. Len(filled) :
             queued[i] # filled[j]
        /\ Distinct(queued) /\ Distinct(filled)
    BY <1>a, <1>b DEF SingleOwner
  <2>2. \A i \in 1 .. Len(queued) : queued[i] # curr
    BY <1>b DEF DriverOwns
  <2>3. Distinct(queued')
    BY <1>b, <1>1, <2>1, <2>2, DistinctAppend
  <2>4. filled' = filled
    BY <1>c
  <2>5. \A i \in 1 .. Len(queued'), j \in 1 .. Len(filled') :
          queued'[i] # filled'[j]
    BY <1>b, <1>3, <2>1, <2>4 DEF DriverOwns
  <2>6. ~DriverOwns(curr)'
    BY <1>b, <1>3, <2>1, <2>4 DEF DriverOwns
  <2>7. next' # curr' /\ next' = None
    BY <1>b
  <2> QED
    BY <2>1, <2>3, <2>4, <2>5, <2>6, <2>7 DEF SingleOwner
<1>9. (NoDoubleQueue /\ NoBufferLost)'
  BY <1>a, <1>b, <1>c, <1>1, <1>2 DEF NoDoubleQueue, NoBufferLost
<1>10. (EventMeansShown /\ FlipsCurrent)'
  BY <1>b, <1>5 DEF EventMeansShown, FlipsCurrent
<1>11. NewerUpstream'
  <2>1. /\ shown <= frame[curr] /\ shown \in Nat /\ frame[curr] \in Nat
        /\ frame[next] \in 1 .. captured /\ frame[next] > frame[curr]
        /\ captured \in Nat
    BY <1>a, <1>b, <1>1 DEF NewerUpstream, TypeOK
  <2>2. shown <= frame[next] /\ frame[next] <= captured
    BY <2>1
  <2>3. \A i \in 1 .. Len(filled) :
          /\ frame[filled[i]] \in 1 .. captured
          /\ frame[filled[i]] > frame[next]
          /\ \A j \in 1 .. Len(filled) :
               i < j => frame[filled[i]] < frame[filled[j]]
    BY <1>a, <1>b DEF NewerUpstream
  <2>4. /\ curr' = next /\ next' = None
        /\ UNCHANGED <<frame, filled, captured, shown>>
    BY <1>b, <1>c
  <2> QED
    BY <2>2, <2>3, <2>4 DEF NewerUpstream
<1>12. ReturnedBehind'
  <2>1. lag' = Len(filled) /\ UNCHANGED <<n, streaming, scanout>>
    BY <1>b, <1>c
  <2>2. \A i \in 1 .. Len(queued) : queued[i] # curr
    BY <1>b DEF DriverOwns
  <2>3. streaming => Len(queued) + 1 + lag' = n - 1
    BY <1>a, <1>b, <1>1, <2>1 DEF NoBufferLost
  <2>4. \A i \in 1 .. Len(queued') : queued'[i] = curr => i = Len(queued) + 1
    BY <1>1, <1>2, <2>2
  <2>5. Len(queued) + 1 \in 1 .. Len(queued')
    BY <1>1, <1>2
  <2> QED
    BY <1>1, <1>2, <1>4, <2>1, <2>3, <2>4, <2>5 DEF ReturnedBehind
<1> QED
  BY <1>6, <1>7, <1>8, <1>9, <1>10, <1>11, <1>12 DEF IInv

LEMMA RepeatIInv == IInv /\ PageFlipRepeat => IInv'
<1> SUFFICES ASSUME IInv, PageFlipRepeat PROVE IInv'
  OBVIOUS
<1> USE DEF IInv, PageFlipRepeat, FlipHandled, camVars
<1>1. flip' \in {None, curr} /\ curr \in Buffers
  BY DEF RequestFlip, EventMeansShown, TypeOK
<1>2. TypeOK'
  BY <1>1 DEF TypeOK
<1>3. Phases'
  BY DEF Phases, Setup
<1>4. SingleOwner'
  BY DEF SingleOwner, Distinct, DriverOwns
<1>5. (NoDoubleQueue /\ NoBufferLost /\ EventMeansShown /\ FlipsCurrent)'
  BY <1>1 DEF NoDoubleQueue, NoBufferLost, EventMeansShown, FlipsCurrent
<1>6. (NewerUpstream /\ ReturnedBehind)'
  BY DEF NewerUpstream, ReturnedBehind
<1> QED
  BY <1>2, <1>3, <1>4, <1>5, <1>6

-----------------------------------------------------------------------------
LEMMA NextIInv == IInv /\ [Next]_vars => IInv'
<1> SUFFICES ASSUME IInv, [Next]_vars PROVE IInv'
  OBVIOUS
<1>1. CASE Control
  BY <1>1, ControlIInv
<1>2. CASE UNCHANGED vars
  BY <1>2, StutterIInv
<1>3. CASE DrmSetup \/ V4l2Setup \/ StartCapturing \/ SetupFails
  BY <1>3, DrmSetupIInv, V4l2SetupIInv, StartCapturingIInv, SetupFailsIInv
<1>4. CASE Dequeue \/ PageFlipSwap \/ PageFlipRepeat
  BY <1>4, DequeueIInv, SwapIInv, RepeatIInv
<1>5. CASE DequeueQbufFails
  BY <1>5, RequeueFailsIInv DEF DequeueQbufFails
<1>6. CASE PageFlipQbufFails
  <2>1. curr # None
    BY DEF IInv, TypeOK, Buffers, None
  <2> QED
    BY <1>6, <2>1, RequeueFailsIInv DEF PageFlipQbufFails
<1>7. CASE StopCapturing \/ CloseCapture \/ Destroy
  BY <1>7, StopIInv, DestroyIInv
<1>8. CASE Capture \/ VBlank
  BY <1>8, CaptureIInv, VBlankIInv
<1> QED
  BY <1>1, <1>2, <1>3, <1>4, <1>5, <1>6, <1>7, <1>8
     DEF Next, App, User, Control, PollTimeout, PollStdin, PollError

(* The inductive invariant holds in every reachable state.                 *)
THEOREM Invariance == Spec => []IInv
<1> QED
  BY InitIInv, NextIInv, PTL DEF Spec

(* Every variable of the pipeline keeps its type: indices stay inside the  *)
(* buffer arrays of cam2display.c and v4l2_capture.c.                      *)
THEOREM TypeCorrect == Spec => []TypeOK
<1>1. IInv => TypeOK
  BY DEF IInv
<1> QED
  BY <1>1, Invariance, PTL

(* Every buffer has one owner, so no VIDIOC_QBUF of mainloop or of         *)
(* page_flip_handler is refused and ends the program without teardown.     *)
THEOREM OwnershipSafe == Spec => [](SingleOwner /\ NoDoubleQueue)
<1>1. IInv => SingleOwner /\ NoDoubleQueue
  BY DEF IInv
<1> QED
  BY <1>1, Invariance, PTL

(* No buffer leaks from the rotation while capturing.                      *)
THEOREM NothingLost == Spec => []NoBufferLost
<1>1. IInv => NoBufferLost
  BY DEF IInv
<1> QED
  BY <1>1, Invariance, PTL

(* At most one page flip is outstanding, and it is to the current buffer.  *)
THEOREM FlipDiscipline == Spec => [](OneFlipInFlight /\ FlipsCurrent)
<1>1. IInv => OneFlipInFlight /\ FlipsCurrent
  BY DEF IInv, EventMeansShown, OneFlipInFlight
<1> QED
  BY <1>1, Invariance, PTL

(* The chain of flips never breaks by itself: while no request is refused, *)
(* mainloop always waits for a flip that will come (page_flip_handler).    *)
THEOREM ChainUnbroken == Spec => []FlipChainAlive
<1>1. Init => FlipChainAlive
  BY DEF Init, FlipChainAlive
<1>2. IInv /\ FlipChainAlive /\ [Next]_vars => FlipChainAlive'
  <2> SUFFICES ASSUME IInv, FlipChainAlive, [Next]_vars PROVE FlipChainAlive'
    OBVIOUS
  <2> USE DEF FlipChainAlive
  <2>1. CASE DrmSetup
    BY <2>1 DEF DrmSetup, None
  <2>2. CASE PageFlipSwap
    <3>1. next \in Buffers /\ next # None /\ None \notin Buffers
      BY <2>2 DEF PageFlipSwap, IInv, TypeOK, Buffers, None
    <3>2. event /\ flip = None
      BY <2>2 DEF PageFlipSwap, FlipHandled, IInv, EventMeansShown
    <3>3. ~FlipMayFail => flip' = curr' /\ curr' = next
      BY <2>2, <3>2 DEF PageFlipSwap, RequestFlip
    <3> QED
      BY <3>1, <3>3
  <2>3. CASE PageFlipRepeat
    <3>1. curr \in Buffers /\ None \notin Buffers
      BY DEF IInv, TypeOK, Buffers, None
    <3>2. event /\ flip = None
      BY <2>3 DEF PageFlipRepeat, FlipHandled, IInv, EventMeansShown
    <3>3. ~FlipMayFail => flip' = curr
      BY <2>3, <3>2 DEF PageFlipRepeat, RequestFlip
    <3> QED
      BY <3>1, <3>3
  <2>4. CASE VBlank
    BY <2>4 DEF VBlank
  <2>5. CASE V4l2Setup \/ StartCapturing \/ SetupFails \/ Capture
    BY <2>5 DEF V4l2Setup, StartCapturing, SetupFails, DrmSetupFails, V4l2SetupFails,
                StartFails, Fails, Capture, Abort, dispVars, appVars
  <2>6. CASE Dequeue \/ DequeueQbufFails \/ PageFlipQbufFails
    BY <2>6 DEF Dequeue, DequeueQbufFails, PageFlipQbufFails, RequeueFails, Abort, dispVars
  <2>7. CASE StopCapturing \/ CloseCapture \/ Destroy
    BY <2>7 DEF StopCapturing, CloseCapture, Destroy, Abort, dispVars
  <2>8. CASE Control \/ UNCHANGED vars
    BY <2>8 DEF Control, CheckQuit, PollReady, PollInterrupted, PollEnds, DequeueFails,
                Signal, dispVars, appVars, vars, Abort
  <2> QED
    BY <2>1, <2>2, <2>3, <2>4, <2>5, <2>6, <2>7, <2>8
       DEF Next, App, User, Control, PollTimeout, PollStdin, PollError
<1> QED
  BY <1>1, <1>2, Invariance, PTL DEF Spec

(* The buffers are released only after the camera has let go of them.      *)
THEOREM DmaEndsBeforeFree == Spec => []NoDmaAfterFree
<1>1. IInv => NoDmaAfterFree
  BY DEF IInv, Phases, NoDmaAfterFree
<1> QED
  BY <1>1, Invariance, PTL

(* The camera can reach the buffer on the screen only with a lead of n - 2 *)
(* frames over the display: what README.md may claim about tearing.        *)
THEOREM TearingBound == Spec => []TearingNeedsLag
<1>1. IInv => TearingNeedsLag
  <2> SUFFICES ASSUME IInv, Tearing PROVE lag >= n - 2
    BY DEF TearingNeedsLag
  <2>1. queued \in Seq(Buffers) /\ lag \in Nat /\ n \in Int
    BY BufferAssumption DEF IInv, TypeOK
  <2>2. Len(queued) \in Nat /\ Len(queued) >= 1 /\ queued[1] = scanout
    BY <2>1, TailFacts DEF Tearing
  <2>3. scanout # curr
    BY <2>2 DEF IInv, SingleOwner, DriverOwns
  <2>4. 1 + lag >= n - 1
    BY <2>2, <2>3 DEF IInv, ReturnedBehind, Tearing
  <2> QED
    BY <2>1, <2>4
<1> QED
  BY <1>1, Invariance, PTL

-----------------------------------------------------------------------------
(* Refinement of LatestFrame.                                              *)
LEMMA InitRefines == Init => LF!Init
BY BufferAssumption DEF Init, LF!Init, Waiting, Buffers

LEMMA StepRefines == IInv /\ IInv' /\ [Next]_vars => [LF!Next]_(LF!vars)
<1> SUFFICES ASSUME IInv, [Next]_vars PROVE [LF!Next]_(LF!vars)
  OBVIOUS
<1>1. /\ queued \in Seq(Buffers) /\ filled \in Seq(Buffers)
      /\ frame \in [Buffers -> Nat] /\ captured \in Nat
      /\ curr \in Buffers /\ next \in Buffers \cup {None}
  BY DEF IInv, TypeOK
<1>2. CASE Capture
  <2>1. /\ Head(queued) # curr
        /\ next # None => Head(queued) # next
    BY <1>1, <1>2, TailFacts DEF Capture, IInv, SingleOwner, DriverOwns
  <2>2. frame'[curr] = frame[curr] /\ Waiting' = Waiting
    BY <1>1, <1>2, <2>1 DEF Capture, appVars, Waiting
  <2>3. LF!Capture
    BY <1>2, <2>2 DEF LF!Capture, Capture, appVars, dispVars
  <2> QED
    BY <2>3 DEF LF!Next
<1>3. CASE Dequeue
  <2>1. /\ next' = filled[1] /\ filled[1] \in Buffers /\ Len(filled) >= 1
        /\ Len(filled) \in Nat
    BY <1>1, <1>3, TailFacts DEF Dequeue
  <2>2. Waiting' = frame[filled[1]]
    BY <1>3, <2>1 DEF Dequeue, Waiting, Buffers, None
  <2>3. /\ frame[filled[1]] \in 1 .. captured
        /\ frame[filled[1]] > frame[curr]
        /\ next # None => frame[filled[1]] > frame[next]
    BY <2>1 DEF IInv, NewerUpstream
  <2>4. frame[filled[1]] > Waiting
    BY <1>1, <2>3 DEF Waiting
  <2>5. LF!Offer
    BY <1>3, <2>2, <2>3, <2>4 DEF LF!Offer, Dequeue, dispVars
  <2> QED
    BY <2>5 DEF LF!Next
<1>4. CASE PageFlipSwap
  <2>1. frame[next] # 0 /\ next # None
    BY <1>1, <1>4 DEF PageFlipSwap, IInv, NewerUpstream
  <2>2. LF!Take
    BY <1>4, <2>1 DEF LF!Take, PageFlipSwap, FlipHandled, Waiting
  <2> QED
    BY <2>2 DEF LF!Next
<1>5. CASE VBlank
  <2>1. flip = curr
    BY <1>5 DEF VBlank, IInv, FlipsCurrent
  <2>2. LF!Show
    BY <1>5, <2>1 DEF LF!Show, VBlank, appVars, camVars, Waiting
  <2> QED
    BY <2>2 DEF LF!Next
<1>6. CASE UNCHANGED <<next, curr, frame, captured, shown>>
  BY <1>6 DEF LF!vars, Waiting
<1>7. ASSUME Abort
      PROVE  UNCHANGED <<next, curr, frame, captured, shown>>
  BY <1>7 DEF Abort
<1>8. CASE \/ DrmSetup \/ V4l2Setup \/ StartCapturing \/ SetupFails
           \/ DequeueQbufFails \/ PageFlipQbufFails \/ PageFlipRepeat
           \/ StopCapturing \/ CloseCapture \/ Destroy \/ Control
           \/ UNCHANGED vars
  <2>1. UNCHANGED <<next, curr, frame, captured, shown>>
    BY <1>7, <1>8
       DEF DrmSetup, V4l2Setup, StartCapturing, SetupFails, DrmSetupFails,
           V4l2SetupFails, StartFails, Fails, DequeueQbufFails,
           PageFlipQbufFails, RequeueFails, PageFlipRepeat, FlipHandled,
           StopCapturing, CloseCapture, Destroy, Control, CheckQuit,
           PollReady, PollInterrupted, PollEnds, DequeueFails, Signal, vars,
           appVars, camVars, dispVars
  <2> QED
    BY <2>1, <1>6
<1> QED
  BY <1>2, <1>3, <1>4, <1>5, <1>8
     DEF Next, App, User, Control, PollTimeout, PollStdin, PollError

(* The pipeline implements the register for the newest frame.              *)
THEOREM Refinement == Spec => ShowsLatestFrame
<1> QED
  BY InitRefines, StepRefines, Invariance, PTL
     DEF Spec, ShowsLatestFrame, LF!Spec

(* The screen never goes back to an older frame.                           *)
THEOREM NeverBackwards == Spec => FramesInOrder
<1>1. IInv /\ [Next]_vars => [shown' >= shown]_vars
  <2> SUFFICES ASSUME IInv, Next PROVE shown' >= shown
    OBVIOUS
  <2>1. shown \in Nat /\ shown <= frame[curr] /\ flip # None => flip = curr
    BY DEF IInv, TypeOK, NewerUpstream, FlipsCurrent
  <2>2. CASE VBlank
    BY <2>1, <2>2 DEF VBlank, IInv, TypeOK, NewerUpstream, FlipsCurrent
  <2>3. ASSUME Abort PROVE UNCHANGED shown
    BY <2>3 DEF Abort
  <2>4. CASE ~VBlank
    <3>1. UNCHANGED shown
      BY <2>3, <2>4
         DEF Next, App, User, DrmSetup, V4l2Setup, StartCapturing, SetupFails,
             DrmSetupFails, V4l2SetupFails, StartFails, Fails,
             DequeueQbufFails, PageFlipQbufFails, RequeueFails, PageFlipSwap,
             PageFlipRepeat, FlipHandled, Dequeue, StopCapturing,
             CloseCapture, Destroy, CheckQuit, PollReady, PollInterrupted,
             PollTimeout, PollStdin, PollError, PollEnds, DequeueFails,
             Signal, Capture, dispVars
    <3> QED
      BY <3>1, <2>1 DEF IInv, TypeOK
  <2> QED
    BY <2>2, <2>4
<1> QED
  BY <1>1, Invariance, PTL DEF Spec, FramesInOrder
=============================================================================
