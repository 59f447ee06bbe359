---------------------------- MODULE TriggerProofs ----------------------------
(***************************************************************************)
(* Theorems about Trigger, for every number of camera buffers and every    *)
(* number of frames to skip that is not smaller.                           *)
(***************************************************************************)
EXTENDS Trigger, TLAPS

----------------------------------------------------------------------------
(* Type correctness *)

LEMMA Constants ==
    /\ Bufs \in Nat \ {0} /\ Skip \in Nat /\ Skip >= Bufs /\ MaxSeconds \in Nat
    /\ MaxMotion \in Nat /\ MaxSeq \in Nat /\ QSize \in Nat \ {0} /\ Batch \in Nat \ {0}
    /\ MaxPosts \in Nat /\ MaxFaults \in Nat
  BY CameraAssumption, BoundAssumption, SizeAssumption DEF MaxSeq

LEMMA AppendTypes ==
    ASSUME NEW S, NEW seq \in Seq(S), NEW x \in S
    PROVE  Append(seq, x) \in Seq(S)
  OBVIOUS

\* An event is pushed, and the oldest one makes room for it if it must.
LEMMA InSeq ==
    ASSUME NEW S, NEW seq \in Seq(S), NEW i \in DOMAIN seq
    PROVE  seq[i] \in S
  OBVIOUS

LEMMA PushTypes ==
    ASSUME TypeOK, NEW kind \in Kind, NEW upd \in 0 .. MaxMotion, Push(kind, upd)
    PROVE  /\ buf' \in Seq(Numbers) /\ Len(buf') <= QSize /\ event_seq' \in Numbers
           /\ held' = held /\ lost' \subseteq Numbers
           /\ events' \in Seq([kind : Kind, upd : 0 .. MaxMotion]) /\ Len(events') = event_seq'
  <1> USE Constants
  <1>1. /\ buf \in Seq(Numbers) /\ Len(buf) <= QSize /\ Len(buf) \in Nat /\ event_seq \in Nat
        /\ events \in Seq([kind : Kind, upd : 0 .. MaxMotion]) /\ Len(events) = event_seq
        /\ lost \subseteq Numbers
    <2>1. event_seq \in Nat
      BY DEF TypeOK, Numbers
    <2> QED
      BY <2>1 DEF TypeOK
  <1>2. event_seq' = event_seq + 1 /\ event_seq + 1 \in Numbers /\ held' = held
    BY <1>1 DEF Push, Q!Push, Numbers
  <1>3. events' \in Seq([kind : Kind, upd : 0 .. MaxMotion]) /\ Len(events') = event_seq'
    <2>1. [kind |-> kind, upd |-> upd] \in [kind : Kind, upd : 0 .. MaxMotion]
      OBVIOUS
    <2>2. events' = Append(events, [kind |-> kind, upd |-> upd])
      BY DEF Push
    <2> QED
      BY <1>1, <1>2, <2>1, <2>2
  <1>4. CASE Len(buf) = QSize
    <2>1. Head(buf) \in Numbers /\ Tail(buf) \in Seq(Numbers) /\ Len(Tail(buf)) = Len(buf) - 1
      BY <1>1, <1>4
    <2>2. buf' = Append(Tail(buf), event_seq + 1) /\ lost' = lost \cup {Head(buf)}
      BY <1>4 DEF Push, Q!Push
    <2> QED
      BY <1>1, <1>2, <1>3, <1>4, <2>1, <2>2
  <1>5. CASE Len(buf) # QSize
    <2>1. buf' = Append(buf, event_seq + 1) /\ lost' = lost
      BY <1>5 DEF Push, Q!Push
    <2> QED
      BY <1>1, <1>2, <1>3, <1>5, <2>1
  <1> QED
    BY <1>4, <1>5

\* A failure is recorded.
LEMMA FailTypes ==
    ASSUME TypeOK, Fail
    PROVE  /\ faults' \in 0 .. MaxFaults /\ mpc' = "batch" /\ UNCHANGED batch
           /\ last' \in [ok : BOOLEAN, path : Second \cup {NoPath}]
  <1>1. faults' \in 0 .. MaxFaults
    BY Constants DEF Fail, Fault, TypeOK
  <1>2. [ok |-> FALSE, path |-> NoPath] \in [ok : BOOLEAN, path : Second \cup {NoPath}]
    OBVIOUS
  <1> QED
    BY <1>1, <1>2 DEF Fail

\* A buffer is given back to the camera.
LEMMA QueueTypes ==
    ASSUME TypeOK, QueueBuffer \/ UNCHANGED <<free, exposing>>, filled # <<>>, filled' = Tail(filled),
           UNCHANGED current
    PROVE  /\ free' \in 0 .. Bufs /\ exposing' \in Numbers
           /\ filled' \in Seq(Numbers) /\ Len(filled') + free' <= Bufs
  <1>1. /\ filled \in Seq(Numbers) /\ free \in Nat /\ Len(filled) + free <= Bufs
        /\ exposing \in Numbers /\ current \in Numbers
    BY Constants DEF TypeOK
  <1>2. Tail(filled) \in Seq(Numbers) /\ Len(filled') = Len(filled) - 1 /\ Len(filled) \in Nat \ {0}
    BY <1>1
  <1>3. exposing' \in Numbers /\ free' \in Nat /\ free' <= free + 1
    BY <1>1 DEF QueueBuffer
  <1> QED
    BY <1>1, <1>2, <1>3, Constants

\* What a conversion leaves on disk.
LEMMA WrittenFacts ==
    ASSUME TypeOK, NEW whole \in BOOLEAN
    PROVE  /\ Written(whole) \in [Second -> [trigger : Numbers, frame : Numbers, whole : BOOLEAN]]
           /\ Written(whole)[path].trigger = current /\ Written(whole)[path].frame = frame
           /\ Written(whole)[path].whole = whole
           /\ \A s \in Second : s # path => Written(whole)[s] = files[s]
  <1>1. /\ files \in [Second -> [trigger : Numbers, frame : Numbers, whole : BOOLEAN]]
        /\ path \in Second /\ current \in Numbers /\ frame \in Numbers
    BY DEF TypeOK
  <1>2. PICK new \in [trigger : Numbers, frame : Numbers, whole : BOOLEAN] :
           /\ new = [trigger |-> current, frame |-> frame, whole |-> whole]
           /\ new.trigger = current /\ new.frame = frame /\ new.whole = whole
    <2> DEFINE new == [trigger |-> current, frame |-> frame, whole |-> whole]
    <2>1. /\ new \in [trigger : Numbers, frame : Numbers, whole : BOOLEAN]
          /\ new.trigger = current /\ new.frame = frame /\ new.whole = whole
      BY <1>1
    <2> QED
      BY <2>1
  <1> QED
    BY <1>1, <1>2 DEF Written

LEMMA ConvertWrites ==
    ASSUME Convert
    PROVE  UNCHANGED files \/ \E whole \in BOOLEAN : files' = Written(whole)
  BY DEF Convert

\* The fields of the pictures and of the log are records of known kinds.
LEMMA TypeStep == ASSUME TypeOK, [Next]_vars PROVE TypeOK'
  <1> USE Constants
  <1>1. ASSUME NEW kind \in {"rise", "fall"}, PirEvent(kind)
        PROVE  TypeOK'
    <2>1. updates' \in 0 .. MaxMotion /\ updates' = updates + 1 /\ kind \in Kind
      BY <1>1 DEF PirEvent, TypeOK, Kind
    <2>2. Push(kind, updates')
      BY <1>1 DEF PirEvent
    <2>3. shown' \in 0 .. updates' /\ snap' \in 0 .. updates'
      BY <1>1, <2>1 DEF PirEvent, handling, TypeOK
    <2> QED
      BY <1>1, <2>1, <2>2, <2>3, PushTypes
         DEF PirEvent, TypeOK, control, pictures, handling, camera
  <1>2. CASE ToneEnds
    <2>1. Push("off", updates) /\ "off" \in Kind /\ updates \in 0 .. MaxMotion
      BY <1>2 DEF ToneEnds, Kind, TypeOK
    <2> QED
      BY <1>2, <2>1, PushTypes DEF ToneEnds, TypeOK, control, pictures, handling, camera
  <1>3. CASE Steal
    <2>1. Head(buf) \in Numbers /\ Tail(buf) \in Seq(Numbers) /\ Len(Tail(buf)) <= QSize
      BY <1>3 DEF Steal, TypeOK
    <2> QED
      BY <1>3, <2>1 DEF Steal, TypeOK, hub, control, pictures, handling, camera
  <1>4. CASE FrameReady
    <2>1. /\ filled' \in Seq(Numbers) /\ Len(filled') = Len(filled) + 1 /\ free' = free - 1
          /\ free \in 1 .. Bufs /\ Len(filled) \in Nat /\ exposing' \in Numbers
      BY <1>4 DEF FrameReady, TypeOK
    <2>2. free' \in 0 .. Bufs /\ Len(filled') + free' <= Bufs
      BY <2>1 DEF TypeOK
    <2> QED
      BY <1>4, <2>1, <2>2 DEF FrameReady, TypeOK, stream, hub, control, pictures, handling
  <1>5. ASSUME NEW m \in Mode, PostMode(m)
        PROVE  TypeOK'
    BY <1>5 DEF PostMode, TypeOK, stream, hub, pictures, handling, camera
  <1>6. CASE SwitchMode
    <2>1. active' \in Mode /\ mode' \in Mode /\ faults' \in 0 .. MaxFaults
      BY <1>6 DEF SwitchMode, TypeOK, Fault
    <2>2. /\ filled' \in Seq(Numbers) /\ free' \in 0 .. Bufs /\ Len(filled') + free' <= Bufs
          /\ exposing' \in Numbers
      BY <1>6 DEF SwitchMode, TypeOK
    <2> QED
      BY <1>6, <2>1, <2>2 DEF SwitchMode, TypeOK, stream, hub, pictures, handling
  <1>r. ASSUME RefreshStatus, UNCHANGED updates
        PROVE  shown' \in 0 .. updates' /\ faults' \in 0 .. MaxFaults
    BY <1>r DEF RefreshStatus, Fault, TypeOK
  <1>7. CASE StatusPass \/ PlainPass
    <2>1. shown' \in 0 .. updates' /\ faults' \in 0 .. MaxFaults
      BY <1>7, <1>r DEF StatusPass, PlainPass, Pass, hub, TypeOK
    <2> QED
      BY <1>7, <2>1 DEF StatusPass, PlainPass, Pass, TypeOK, stream, hub, control, pictures, handling,
                        camera
  <1>8. CASE Poll
    BY <1>8 DEF Poll, Go, TypeOK, stream, hub, control, pictures, handling, camera
  <1>9. CASE ReadEvent
    <2>1. CASE Q!Take(Main) /\ UNCHANGED batch
      <3>1. buf # <<>> /\ Head(buf) \in Numbers /\ Tail(buf) \in Seq(Numbers) /\ Len(Tail(buf)) <= QSize
        BY <2>1 DEF Q!Take, TypeOK
      <3>2. held' \in [{Main} -> Numbers] /\ buf' = Tail(buf) /\ event_seq' = event_seq
        BY <2>1, <3>1 DEF Q!Take, TypeOK
      <3> QED
        BY <1>9, <2>1, <3>1, <3>2 DEF ReadEvent, TypeOK, hub, control, pictures, handling, camera
    <2>2. CASE Q!Dispose(Main) /\ batch' = Append(batch, held[Main])
      <3>1. held' \in [{Main} -> Numbers] /\ buf' = buf /\ event_seq' = event_seq
        BY <2>2 DEF Q!Dispose, TypeOK, Numbers
      <3>2. batch' \in Seq(Numbers) /\ Len(batch') = Len(batch) + 1 /\ Len(batch) \in Nat
        BY <2>2 DEF TypeOK
      <3>3. Len(batch') <= Batch
        BY <1>9, <3>2 DEF ReadEvent
      <3> QED
        BY <1>9, <3>1, <3>2, <3>3 DEF ReadEvent, TypeOK, hub, control, pictures, handling, camera
    <2> QED
      BY <1>9, <2>1, <2>2 DEF ReadEvent
  <1>10. CASE ReadReturns
    <2>1. shown' \in 0 .. updates' /\ faults' \in 0 .. MaxFaults
      BY <1>10, <1>r DEF ReadReturns, hub
    <2> QED
      BY <1>10, <2>1 DEF ReadReturns, Go, TypeOK, stream, hub, control, pictures, handling, camera
  <1>11. CASE NextEvent
    <2>1. /\ batch' \in Seq(Numbers) /\ Len(batch') <= Batch /\ current' \in Numbers
          /\ handled' \in Seq(Numbers) /\ mpc' \in {"loop", "batch", "alert"}
      <3>1. CASE batch = <<>>
        BY <1>11, <3>1 DEF NextEvent, TypeOK
      <3>2. CASE batch # <<>>
        <4>1. Tail(batch) \in Seq(Numbers) /\ Head(batch) \in Numbers /\ Len(Tail(batch)) <= Batch
          BY <3>2 DEF TypeOK
        <4>2. Append(handled, Head(batch)) \in Seq(Numbers)
          BY <4>1 DEF TypeOK
        <4> QED
          BY <1>11, <3>2, <4>1, <4>2 DEF NextEvent, TypeOK
      <3> QED
        BY <3>1, <3>2
    <2>2. path' \in Second /\ frame' \in Numbers /\ seen' \in 0 .. Skip /\ snap' \in 0 .. updates
      BY <1>11 DEF NextEvent, Second, Numbers, TypeOK
    <2> QED
      BY <1>11, <2>1, <2>2 DEF NextEvent, TypeOK, stream, hub, control
  <1>12. CASE Alert
    <2>1. CASE tone' = TRUE /\ Push("alert", updates) /\ UNCHANGED faults
      <3>1. "alert" \in Kind /\ updates \in 0 .. MaxMotion
        BY DEF Kind, TypeOK
      <3> QED
        BY <1>12, <2>1, <3>1, PushTypes DEF Alert, Go, TypeOK, control, pictures, handling, camera
    <2>2. CASE Fault /\ UNCHANGED <<tone, stream>>
      BY <1>12, <2>2 DEF Alert, Go, Fault, TypeOK, stream, control, pictures, handling, camera
    <2> QED
      BY <1>12, <2>1, <2>2 DEF Alert
  <1>13. CASE Snapshot
    <2>1. CASE mpc' = "capture" /\ snap' = updates /\ ReadClock /\ shown' = updates
               /\ UNCHANGED <<faults, batch, last>>
      <3>1. second' \in Second /\ path' \in Second
        BY <2>1 DEF ReadClock, TypeOK, Second
      <3> QED
        BY <1>13, <2>1, <3>1 DEF Snapshot, TypeOK, stream, hub, control, camera
    <2>2. CASE Fail /\ UNCHANGED <<snap, path, second, shown>>
      BY <1>13, <2>2, FailTypes DEF Snapshot, TypeOK, stream, hub, control, camera
    <2> QED
      BY <1>13, <2>1, <2>2 DEF Snapshot
  <1>14. CASE SkipFrame
    <2>1. seen' \in 0 .. Skip
      BY <1>14 DEF SkipFrame, EnoughSkipped, TypeOK
    <2>2. /\ free' \in 0 .. Bufs /\ exposing' \in Numbers
          /\ filled' \in Seq(Numbers) /\ Len(filled') + free' <= Bufs
      BY <1>14, QueueTypes DEF SkipFrame, handling
    <2>3. /\ faults' \in 0 .. MaxFaults /\ mpc' \in {mpc, "batch"} /\ UNCHANGED batch
          /\ last' \in [ok : BOOLEAN, path : Second \cup {NoPath}]
      BY <1>14, FailTypes DEF SkipFrame, TypeOK
    <2> QED
      BY <1>14, <2>1, <2>2, <2>3 DEF SkipFrame, TypeOK, stream, hub, control, handling
  <1>15. CASE SaveFrame
    <2>1. Head(filled) \in Numbers
      BY <1>15 DEF SaveFrame, TypeOK
    <2>2. /\ free' \in 0 .. Bufs /\ exposing' \in Numbers
          /\ filled' \in Seq(Numbers) /\ Len(filled') + free' <= Bufs
      BY <1>15, QueueTypes DEF SaveFrame, handling
    <2>3. /\ faults' \in 0 .. MaxFaults /\ mpc' \in {"convert", "batch"} /\ UNCHANGED batch
          /\ last' \in [ok : BOOLEAN, path : Second \cup {NoPath}] /\ frame' \in Numbers
      BY <1>15, <2>1, FailTypes DEF SaveFrame, TypeOK
    <2> QED
      BY <1>15, <2>2, <2>3 DEF SaveFrame, TypeOK, stream, hub, control, handling
  <1>16. CASE CaptureFails
    BY <1>16, FailTypes DEF CaptureFails, TypeOK, stream, hub, control, handling, camera
  <1>17. CASE Convert
    <2>2. files' \in [Second -> [trigger : Numbers, frame : Numbers, whole : BOOLEAN]]
      <3>1. CASE UNCHANGED files
        BY <3>1 DEF TypeOK
      <3>2. ASSUME NEW whole \in BOOLEAN, files' = Written(whole)
            PROVE  files' \in [Second -> [trigger : Numbers, frame : Numbers, whole : BOOLEAN]]
        BY <3>2, WrittenFacts
      <3> QED
        BY <1>17, <3>1, <3>2, ConvertWrites
    <2>3. /\ faults' \in 0 .. MaxFaults /\ mpc' \in {"log", "batch"} /\ UNCHANGED batch
          /\ last' \in [ok : BOOLEAN, path : Second \cup {NoPath}]
      BY <1>17, FailTypes DEF Convert, TypeOK
    <2> QED
      BY <1>17, <2>2, <2>3 DEF Convert, TypeOK, stream, hub, control, handling, camera
  <1>18. CASE Record
    <2>1. last' \in [ok : BOOLEAN, path : Second \cup {NoPath}] /\ faults' \in 0 .. MaxFaults
      BY <1>18 DEF Record, Fault, TypeOK
    <2>2. log' \in Seq([trigger : Numbers, snap : 0 .. MaxMotion, img : Second])
      <3>1. [trigger |-> current, snap |-> snap, img |-> path]
               \in [trigger : Numbers, snap : 0 .. MaxMotion, img : Second]
        BY DEF TypeOK
      <3>2. log \in Seq([trigger : Numbers, snap : 0 .. MaxMotion, img : Second])
        BY DEF TypeOK
      <3>3. PICK r \in [trigger : Numbers, snap : 0 .. MaxMotion, img : Second] :
               log' = Append(log, r) \/ log' = log
        <4>1. \/ log' = Append(log, [trigger |-> current, snap |-> snap, img |-> path])
              \/ log' = log
          BY <1>18 DEF Record
        <4> QED
          BY <3>1, <4>1
      <3>4. Append(log, r) \in Seq([trigger : Numbers, snap : 0 .. MaxMotion, img : Second])
        BY <3>2, <3>3, AppendTypes
      <3> QED
        BY <3>2, <3>3, <3>4
    <2> QED
      BY <1>18, <2>1, <2>2 DEF Record, Go, TypeOK, stream, hub, control, handling, camera
  <1>19. CASE UNCHANGED vars
    BY <1>19 DEF vars, TypeOK, stream, hub, control, pictures, handling, camera
  <1> QED
    BY <1>1, <1>2, <1>3, <1>4, <1>5, <1>6, <1>7, <1>8, <1>9, <1>10, <1>11, <1>12, <1>13, <1>14,
       <1>15, <1>16, <1>17, <1>18, <1>19 DEF Next, MainStep, HandleStep

\* Every variable keeps its type: a batch never has more events than main's array
\* has room for, and the camera never more buffers than it was given.
THEOREM TypeCorrect == Spec => []TypeOK
  <1>1. Init => TypeOK
    <2> SUFFICES ASSUME Init PROVE TypeOK
      OBVIOUS
    <2> USE Constants DEF Init, Q!Init
    <2>1. files \in [Second -> [trigger : Numbers, frame : Numbers, whole : BOOLEAN]]
      BY DEF NoFile, Numbers
    <2>2. held \in [{Main} -> Numbers] /\ event_seq \in Numbers /\ 0 \in Numbers /\ 0 \in Second
      BY DEF Numbers, Second
    <2>3. last \in [ok : BOOLEAN, path : Second \cup {NoPath}]
      OBVIOUS
    <2>4. /\ buf = <<>> /\ events = <<>> /\ batch = <<>> /\ filled = <<>> /\ log = <<>>
          /\ handled = <<>> /\ event_seq = 0
      OBVIOUS
    <2>5. /\ <<>> \in Seq(Numbers) /\ <<>> \in Seq([kind : Kind, upd : 0 .. MaxMotion])
          /\ <<>> \in Seq([trigger : Numbers, snap : 0 .. MaxMotion, img : Second]) /\ Len(<<>>) = 0
      OBVIOUS
    <2> QED
      BY <2>1, <2>2, <2>3, <2>4, <2>5 DEF TypeOK
  <1>2. TypeOK /\ [Next]_vars => TypeOK'
    BY TypeStep
  <1> QED
    BY <1>1, <1>2, PTL DEF Spec

----------------------------------------------------------------------------
(* The pictures *)

\* handle_trigger is between its call and the frame it saves.
Taking == mpc \in {"alert", "snapshot", "capture"}

BuffersBounded == Len(filled) + free <= Bufs

NoneSeen == mpc \in {"alert", "snapshot"} => seen = 0

\* Counted from the call, only the first Bufs frames can be older than it.
LateFramesAreFresh ==
    Taking => \A i \in 1 .. Len(filled) : seen + i > Bufs => filled[i] = current

\* The same for the frame that is being exposed and comes after those.
ExposureIsFresh ==
    Taking /\ free > 0 /\ seen + Len(filled) + 1 > Bufs => exposing = current

FrameIsFresh == mpc = "convert" => frame = current

CameraInv ==
    /\ BuffersBounded /\ NoneSeen /\ LateFramesAreFresh /\ ExposureIsFresh /\ FrameIsFresh
    /\ PicturesAreFresh

\* Init establishes the invariant.
LEMMA InitOK == Init => CameraInv
  <1> SUFFICES ASSUME Init PROVE CameraInv
    OBVIOUS
  <1> USE Constants DEF Init, Q!Init
  <1>2. BuffersBounded /\ NoneSeen /\ LateFramesAreFresh /\ ExposureIsFresh /\ FrameIsFresh
    BY DEF BuffersBounded, NoneSeen, LateFramesAreFresh, ExposureIsFresh, FrameIsFresh, Taking
  <1>3. PicturesAreFresh
    BY DEF PicturesAreFresh, NoFile
  <1> QED
    BY <1>2, <1>3 DEF CameraInv

\* Every step keeps the frames of a capture in order of age: those that are
\* older than the trigger are among the first Bufs.
LEMMA CameraStep == ASSUME TypeOK, CameraInv, [Next]_vars PROVE CameraInv'
  <1> USE Constants
  <1>t. TypeOK /\ TypeOK'
    BY TypeStep
  <1> DEFINE Rest == BuffersBounded /\ NoneSeen /\ LateFramesAreFresh /\ ExposureIsFresh
                     /\ FrameIsFresh /\ PicturesAreFresh
  <1>0. Rest
    BY DEF CameraInv
  <1> SUFFICES Rest'
    BY DEF CameraInv
  <1>n. /\ filled \in Seq(Numbers) /\ free \in Nat /\ seen \in Nat /\ Len(filled) \in Nat
        /\ filled' \in Seq(Numbers) /\ Len(filled') \in Nat
    <2>1. filled \in Seq(Numbers) /\ free \in Nat /\ seen \in Nat
      BY <1>t DEF TypeOK
    <2>2. filled' \in Seq(Numbers)
      BY <1>t DEF TypeOK
    <2> QED
      BY <2>1, <2>2
  <1> USE DEF BuffersBounded, NoneSeen, LateFramesAreFresh, ExposureIsFresh, FrameIsFresh,
              PicturesAreFresh, Taking
  <1>s. ASSUME UNCHANGED <<mpc, pictures, handling, camera>>
        PROVE  Rest'
    <2>1. UNCHANGED <<mpc, files, frame, current, seen, free, exposing, filled>>
      BY <1>s DEF pictures, handling, camera
    <2> QED
      BY <1>0, <2>1
  <1>l. ASSUME mpc' \notin {"alert", "snapshot", "capture", "convert"},
               BuffersBounded', UNCHANGED files
        PROVE  Rest'
    BY <1>0, <1>l
  <1>1. CASE \E kind \in {"rise", "fall"} : PirEvent(kind)
    BY <1>1, <1>s DEF PirEvent
  <1>2. CASE ToneEnds
    BY <1>2, <1>s DEF ToneEnds
  <1>3. CASE Steal
    BY <1>3, <1>s DEF Steal
  <1>5. CASE \E m \in Mode : PostMode(m)
    BY <1>5, <1>s DEF PostMode
  <1>9. CASE ReadEvent
    BY <1>9, <1>s DEF ReadEvent
  <1>19. CASE UNCHANGED vars
    BY <1>19, <1>s DEF vars
  <1>4. CASE FrameReady
    <2> USE <1>4, <1>0, <1>n DEF FrameReady
    <2>1. Len(filled') = Len(filled) + 1 /\ free > 0 /\ free' = free - 1
      OBVIOUS
    <2>2. UNCHANGED <<mpc, seen, current, frame, files>>
      BY DEF handling, pictures
    <2>3. LateFramesAreFresh'
      <3> SUFFICES ASSUME Taking, NEW i \in 1 .. Len(filled) + 1, seen + i > Bufs
                   PROVE  Append(filled, exposing)[i] = current
        BY <2>1, <2>2
      <3> QED
        BY <2>1
    <2> QED
      BY <2>1, <2>2, <2>3
  <1>6. CASE SwitchMode
    <2>1. BuffersBounded'
      BY <1>6 DEF SwitchMode
    <2>2. UNCHANGED <<mpc, files>> /\ mpc = "loop"
      BY <1>6 DEF SwitchMode, pictures
    <2> QED
      BY <1>l, <2>1, <2>2
  <1>7. CASE StatusPass \/ PlainPass
    BY <1>7, <1>0, <1>l DEF StatusPass, PlainPass, Pass, pictures, camera
  <1>8. CASE Poll
    BY <1>8, <1>0, <1>l DEF Poll, Go, pictures, camera
  <1>10. CASE ReadReturns
    BY <1>10, <1>0, <1>l DEF ReadReturns, Go, pictures, camera
  <1>11. CASE NextEvent
    <2>1. UNCHANGED <<free, filled, exposing, files>> /\ seen' = 0
      BY <1>11 DEF NextEvent
    <2>2. mpc' \in {"loop", "alert", "batch"}
      BY <1>11 DEF NextEvent
    <2> QED
      BY <1>0, <1>n, <2>1, <2>2
  <1>18. CASE Record
    BY <1>18, <1>0, <1>l DEF Record, Go, camera
  <1>16. CASE CaptureFails
    BY <1>16, <1>0, <1>l DEF CaptureFails, Fail, camera
  <1>12. CASE Alert
    BY <1>12, <1>0 DEF Alert, Go, pictures, handling, camera
  <1>13. CASE Snapshot
    BY <1>13, <1>0 DEF Snapshot, Fail, camera
  <1>14. CASE SkipFrame
    <2>1. /\ mpc = "capture" /\ filled # <<>> /\ filled' = Tail(filled)
          /\ seen' = seen + 1 /\ UNCHANGED <<current, frame, files>>
      BY <1>14 DEF SkipFrame, handling
    <2>2. Len(filled') = Len(filled) - 1 /\ \A i \in 1 .. Len(filled') : filled'[i] = filled[i + 1]
      BY <1>n, <2>1
    <2>3. CASE QueueBuffer /\ mpc' = mpc
      <3>1. LateFramesAreFresh'
        BY <1>0, <1>n, <2>1, <2>2, <2>3
      <3>2. ExposureIsFresh' /\ BuffersBounded'
        BY <1>0, <1>n, <2>1, <2>2, <2>3 DEF QueueBuffer
      <3> QED
        BY <1>0, <2>1, <2>3, <3>1, <3>2
    <2>4. CASE Fail /\ UNCHANGED <<free, exposing>>
      BY <1>0, <1>n, <1>l, <2>1, <2>2, <2>4 DEF Fail
    <2> QED
      BY <1>14, <2>3, <2>4 DEF SkipFrame
  <1>15. CASE SaveFrame
    <2>1. /\ mpc = "capture" /\ filled # <<>> /\ filled' = Tail(filled) /\ seen >= Bufs
          /\ UNCHANGED <<current, files>>
      BY <1>15, <1>n DEF SaveFrame, EnoughSkipped, handling
    <2>2. Len(filled') = Len(filled) - 1 /\ Len(filled) > 0
      BY <1>n, <2>1
    <2>3. Head(filled) = current
      BY <1>0, <1>n, <2>1, <2>2
    <2>4. BuffersBounded'
      <3>1. free' \in Nat /\ free' <= free + 1
        BY <1>15, <1>n DEF SaveFrame, QueueBuffer
      <3> QED
        BY <1>0, <1>n, <2>2, <3>1
    <2>5. CASE frame' = Head(filled) /\ mpc' = "convert"
      BY <1>0, <2>1, <2>3, <2>4, <2>5
    <2>6. CASE Fail
      BY <1>l, <2>1, <2>4, <2>6 DEF Fail
    <2> QED
      BY <1>15, <2>5, <2>6 DEF SaveFrame
  <1>17. CASE Convert
    <2>1. BuffersBounded' /\ mpc = "convert" /\ UNCHANGED current
      BY <1>17, <1>0 DEF Convert, camera, handling
    <2>2. mpc' \in {"log", "batch"}
      BY <1>17 DEF Convert, Fail
    <2>3. PicturesAreFresh'
      <3>1. CASE UNCHANGED files
        BY <1>0, <3>1
      <3>2. ASSUME NEW whole \in BOOLEAN, files' = Written(whole)
            PROVE  PicturesAreFresh'
        <4>1. frame = current
          BY <1>0, <2>1 DEF FrameIsFresh
        <4>2. \A s \in Second :
                 \/ files'[s] = files[s]
                 \/ files'[s].frame = frame /\ files'[s].trigger = current
          BY <1>t, <3>2, WrittenFacts
        <4> QED
          BY <1>0, <4>1, <4>2 DEF PicturesAreFresh
      <3> QED
        BY <1>17, <3>1, <3>2, ConvertWrites
    <2> QED
      BY <2>1, <2>2, <2>3
  <1> QED
    BY <1>1, <1>2, <1>3, <1>4, <1>5, <1>6, <1>7, <1>8, <1>9, <1>10, <1>11, <1>12, <1>13,
       <1>14, <1>15, <1>16, <1>17, <1>18, <1>19 DEF Next, MainStep, HandleStep

\* A picture saved for an event was exposed after handle_trigger took it up, with
\* any number of buffers, as long as camera_capture_one skips as many frames.
THEOREM FreshCorrect == Spec => []PicturesAreFresh
  <1>1. TypeOK /\ CameraInv /\ [Next]_vars => CameraInv'
    BY CameraStep
  <1>2. CameraInv => PicturesAreFresh
    BY DEF CameraInv
  <1> QED
    BY InitOK, <1>1, <1>2, TypeCorrect, PTL DEF Spec

----------------------------------------------------------------------------
(* The way of an event *)

Increasing(seq) == \A i, j \in DOMAIN seq : i < j => seq[i] < seq[j]
Ahead(S, T) == \A m \in S, n \in T : m < n

LEMMA AppendFacts ==
    ASSUME NEW S \in SUBSET Nat, NEW seq \in Seq(S), NEW x \in S
    PROVE  /\ Range(Append(seq, x)) = Range(seq) \cup {x}
           /\ Increasing(seq) /\ Ahead(Range(seq), {x}) => Increasing(Append(seq, x))
  <1>1. /\ Append(seq, x) \in Seq(S) /\ Len(Append(seq, x)) = Len(seq) + 1 /\ Len(seq) \in Nat
        /\ Append(seq, x)[Len(seq) + 1] = x
        /\ \A i \in 1 .. Len(seq) : Append(seq, x)[i] = seq[i]
    OBVIOUS
  <1>2. DOMAIN seq = 1 .. Len(seq) /\ DOMAIN Append(seq, x) = 1 .. Len(seq) + 1
    BY <1>1
  <1>3. PICK a : a = Append(seq, x)
    OBVIOUS
  <1>4. Range(a) = Range(seq) \cup {x}
    BY <1>1, <1>2, <1>3 DEF Range
  <1>5. ASSUME Increasing(seq), Ahead(Range(seq), {x})
        PROVE  Increasing(a)
    <2>1. \A i \in DOMAIN seq : seq[i] < x
      BY <1>5 DEF Ahead, Range
    <2> QED
      BY <1>1, <1>2, <1>3, <1>5, <2>1 DEF Increasing
  <1> QED
    BY <1>3, <1>4, <1>5

LEMMA TailFacts ==
    ASSUME NEW S \in SUBSET Nat, NEW seq \in Seq(S), seq # <<>>
    PROVE  /\ Range(seq) = {Head(seq)} \cup Range(Tail(seq))
           /\ Increasing(seq) => Increasing(Tail(seq)) /\ Ahead({Head(seq)}, Range(Tail(seq)))
           /\ Head(seq) \in S /\ Tail(seq) \in Seq(S)
  <1>1. /\ Tail(seq) \in Seq(S) /\ Len(Tail(seq)) = Len(seq) - 1 /\ Len(seq) \in Nat \ {0}
        /\ Head(seq) = seq[1] /\ Head(seq) \in S
        /\ \A i \in 1 .. Len(seq) - 1 : Tail(seq)[i] = seq[i + 1]
    OBVIOUS
  <1>2. DOMAIN seq = 1 .. Len(seq) /\ DOMAIN Tail(seq) = 1 .. Len(seq) - 1
    BY <1>1
  <1>3. PICK t : t = Tail(seq)
    OBVIOUS
  <1>4. Range(seq) = {seq[1]} \cup Range(t)
    <2>1. \A i \in DOMAIN seq : i = 1 \/ (i - 1 \in DOMAIN t /\ t[i - 1] = seq[i])
      BY <1>1, <1>2, <1>3
    <2>2. \A i \in DOMAIN t : i + 1 \in DOMAIN seq /\ seq[i + 1] = t[i]
      BY <1>1, <1>2, <1>3
    <2>3. 1 \in DOMAIN seq
      BY <1>1, <1>2
    <2> QED
      BY <2>1, <2>2, <2>3 DEF Range
  <1>5. ASSUME Increasing(seq)
        PROVE  Increasing(t) /\ Ahead({seq[1]}, Range(t))
    <2>1. \A i \in DOMAIN t : i + 1 \in DOMAIN seq /\ seq[i + 1] = t[i] /\ i \in Nat \ {0}
      BY <1>1, <1>2, <1>3
    <2>2. Increasing(t)
      BY <1>5, <2>1 DEF Increasing
    <2>3. \A i \in DOMAIN t : seq[1] < t[i]
      <3>1. 1 \in DOMAIN seq
        BY <1>1, <1>2
      <3>2. \A i \in DOMAIN t : seq[1] < seq[i + 1]
        BY <1>5, <2>1, <3>1 DEF Increasing
      <3> QED
        BY <2>1, <3>2
    <2> QED
      BY <2>2, <2>3 DEF Ahead, Range
  <1> QED
    BY <1>1, <1>3, <1>4, <1>5

\* The events that handle_trigger was called for, those in main's array, the one
\* in sh_read's hands, and those in the driver's queue: each set was pushed before
\* the next one.
Done == Range(handled)
InBatch == Range(batch)
InHand == {held[Main]} \ {0}
InBuf == Range(buf)

InOrder ==
    /\ Increasing(handled) /\ Increasing(batch) /\ Increasing(buf)
    /\ Ahead(Done \cup {current}, InBatch \cup InHand \cup InBuf)
    /\ Ahead(InBatch, InHand \cup InBuf)
    /\ Ahead(InHand, InBuf)

AllPushed ==
    /\ Done \cup InBatch \cup InHand \cup InBuf \subseteq 1 .. event_seq
    /\ current <= event_seq

NoneForgotten ==
    \A n \in 1 .. event_seq :
        events[n].kind = "rise" => n \in Done \cup InBatch \cup InHand \cup InBuf \cup lost

WayInv == InOrder /\ AllPushed /\ NoneForgotten

StaysPut == UNCHANGED <<buf, held, event_seq, events, lost, batch, current, handled>>

\* Few steps move an event.
LEMMA WaySteps ==
    ASSUME TypeOK, [Next]_vars
    PROVE  \/ /\ \E kind \in Kind : Push(kind, updates')
              /\ UNCHANGED <<batch, current, handled>>
           \/ Steal \/ ReadEvent \/ NextEvent
           \/ StaysPut
  <1> USE DEF stream, handling
  <1>1. ASSUME NEW kind \in {"rise", "fall"}, PirEvent(kind)
        PROVE  (\E k \in Kind : Push(k, updates')) /\ UNCHANGED <<batch, current, handled>>
    <2>1. kind \in Kind /\ Push(kind, updates') /\ UNCHANGED <<batch, current, handled>>
      BY <1>1 DEF PirEvent, Kind
    <2> QED
      BY <2>1
  <1>2. ASSUME ToneEnds
        PROVE  (\E k \in Kind : Push(k, updates')) /\ UNCHANGED <<batch, current, handled>>
    <2>1. "off" \in Kind /\ Push("off", updates') /\ UNCHANGED <<batch, current, handled>>
      BY <1>2 DEF ToneEnds, Kind
    <2> QED
      BY <2>1
  <1>3. ASSUME Alert
        PROVE  \/ (\E k \in Kind : Push(k, updates')) /\ UNCHANGED <<batch, current, handled>>
               \/ StaysPut
    <2>1. "alert" \in Kind /\ updates' = updates /\ UNCHANGED <<batch, current, handled>>
      BY <1>3 DEF Alert, Kind
    <2>2. Push("alert", updates) \/ UNCHANGED stream
      BY <1>3 DEF Alert
    <2> QED
      BY <2>1, <2>2 DEF StaysPut
  <1>4. ASSUME FrameReady \/ (\E m \in Mode : PostMode(m)) \/ SwitchMode \/ StatusPass \/ PlainPass
               \/ Poll \/ ReadReturns \/ Record \/ UNCHANGED vars
        PROVE  StaysPut
    BY <1>4 DEF FrameReady, PostMode, SwitchMode, StatusPass, PlainPass, Pass, Poll, ReadReturns,
                Record, vars, StaysPut
  <1>5. ASSUME Snapshot \/ SkipFrame \/ SaveFrame \/ CaptureFails \/ Convert
        PROVE  StaysPut
    BY <1>5 DEF Snapshot, SkipFrame, SaveFrame, CaptureFails, Convert, Fail, StaysPut
  <1> QED
    BY <1>1, <1>2, <1>3, <1>4, <1>5 DEF Next, MainStep, HandleStep

LEMMA WayStep == ASSUME TypeOK, WayInv, [Next]_vars PROVE WayInv'
  <1> USE Constants
  <1>t. /\ buf \in Seq(Numbers) /\ batch \in Seq(Numbers) /\ handled \in Seq(Numbers)
        /\ Len(events) = event_seq /\ events \in Seq([kind : Kind, upd : 0 .. MaxMotion])
        /\ held[Main] \in Numbers /\ Numbers \in SUBSET Nat
    BY DEF TypeOK, Numbers
  <1>e. event_seq \in Nat /\ current \in Nat
    BY DEF TypeOK, Numbers
  <1>i. InOrder /\ AllPushed /\ NoneForgotten
    BY DEF WayInv
  <1>1. ASSUME NEW kind \in Kind, Push(kind, updates'), UNCHANGED <<batch, current, handled>>
        PROVE  WayInv'
    <2>1. PICK kept \in Seq(Numbers) :
             /\ buf' = Append(kept, event_seq + 1)
             /\ Increasing(kept) /\ Range(kept) \subseteq InBuf
             /\ InBuf \subseteq Range(kept) \cup lost' /\ lost \subseteq lost'
      <3>1. CASE Len(buf) = QSize
        <4>1. buf # <<>>
          BY <1>t, <3>1
        <4>2. buf' = Append(Tail(buf), event_seq + 1) /\ lost' = lost \cup {Head(buf)}
          BY <1>1, <3>1 DEF Push, Q!Push
        <4>3. /\ InBuf = {Head(buf)} \cup Range(Tail(buf)) /\ Increasing(Tail(buf))
              /\ Tail(buf) \in Seq(Numbers)
          BY <1>i, <1>t, <4>1, TailFacts DEF InBuf, InOrder
        <4> QED
          BY <4>2, <4>3
      <3>2. CASE Len(buf) # QSize
        <4>1. buf' = Append(buf, event_seq + 1) /\ lost' = lost
          BY <1>1, <3>2 DEF Push, Q!Push
        <4> QED
          BY <1>i, <1>t, <4>1 DEF InBuf, InOrder
      <3> QED
        BY <3>1, <3>2
    <2>2. /\ event_seq' = event_seq + 1 /\ event_seq + 1 \in Numbers /\ held' = held
          /\ events' = Append(events, [kind |-> kind, upd |-> updates'])
      BY <1>1, <1>e DEF Push, Q!Push, Numbers
    <2>3. Ahead(Range(kept), {event_seq + 1})
      BY <1>e, <1>i, <2>1 DEF Ahead, AllPushed
    <2>4. Increasing(buf') /\ InBuf' = Range(kept) \cup {event_seq + 1}
      <3>1. PICK x \in Numbers : x = event_seq + 1
        BY <2>2
      <3>2. /\ Range(Append(kept, x)) = Range(kept) \cup {x}
            /\ Ahead(Range(kept), {x}) => Increasing(Append(kept, x))
        <4>1. Numbers \in SUBSET Nat /\ kept \in Seq(Numbers) /\ x \in Numbers /\ Increasing(kept)
          BY <1>t, <2>1
        <4>2. /\ Range(Append(kept, x)) = Range(kept) \cup {x}
              /\ Increasing(kept) /\ Ahead(Range(kept), {x}) => Increasing(Append(kept, x))
          BY <4>1, AppendFacts, Zenon
        <4> QED
          BY <4>1, <4>2
      <3> QED
        BY <2>1, <2>3, <3>1, <3>2 DEF InBuf
    <2>5. Done' = Done /\ InBatch' = InBatch /\ InHand' = InHand
      BY <1>1, <2>2 DEF Done, InBatch, InHand
    <2>6. \A n \in Done \cup {current} \cup InBatch \cup InHand \cup InBuf : n \in Nat /\ n < event_seq + 1
      BY <1>e, <1>i DEF AllPushed
    <2>7. InOrder'
      BY <1>1, <1>i, <2>1, <2>4, <2>5, <2>6 DEF InOrder, Ahead
    <2>8. AllPushed'
      BY <1>1, <1>e, <1>i, <2>1, <2>2, <2>4, <2>5 DEF AllPushed
    <2>9. NoneForgotten'
      <3> SUFFICES ASSUME NEW n \in 1 .. event_seq + 1, events'[n].kind = "rise"
                   PROVE  n \in Done \cup InBatch \cup InHand \cup Range(kept) \cup {event_seq + 1} \cup lost'
        BY <2>2, <2>4, <2>5 DEF NoneForgotten
      <3>1. CASE n = event_seq + 1
        BY <3>1
      <3>2. CASE n # event_seq + 1
        <4>1. n \in 1 .. event_seq
          BY <1>e, <3>2
        <4>2. events'[n] = events[n]
          <5>1. [kind |-> kind, upd |-> updates'] \in [kind : Kind, upd : {updates'}]
            OBVIOUS
          <5> QED
            BY <1>t, <2>2, <4>1
        <4> QED
          BY <1>i, <2>1, <4>1, <4>2 DEF NoneForgotten
      <3> QED
        BY <3>1, <3>2
    <2> QED
      BY <2>7, <2>8, <2>9 DEF WayInv
  <1>2. CASE Steal
    <2>1. /\ buf # <<>> /\ buf' = Tail(buf) /\ lost' = lost \cup {Head(buf)}
          /\ UNCHANGED <<event_seq, held, events, batch, current, handled>>
      BY <1>2 DEF Steal, handling
    <2>2. InBuf = {Head(buf)} \cup InBuf' /\ Increasing(buf')
      BY <1>i, <1>t, <2>1, TailFacts DEF InBuf, InOrder
    <2>3. Done' = Done /\ InBatch' = InBatch /\ InHand' = InHand
      BY <2>1 DEF Done, InBatch, InHand
    <2>4. InOrder'
      BY <1>i, <2>1, <2>2, <2>3 DEF InOrder, Ahead
    <2>5. AllPushed' /\ NoneForgotten'
      BY <1>i, <2>1, <2>2, <2>3 DEF AllPushed, NoneForgotten
    <2> QED
      BY <2>4, <2>5 DEF WayInv
  <1>3. CASE ReadEvent
    <2>1. UNCHANGED <<event_seq, events, lost, current, handled>> /\ Done' = Done
      BY <1>3 DEF ReadEvent, Q!Take, Q!Dispose, handling, Done
    <2>2. CASE Q!Take(Main) /\ UNCHANGED batch
      <3>1. buf # <<>> /\ buf' = Tail(buf) /\ held[Main] = 0 /\ held' = [held EXCEPT ![Main] = Head(buf)]
        BY <2>2 DEF Q!Take
      <3>2. /\ InBuf = {Head(buf)} \cup InBuf' /\ Increasing(buf') /\ Ahead({Head(buf)}, InBuf')
        BY <1>i, <1>t, <3>1, TailFacts DEF InBuf, InOrder
      <3>3. InHand = {} /\ InHand' \subseteq {Head(buf)} /\ InBatch' = InBatch
        BY <2>2, <3>1 DEF InHand, InBatch, TypeOK
      <3>4. InHand' = {Head(buf)}
        <4>1. held'[Main] = Head(buf)
          BY <3>1 DEF TypeOK
        <4>2. Head(buf) # 0
          BY <1>i, <3>2 DEF AllPushed
        <4> QED
          BY <4>1, <4>2 DEF InHand
      <3>5. InOrder'
        BY <1>i, <2>1, <2>2, <3>2, <3>3, <3>4 DEF InOrder, Ahead
      <3>6. AllPushed' /\ NoneForgotten'
        BY <1>i, <2>1, <3>2, <3>3, <3>4 DEF AllPushed, NoneForgotten
      <3> QED
        BY <3>5, <3>6 DEF WayInv
    <2>3. CASE Q!Dispose(Main) /\ batch' = Append(batch, held[Main])
      <3>1. held[Main] # 0 /\ held' = [held EXCEPT ![Main] = 0] /\ buf' = buf
        BY <2>3 DEF Q!Dispose
      <3>2. InHand = {held[Main]} /\ InHand' = {} /\ InBuf' = InBuf
        BY <3>1 DEF InHand, InBuf, TypeOK
      <3>3. InBatch' = InBatch \cup {held[Main]} /\ Increasing(batch')
        BY <1>i, <1>t, <2>3, <3>2, AppendFacts DEF InBatch, InOrder, Ahead
      <3>4. InOrder'
        BY <1>i, <2>1, <3>1, <3>2, <3>3 DEF InOrder, Ahead
      <3>5. AllPushed' /\ NoneForgotten'
        BY <1>i, <2>1, <3>2, <3>3 DEF AllPushed, NoneForgotten
      <3> QED
        BY <3>4, <3>5 DEF WayInv
    <2> QED
      BY <1>3, <2>2, <2>3 DEF ReadEvent
  <1>4. CASE NextEvent
    <2>1. UNCHANGED <<buf, held, event_seq, events, lost>> /\ InBuf' = InBuf /\ InHand' = InHand
      BY <1>4 DEF NextEvent, stream, InBuf, InHand
    <2>2. CASE batch = <<>>
      <3>1. UNCHANGED <<batch, current, handled>>
        BY <1>4, <2>2 DEF NextEvent
      <3> QED
        BY <1>i, <2>1, <3>1 DEF WayInv, InOrder, AllPushed, NoneForgotten, Done, InBatch
    <2>3. CASE batch # <<>>
      <3>1. batch' = Tail(batch)
        BY <1>4, <2>3 DEF NextEvent
      <3>2. /\ InBatch = {Head(batch)} \cup InBatch' /\ Increasing(batch')
            /\ Ahead({Head(batch)}, InBatch') /\ Head(batch) \in Numbers
        BY <1>i, <1>t, <2>3, <3>1, TailFacts DEF InBatch, InOrder
      <3>3. CASE Wanted(Head(batch))
        <4>1. handled' = Append(handled, Head(batch)) /\ current' = Head(batch)
          BY <1>4, <2>3, <3>3 DEF NextEvent
        <4>2. Ahead(Done, {Head(batch)})
          BY <1>i, <3>2 DEF InOrder, Ahead
        <4>3. Done' = Done \cup {Head(batch)} /\ Increasing(handled')
          BY <1>i, <1>t, <3>2, <4>1, <4>2, AppendFacts DEF Done, InOrder
        <4>4. InOrder'
          BY <1>i, <2>1, <3>2, <4>1, <4>3 DEF InOrder, Ahead
        <4>5. AllPushed' /\ NoneForgotten'
          BY <1>i, <2>1, <3>2, <4>1, <4>3 DEF AllPushed, NoneForgotten
        <4> QED
          BY <4>4, <4>5 DEF WayInv
      <3>4. CASE ~Wanted(Head(batch))
        <4>1. UNCHANGED <<handled, current>> /\ Done' = Done
          BY <1>4, <2>3, <3>4 DEF NextEvent, Done
        <4>2. InOrder'
          BY <1>i, <2>1, <3>2, <4>1 DEF InOrder, Ahead
        <4>3. AllPushed'
          BY <1>i, <2>1, <3>2, <4>1 DEF AllPushed
        <4>4. NoneForgotten'
          BY <1>i, <2>1, <3>2, <3>4, <4>1 DEF NoneForgotten, Wanted
        <4> QED
          BY <4>2, <4>3, <4>4 DEF WayInv
      <3> QED
        BY <3>3, <3>4
    <2> QED
      BY <2>2, <2>3
  <1>5. CASE StaysPut
    BY <1>5, <1>i DEF StaysPut, WayInv, InOrder, AllPushed, NoneForgotten, Done, InBatch, InHand, InBuf
  <1> QED
    BY <1>1, <1>2, <1>3, <1>4, <1>5, WaySteps

LEMMA WayCorrect == Spec => []WayInv
  <1>1. Init => WayInv
    <2> SUFFICES ASSUME Init PROVE WayInv
      OBVIOUS
    <2>1. /\ handled = <<>> /\ batch = <<>> /\ buf = <<>> /\ held[Main] = 0 /\ current = 0
          /\ event_seq = 0
      BY DEF Init, Q!Init
    <2>2. Done = {} /\ InBatch = {} /\ InHand = {} /\ InBuf = {}
      BY <2>1 DEF Done, InBatch, InHand, InBuf, Range
    <2>3. Increasing(handled) /\ Increasing(batch) /\ Increasing(buf)
      BY <2>1 DEF Increasing
    <2> QED
      BY <2>1, <2>2, <2>3 DEF WayInv, InOrder, AllPushed, NoneForgotten, Ahead
  <1>2. TypeOK /\ WayInv /\ [Next]_vars => WayInv'
    BY WayStep
  <1> QED
    BY <1>1, <1>2, TypeCorrect, PTL DEF Spec

\* Every motion event is queued, read, in the batch, given to handle_trigger
\* (once, and in order), or was overwritten or read by another process, for every
\* size of the queue and of the batch and whatever fails while another is handled.
THEOREM FateCorrect == Spec => []EveryTriggerHasOneFate
  <1>1. WayInv => EveryTriggerHasOneFate
    <2> SUFFICES ASSUME WayInv PROVE EveryTriggerHasOneFate
      OBVIOUS
    <2>1. \A i, j \in DOMAIN handled : i < j => handled[i] < handled[j]
      BY DEF WayInv, InOrder, Increasing
    <2>2. \A n \in 1 .. event_seq : events[n].kind = "rise" =>
             n \in Range(handled) \cup Range(batch) \cup Range(buf) \cup {held[Main]} \cup lost
      BY DEF WayInv, NoneForgotten, Done, InBatch, InHand, InBuf
    <2> QED
      BY <2>1, <2>2 DEF EveryTriggerHasOneFate
  <1> QED
    BY <1>1, WayCorrect, PTL

----------------------------------------------------------------------------
(* The log *)

Handling == mpc \in {"alert", "snapshot", "capture", "convert", "log"}

CurrentIsEvent == Handling => current \in 1 .. event_seq

ReportsPast == \A n \in 1 .. event_seq : events[n].upd <= updates

SnapNotOlder == mpc \in {"capture", "convert", "log"} => snap >= events[current].upd

LoggedEvents == \A i \in DOMAIN log : log[i].trigger \in 1 .. event_seq

LogInv == CurrentIsEvent /\ ReportsPast /\ SnapNotOlder /\ LoggedEvents /\ LogNotOlder

\* What events.log and the hub know only grows, and a new event reports an update
\* that has been made.
LEMMA EventsGrow ==
    ASSUME TypeOK, [Next]_vars
    PROVE  /\ event_seq \in Nat /\ event_seq' \in Nat /\ event_seq <= event_seq'
           /\ \A n \in 1 .. event_seq : events'[n] = events[n] /\ events[n].upd \in Nat
           /\ \A n \in 1 .. event_seq' : n \in 1 .. event_seq \/ events'[n].upd = updates'
           /\ updates \in Nat /\ updates' \in Nat /\ updates <= updates'
  <1>1. TypeOK /\ TypeOK'
    BY TypeStep
  <1>2. /\ event_seq \in Nat /\ event_seq' \in Nat /\ updates \in Nat /\ updates' \in Nat
        /\ events \in Seq([kind : Kind, upd : 0 .. MaxMotion]) /\ Len(events) = event_seq
    <2>1. event_seq \in Nat /\ event_seq' \in Nat
      BY <1>1 DEF TypeOK, Numbers
    <2> QED
      BY <1>1, <2>1, Constants DEF TypeOK
  <1>3. updates <= updates'
    <2>1. \/ updates' = updates + 1
          \/ UNCHANGED updates
      BY Zenon DEF Next, MainStep, HandleStep, PirEvent, ToneEnds, Steal, FrameReady, PostMode, SwitchMode,
         StatusPass, PlainPass, Pass, Poll, ReadEvent, ReadReturns, NextEvent, Alert, Snapshot, SkipFrame,
         SaveFrame, CaptureFails, Convert, Record, vars, hub
    <2> QED
      BY <1>2, <2>1
  <1>4. \A n \in 1 .. event_seq : events[n].upd \in Nat
    <2> TAKE n \in 1 .. event_seq
    <2>a. n \in DOMAIN events
      BY <1>2
    <2>1. PICK e \in [kind : Kind, upd : 0 .. MaxMotion] : e = events[n]
      BY <1>2, <2>a, InSeq
    <2>2. e.upd \in 0 .. MaxMotion
      OBVIOUS
    <2> QED
      BY <2>1, <2>2, Constants
  <1>5. ASSUME NEW kind \in Kind, Push(kind, updates')
        PROVE  /\ event_seq' = event_seq + 1 /\ events'[event_seq + 1].upd = updates'
               /\ \A n \in 1 .. event_seq : events'[n] = events[n]
    <2>1. /\ event_seq' = event_seq + 1 /\ events' = Append(events, [kind |-> kind, upd |-> updates'])
      BY <1>5 DEF Push, Q!Push
    <2>2. PICK r : r = [kind |-> kind, upd |-> updates']
      OBVIOUS
    <2>3. r.upd = updates' /\ events' = Append(events, r) /\ r \in [kind : Kind, upd : 0 .. MaxMotion]
      BY <1>1, <2>1, <2>2 DEF TypeOK
    <2> HIDE <2>2
    <2> QED
      BY <1>2, <2>1, <2>3
  <1>6. CASE \E kind \in Kind : Push(kind, updates')
    BY <1>2, <1>3, <1>4, <1>5, <1>6
  <1>7. CASE UNCHANGED <<event_seq, events>>
    BY <1>2, <1>3, <1>4, <1>7
  <1>8. UNCHANGED <<event_seq, events>> \/ \E kind \in Kind : Push(kind, updates')
    BY WaySteps DEF Steal, ReadEvent, Q!Take, Q!Dispose, NextEvent, stream, StaysPut
  <1> QED
    BY <1>6, <1>7, <1>8

\* Most steps keep the place of the main loop and the record it is making, or end
\* the handling of an event without a line in the log.
LEMMA LogFrame ==
    ASSUME TypeOK, LogInv, [Next]_vars, UNCHANGED log,
           \/ UNCHANGED <<mpc, current, snap>>
           \/ mpc' \notin {"alert", "snapshot", "capture", "convert", "log"}
           \/ mpc = "alert" /\ mpc' = "snapshot" /\ UNCHANGED current
           \/ /\ mpc \in {"capture", "convert"} /\ mpc' \in {"capture", "convert", "log"}
              /\ UNCHANGED <<current, snap>>
    PROVE  LogInv'
  <1>1. /\ event_seq \in Nat /\ event_seq' \in Nat /\ event_seq <= event_seq'
        /\ \A n \in 1 .. event_seq : events'[n] = events[n] /\ events[n].upd \in Nat
        /\ \A n \in 1 .. event_seq' : n \in 1 .. event_seq \/ events'[n].upd = updates'
        /\ updates \in Nat /\ updates' \in Nat /\ updates <= updates'
    BY EventsGrow
  <1> USE DEF LogInv
  <1>2. \A n \in 1 .. event_seq : n \in 1 .. event_seq'
    BY <1>1
  <1>3. ReportsPast'
    BY <1>1 DEF ReportsPast
  <1>4. CurrentIsEvent'
    BY <1>2 DEF CurrentIsEvent, Handling
  <1>5. SnapNotOlder'
    BY <1>1 DEF SnapNotOlder, CurrentIsEvent, Handling
  <1>6. LoggedEvents' /\ LogNotOlder'
    BY <1>1, <1>2 DEF LoggedEvents, LogNotOlder
  <1> QED
    BY <1>3, <1>4, <1>5, <1>6

LEMMA LogStep == ASSUME TypeOK, WayInv', LogInv, [Next]_vars PROVE LogInv'
  <1>g. /\ event_seq \in Nat /\ event_seq' \in Nat /\ event_seq <= event_seq'
        /\ \A n \in 1 .. event_seq : events'[n] = events[n] /\ events[n].upd \in Nat
        /\ \A n \in 1 .. event_seq' : n \in 1 .. event_seq \/ events'[n].upd = updates'
        /\ updates \in Nat /\ updates' \in Nat /\ updates <= updates'
    BY EventsGrow
  <1>1. CASE \/ \E kind \in {"rise", "fall"} : PirEvent(kind)
             \/ ToneEnds \/ Steal \/ FrameReady \/ (\E m \in Mode : PostMode(m)) \/ SwitchMode
             \/ ReadEvent \/ UNCHANGED vars
    <2>1. UNCHANGED <<log, mpc, current, snap>>
      BY <1>1 DEF PirEvent, ToneEnds, Steal, FrameReady, PostMode, SwitchMode, ReadEvent, vars, handling,
                  pictures
    <2> QED
      BY <2>1, LogFrame
  <1>2. CASE StatusPass \/ PlainPass \/ Poll \/ ReadReturns
    <2>1. UNCHANGED log /\ mpc' \notin {"alert", "snapshot", "capture", "convert", "log"}
      BY <1>2 DEF StatusPass, PlainPass, Pass, Poll, ReadReturns, Go, pictures
    <2> QED
      BY <2>1, LogFrame
  <1>3. CASE NextEvent
    <2>1. UNCHANGED <<log, event_seq, events, updates>>
      BY <1>3 DEF NextEvent, stream, hub
    <2>2. CASE mpc' = "alert"
      <3>1. CurrentIsEvent'
        <4>1. current' \in Done' /\ Done' \subseteq 1 .. event_seq'
          <5>1. batch # <<>> /\ handled' = Append(handled, Head(batch)) /\ current' = Head(batch)
            BY <1>3, <2>2 DEF NextEvent
          <5>a. Numbers \in SUBSET Nat
            BY DEF Numbers
          <5>b. batch \in Seq(Numbers) /\ handled \in Seq(Numbers)
            BY DEF TypeOK
          <5>2. Head(batch) \in Numbers /\ handled \in Seq(Numbers) /\ Numbers \in SUBSET Nat
            BY <5>1, <5>a, <5>b, TailFacts
          <5>3. Done' = Range(handled) \cup {Head(batch)}
            BY <5>1, <5>2, AppendFacts DEF Done
          <5> QED
            BY <5>1, <5>3 DEF WayInv, AllPushed
        <4> QED
          BY <4>1 DEF CurrentIsEvent
      <3> QED
        BY <2>1, <2>2, <3>1 DEF LogInv, ReportsPast, SnapNotOlder, LoggedEvents, LogNotOlder
    <2>3. CASE mpc' # "alert"
      <3>1. mpc' \notin {"alert", "snapshot", "capture", "convert", "log"}
        BY <1>3, <2>3 DEF NextEvent
      <3> QED
        BY <2>1, <3>1, LogFrame
    <2> QED
      BY <2>2, <2>3
  <1>4. CASE Alert
    BY <1>4, LogFrame DEF Alert, Go, pictures, handling
  <1>5. CASE Snapshot
    <2>1. UNCHANGED <<log, event_seq, events, updates, current>> /\ mpc = "snapshot"
      BY <1>5 DEF Snapshot, stream, hub
    <2>2. CASE mpc' = "capture" /\ snap' = updates
      <3>1. current \in 1 .. event_seq
        BY <2>1 DEF LogInv, CurrentIsEvent, Handling
      <3>2. CurrentIsEvent' /\ SnapNotOlder'
        BY <1>g, <2>1, <2>2, <3>1 DEF LogInv, ReportsPast, CurrentIsEvent, SnapNotOlder
      <3> QED
        BY <2>1, <3>2 DEF LogInv, ReportsPast, LoggedEvents, LogNotOlder
    <2>3. CASE Fail
      BY <2>1, <2>3, LogFrame DEF Fail
    <2> QED
      BY <1>5, <2>2, <2>3 DEF Snapshot
  <1>6. CASE SkipFrame \/ SaveFrame \/ CaptureFails \/ Convert
    <2>1. UNCHANGED <<log, current, snap>> /\ mpc \in {"capture", "convert"}
      BY <1>6 DEF SkipFrame, SaveFrame, CaptureFails, Convert, Go, handling
    <2>2. mpc' \in {"batch", "capture", "convert", "log"}
      BY <1>6 DEF SkipFrame, SaveFrame, CaptureFails, Convert, Fail
    <2> QED
      BY <2>1, <2>2, LogFrame
  <1>7. CASE Record
    <2>1. UNCHANGED <<event_seq, events, updates>> /\ mpc = "log" /\ mpc' = "batch"
      BY <1>7 DEF Record, Go, stream, hub
    <2>2. CASE UNCHANGED log
      BY <2>1, <2>2, LogFrame
    <2>3. CASE log' = Append(log, [trigger |-> current, snap |-> snap, img |-> path])
      <3>1. PICK r \in [trigger : Numbers, snap : 0 .. MaxMotion, img : Second] :
               r.trigger = current /\ r.snap = snap /\ log' = Append(log, r)
        <4>1. PICK r : r = [trigger |-> current, snap |-> snap, img |-> path]
          OBVIOUS
        <4>2. r \in [trigger : Numbers, snap : 0 .. MaxMotion, img : Second]
          BY <4>1, Constants DEF TypeOK
        <4>3. r.trigger = current /\ r.snap = snap /\ log' = Append(log, r)
          BY <2>3, <4>1
        <4> QED
          BY <4>2, <4>3
      <3>2. log \in Seq([trigger : Numbers, snap : 0 .. MaxMotion, img : Second])
        BY DEF TypeOK
      <3>3. \A i \in DOMAIN log' : (i \in DOMAIN log /\ log'[i] = log[i]) \/ log'[i] = r
        BY <3>1, <3>2
      <3>4. r.trigger \in 1 .. event_seq /\ r.snap >= events[r.trigger].upd
        BY <2>1, <3>1 DEF LogInv, CurrentIsEvent, Handling, SnapNotOlder
      <3>5. LoggedEvents' /\ LogNotOlder'
        BY <2>1, <3>3, <3>4 DEF LogInv, LoggedEvents, LogNotOlder
      <3>6. CurrentIsEvent' /\ ReportsPast' /\ SnapNotOlder'
        BY <2>1 DEF LogInv, CurrentIsEvent, Handling, ReportsPast, SnapNotOlder
      <3> QED
        BY <3>5, <3>6 DEF LogInv
    <2> QED
      BY <1>7, <2>2, <2>3 DEF Record
  <1> QED
    BY <1>1, <1>2, <1>3, <1>4, <1>5, <1>6, <1>7 DEF Next, MainStep, HandleStep

LEMMA LogInvCorrect == Spec => []LogInv
  <1>1. Init => LogInv
    BY DEF Init, Q!Init, LogInv, CurrentIsEvent, Handling, ReportsPast, SnapNotOlder, LoggedEvents, LogNotOlder
  <1>2. TypeOK /\ WayInv' /\ LogInv /\ [Next]_vars => LogInv'
    BY LogStep
  <1> QED
    BY <1>1, <1>2, TypeCorrect, WayCorrect, PTL DEF Spec

\* No line of the log combines an event with values older than it: the snapshot
\* that handle_trigger takes is of a later instant than the update the event
\* reports, however late the event is read.
THEOREM LogCorrect == Spec => []LogNotOlder
  <1>1. LogInv => LogNotOlder
    BY DEF LogInv
  <1> QED
    BY <1>1, LogInvCorrect, PTL

\* No picture on disk and no line of the log is of an event that has not been
\* handled yet, and no line of the one that is being handled; the picture that is
\* about to be logged has just been written, and the status page names a whole one.
PicturesNotAhead == \A s \in Second : files[s].trigger <= current

LinesNotAhead ==
    \A i \in DOMAIN log : /\ log[i].trigger <= current
                          /\ Handling => log[i].trigger < current

PictureAtLog == mpc = "log" => files[path].trigger = current /\ files[path].whole

LastHasPicture == last.ok => last.path \in Second /\ files[last.path].whole

LinesShown == \A i \in DOMAIN log : Shows(files[log[i].img], log[i])

PicInv ==
    PicturesNotAhead /\ LinesNotAhead /\ PictureAtLog /\ LastHasPicture /\ LinesShown

LEMMA PicTypes ==
    ASSUME TypeOK
    PROVE  /\ path \in Second /\ current \in Nat
           /\ log \in Seq([trigger : Numbers, snap : 0 .. MaxMotion, img : Second])
           /\ \A s \in Second : files[s].trigger \in Nat
           /\ \A i \in DOMAIN log : log[i].img \in Second /\ log[i].trigger \in Nat
  <1>1. Numbers \subseteq Nat
    BY Constants DEF Numbers
  <1>2. /\ files \in [Second -> [trigger : Numbers, frame : Numbers, whole : BOOLEAN]]
        /\ path \in Second /\ current \in Numbers
        /\ log \in Seq([trigger : Numbers, snap : 0 .. MaxMotion, img : Second])
    BY DEF TypeOK
  <1>3. \A s \in Second : files[s].trigger \in Nat
    BY <1>1, <1>2
  <1>4. ASSUME NEW i \in DOMAIN log PROVE log[i].img \in Second /\ log[i].trigger \in Nat
    <2>1. PICK r \in [trigger : Numbers, snap : 0 .. MaxMotion, img : Second] : r = log[i]
      BY <1>2, InSeq
    <2>2. r.img \in Second /\ r.trigger \in Numbers
      OBVIOUS
    <2> QED
      BY <1>1, <2>1, <2>2
  <1> QED
    BY <1>1, <1>2, <1>3, <1>4

\* A step that writes neither picture nor line, and goes on with the event in
\* hand or takes up a later one.
LEMMA PicFrame ==
    ASSUME TypeOK, PicInv, UNCHANGED <<files, log>>, UNCHANGED last \/ ~last'.ok,
           current' \in Nat,
           current' > current \/ (current' = current /\ (Handling' => Handling)),
           mpc' # "log" \/ UNCHANGED <<mpc, path, current>>
    PROVE  PicInv'
  <1> USE DEF PicInv
  <1>1. PicturesNotAhead'
    BY PicTypes DEF PicturesNotAhead
  <1>2. LinesNotAhead'
    BY PicTypes DEF LinesNotAhead
  <1>3. PictureAtLog' /\ LastHasPicture' /\ LinesShown'
    BY DEF PictureAtLog, LastHasPicture, LinesShown
  <1> QED
    BY <1>1, <1>2, <1>3

\* A conversion writes over pictures of earlier events only; whole or not, the
\* lines of those events are no longer owed theirs.
LEMMA PicWritten ==
    ASSUME TypeOK, CurrentIsEvent, PicInv, mpc = "convert", UNCHANGED <<log, current, path>>,
           NEW whole \in BOOLEAN, files' = Written(whole)
    PROVE  PicturesNotAhead' /\ LinesNotAhead' /\ LinesShown'
  <1> USE DEF PicInv
  <1>t. /\ path \in Second /\ current \in Nat
        /\ \A s \in Second : files[s].trigger \in Nat
        /\ \A i \in DOMAIN log : log[i].img \in Second /\ log[i].trigger \in Nat
    BY PicTypes
  <1>1. /\ files'[path].trigger = current
        /\ \A s \in Second : s # path => files'[s] = files[s]
    BY WrittenFacts
  <1>2. PicturesNotAhead'
    BY <1>t, <1>1 DEF PicturesNotAhead
  <1>3. \A i \in DOMAIN log : log[i].trigger < current
    BY DEF LinesNotAhead, Handling
  <1>4. LinesNotAhead'
    BY <1>t, <1>3 DEF LinesNotAhead
  <1>5. LinesShown'
    <2> SUFFICES ASSUME NEW i \in DOMAIN log PROVE Shows(files'[log[i].img], log[i])
      BY DEF LinesShown, Shows
    <2>1. CASE log[i].img = path
      BY <1>t, <1>1, <1>3, <2>1 DEF Shows
    <2>2. CASE log[i].img # path
      BY <1>t, <1>1, <2>2 DEF LinesShown
    <2> QED
      BY <2>1, <2>2
  <1> QED
    BY <1>2, <1>4, <1>5

LEMMA PicConvert == ASSUME TypeOK, CurrentIsEvent, PicInv, Convert PROVE PicInv'
  <1>1. UNCHANGED <<log, current, path>> /\ mpc = "convert"
    BY DEF Convert, handling
  <1>2. CASE files' = Written(TRUE) /\ mpc' = "log" /\ UNCHANGED last
    <2>1. PicturesNotAhead' /\ LinesNotAhead' /\ LinesShown'
      BY <1>1, <1>2, PicWritten
    <2>2. /\ files'[path].trigger = current /\ files'[path].whole
          /\ \A s \in Second : s # path => files'[s] = files[s]
      BY <1>2, WrittenFacts
    <2>3. PictureAtLog' /\ LastHasPicture'
      BY <1>1, <1>2, <2>2 DEF PicInv, PictureAtLog, LastHasPicture
    <2> QED
      BY <2>1, <2>3 DEF PicInv
  <1>3. CASE Fail /\ files' = Written(FALSE)
    <2>1. PicturesNotAhead' /\ LinesNotAhead' /\ LinesShown'
      BY <1>1, <1>3, PicWritten
    <2>2. PictureAtLog' /\ LastHasPicture'
      BY <1>3 DEF Fail, PictureAtLog, LastHasPicture
    <2> QED
      BY <2>1, <2>2 DEF PicInv
  <1>4. CASE Fail /\ UNCHANGED files
    <2>1. mpc' = "batch" /\ ~last'.ok
      BY <1>4 DEF Fail
    <2> QED
      BY <1>1, <1>4, <2>1, PicTypes, PicFrame DEF Handling
  <1> QED
    BY <1>2, <1>3, <1>4 DEF Convert

\* The line that is logged names the picture just written.
LEMMA PicRecord == ASSUME TypeOK, PicInv, Record PROVE PicInv'
  <1>t. /\ path \in Second /\ current \in Nat
        /\ log \in Seq([trigger : Numbers, snap : 0 .. MaxMotion, img : Second])
        /\ \A i \in DOMAIN log : log[i].img \in Second /\ log[i].trigger \in Nat
    BY PicTypes
  <1>1. UNCHANGED <<files, current, path>> /\ mpc = "log" /\ mpc' = "batch"
    BY DEF Record, Go, handling
  <1>2. files[path].trigger = current /\ files[path].whole
    BY <1>1 DEF PicInv, PictureAtLog
  <1>3. last'.ok /\ last'.path = path
    BY DEF Record
  <1>4. PicturesNotAhead' /\ PictureAtLog' /\ LastHasPicture'
    BY <1>t, <1>1, <1>2, <1>3 DEF PicInv, PicturesNotAhead, PictureAtLog, LastHasPicture
  <1>5. PICK r \in [trigger : Numbers, snap : 0 .. MaxMotion, img : Second] :
           r.trigger = current /\ r.img = path /\ log' \in {log, Append(log, r)}
    <2>1. PICK r : r = [trigger |-> current, snap |-> snap, img |-> path]
      OBVIOUS
    <2>2. r \in [trigger : Numbers, snap : 0 .. MaxMotion, img : Second]
      BY <2>1, Constants DEF TypeOK
    <2>3. r.trigger = current /\ r.img = path /\ log' \in {log, Append(log, r)}
      BY <2>1 DEF Record
    <2> QED
      BY <2>2, <2>3
  <1>6. \A i \in DOMAIN log' : (i \in DOMAIN log /\ log'[i] = log[i]) \/ log'[i] = r
    <2>1. CASE log' = log
      BY <2>1
    <2>2. CASE log' = Append(log, r)
      BY <1>t, <2>2
    <2> QED
      BY <1>5, <2>1, <2>2
  <1>7. LinesNotAhead'
    BY <1>t, <1>1, <1>5, <1>6 DEF PicInv, LinesNotAhead, Handling
  <1>8. Shows(files[path], r)
    BY <1>2, <1>5 DEF Shows
  <1>9. LinesShown'
    BY <1>1, <1>5, <1>6, <1>8 DEF PicInv, LinesShown, Shows
  <1> QED
    BY <1>4, <1>7, <1>9 DEF PicInv

LEMMA PicStep == ASSUME TypeOK, WayInv, CurrentIsEvent, PicInv, [Next]_vars PROVE PicInv'
  <1>t. current \in Nat
    BY PicTypes
  <1>1. CASE \/ \E kind \in {"rise", "fall"} : PirEvent(kind)
             \/ ToneEnds \/ Steal \/ FrameReady \/ (\E m \in Mode : PostMode(m)) \/ SwitchMode
             \/ ReadEvent \/ UNCHANGED vars
    <2>1. UNCHANGED <<files, log, last, mpc, current, path>>
      BY <1>1 DEF PirEvent, ToneEnds, Steal, FrameReady, PostMode, SwitchMode, ReadEvent, vars, handling,
                  pictures
    <2> QED
      BY <1>t, <2>1, PicFrame DEF Handling
  <1>2. CASE StatusPass \/ PlainPass \/ Poll \/ ReadReturns
    <2>1. UNCHANGED <<files, log, last, current>> /\ mpc' \in {"loop", "poll", "read", "batch"}
      BY <1>2 DEF StatusPass, PlainPass, Pass, Poll, ReadReturns, Go, pictures, handling
    <2> QED
      BY <1>t, <2>1, PicFrame DEF Handling
  <1>3. CASE Alert
    <2>1. UNCHANGED <<files, log, last, current>> /\ mpc = "alert" /\ mpc' = "snapshot"
      BY <1>3 DEF Alert, Go, pictures, handling
    <2> QED
      BY <1>t, <2>1, PicFrame DEF Handling
  <1>4. CASE NextEvent
    <2>1. UNCHANGED <<files, log, last>> /\ mpc = "batch" /\ mpc' \in {"loop", "batch", "alert"}
      BY <1>4 DEF NextEvent
    <2>2. CASE UNCHANGED current /\ mpc' # "alert"
      BY <1>t, <2>1, <2>2, PicFrame DEF Handling
    <2>3. CASE batch # <<>> /\ current' = Head(batch)
      <3>a. Numbers \in SUBSET Nat
        BY Constants DEF Numbers
      <3>b. batch \in Seq(Numbers)
        BY DEF TypeOK
      <3>1. Head(batch) \in InBatch /\ Head(batch) \in Nat
        BY <2>3, <3>a, <3>b, TailFacts DEF InBatch
      <3>2. current < Head(batch)
        BY <3>1 DEF WayInv, InOrder, Ahead
      <3>3. mpc' # "log"
        BY <2>1
      <3> QED
        BY <2>1, <2>3, <3>1, <3>2, <3>3, PicFrame
    <2> QED
      BY <1>4, <2>1, <2>2, <2>3 DEF NextEvent
  <1>5. CASE Snapshot \/ SkipFrame \/ SaveFrame \/ CaptureFails
    <2>1. UNCHANGED <<files, log, current>> /\ mpc' # "log" /\ mpc \in {"snapshot", "capture"}
      BY <1>5 DEF Snapshot, SkipFrame, SaveFrame, CaptureFails, Fail, handling
    <2>2. UNCHANGED last \/ ~last'.ok
      BY <1>5 DEF Snapshot, SkipFrame, SaveFrame, CaptureFails, Fail
    <2> QED
      BY <1>t, <2>1, <2>2, PicFrame DEF Handling
  <1>6. CASE Convert
    BY <1>6, PicConvert
  <1>7. CASE Record
    BY <1>7, PicRecord
  <1> QED
    BY <1>1, <1>2, <1>3, <1>4, <1>5, <1>6, <1>7 DEF Next, MainStep, HandleStep

\* Every line of the log names a whole picture of its own event, unless a later
\* event was given the same name, and the status page names a whole picture,
\* however the clock, failures and later events fall.
THEOREM LogNamesCorrect == Spec => []LogNamesPictures
  <1>1. Init => PicInv
    BY DEF Init, PicInv, PicturesNotAhead, LinesNotAhead, PictureAtLog, LastHasPicture, LinesShown,
           Handling, NoFile
  <1>2. TypeOK /\ WayInv /\ CurrentIsEvent /\ PicInv /\ [Next]_vars => PicInv'
    BY PicStep
  <1>3. PicInv => LogNamesPictures
    BY DEF PicInv, LinesShown, LastHasPicture, LogNamesPictures
  <1>4. LogInv => CurrentIsEvent
    BY DEF LogInv
  <1> QED
    BY <1>1, <1>2, <1>3, <1>4, TypeCorrect, WayCorrect, LogInvCorrect, PTL DEF Spec
=============================================================================
