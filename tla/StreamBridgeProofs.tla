------------------------- MODULE StreamBridgeProofs -------------------------
(* Proofs about StreamBridge, for every set of readers and every bound.    *)
EXTENDS StreamBridge, SequenceTheorems, TLAPS

(* Dropping the first m elements of a sequence of numbers.                 *)
LEMMA DropFirst ==
  ASSUME NEW s \in Seq(Nat), NEW m \in Nat, m <= Len(s)
  PROVE  /\ SubSeq(s, m + 1, Len(s)) \in Seq(Nat)
         /\ Len(SubSeq(s, m + 1, Len(s))) = Len(s) - m
         /\ \A k \in 1 .. Len(s) - m : SubSeq(s, m + 1, Len(s))[k] = s[m + k]
<1>1. m + 1 \in Int /\ Len(s) \in Nat /\ \A k \in m + 1 .. Len(s) : s[k] \in Nat
  OBVIOUS
<1>2. /\ SubSeq(s, m + 1, Len(s)) \in Seq(Nat)
      /\ Len(SubSeq(s, m + 1, Len(s)))
           = IF m + 1 <= Len(s) THEN Len(s) - (m + 1) + 1 ELSE 0
      /\ \A k \in 1 .. Len(s) - (m + 1) + 1 :
           SubSeq(s, m + 1, Len(s))[k] = s[m + 1 + k - 1]
  BY <1>1, SubSeqProperties
<1>3. \A k \in 1 .. Len(s) - m : m + 1 + k - 1 = m + k
  BY <1>1
<1>4. Len(s) - (m + 1) + 1 = Len(s) - m
  BY <1>1
<1>5. \A k \in 1 .. Len(s) - m : SubSeq(s, m + 1, Len(s))[k] = s[m + k]
  BY <1>2, <1>3, <1>4
<1>6. Len(SubSeq(s, m + 1, Len(s))) = Len(s) - m
  BY <1>1, <1>2
<1>q. QED BY <1>2, <1>5, <1>6

(* What publish does to one object that satisfies the bound.               *)
LEMMA RetainFacts ==
  ASSUME NEW st \in RunStream, Lockstep(st), NEW e,
         e = st.start_offset + Len(st.events)
  PROVE  /\ Retain(st, e) \in RunStream
         /\ Lockstep(Retain(st, e))
         /\ Retain(st, e).ended = st.ended
         /\ Retain(st, e).start_offset >= st.start_offset
         /\ Len(Retain(st, e).events) >= 1
         /\ Retain(st, e).start_offset + Len(Retain(st, e).events) = e + 1
<1>1. /\ st.events \in Seq(Nat)
      /\ Len(st.events) \in Nat
      /\ st.start_offset \in Nat
      /\ st.ended \in BOOLEAN
      /\ e \in Nat
  BY DEF RunStream
<1>2. PICK n \in Nat, o \in Nat : n = Len(st.events) /\ o = st.start_offset
  BY <1>1
<1>3. /\ n <= MaxSize
      /\ o > 0 => n = MaxSize
      /\ MaxSize \in Nat /\ MaxSize >= 1
      /\ \A k \in 1 .. n : st.events[k] = o + k - 1
  BY <1>2, SizeAssumption DEF Lockstep
<1>4. PICK all : all = Append(st.events, e)
  OBVIOUS
<1>5. all \in Seq(Nat) /\ Len(all) = n + 1
  BY <1>1, <1>2, <1>4
<1>6. \A k \in 1 .. n + 1 : all[k] = o + k - 1
  <2> TAKE k \in 1 .. n + 1
  <2>1. CASE k = n + 1
    BY <1>1, <1>2, <1>4, <2>1
  <2>2. CASE k # n + 1
    BY <1>1, <1>2, <1>3, <1>4, <2>2
  <2>q. QED BY <2>1, <2>2
<1>7. PICK overflow : overflow = IF Len(all) > MaxSize THEN Len(all) - MaxSize ELSE 0
  OBVIOUS
<1>8. /\ overflow \in Nat
      /\ overflow <= 1
      /\ overflow = 1 => n = MaxSize
      /\ n + 1 - overflow <= MaxSize
  BY <1>2, <1>3, <1>5, <1>7
<1>9. PICK kept : kept = SubSeq(all, overflow + 1, Len(all))
  OBVIOUS
<1>10. /\ kept \in Seq(Nat)
       /\ Len(kept) = n + 1 - overflow
       /\ \A k \in 1 .. n + 1 - overflow : kept[k] = all[overflow + k]
  BY <1>2, <1>5, <1>8, <1>9, DropFirst
<1>11. \A k \in 1 .. n + 1 - overflow : kept[k] = (o + overflow) + k - 1
  <2> TAKE k \in 1 .. n + 1 - overflow
  <2>1. overflow + k \in 1 .. n + 1
    BY <1>2, <1>8
  <2>2. kept[k] = o + (overflow + k) - 1
    BY <1>6, <1>10, <2>1
  <2>q. QED BY <1>2, <1>8, <2>2, SMTT(30)
<1>12. PICK r : r = Retain(st, e)
  OBVIOUS
<1>13. r = [st EXCEPT !.events = kept, !.start_offset = @ + overflow]
  BY <1>4, <1>7, <1>9, <1>12 DEF Retain
<1>14. /\ r \in RunStream
       /\ r.events = kept
       /\ r.start_offset = o + overflow
       /\ r.ended = st.ended
  <2>1. r = [events |-> kept, start_offset |-> o + overflow, ended |-> st.ended]
    BY <1>2, <1>13 DEF RunStream
  <2>2. o + overflow \in Nat
    BY <1>2, <1>8
  <2>q. QED BY <1>1, <1>10, <2>1, <2>2 DEF RunStream
<1>15. PICK m, p : m = n + 1 - overflow /\ p = o + overflow
  OBVIOUS
<1>16. /\ m \in Nat /\ p \in Nat
       /\ m <= MaxSize
       /\ m >= 1
       /\ p > 0 => m = MaxSize
       /\ p >= o
       /\ p + m = o + n + 1
  <2>1. n \in Nat /\ o \in Nat
    BY <1>2
  <2>2. /\ n <= MaxSize
        /\ o > 0 => n = MaxSize
        /\ MaxSize \in Nat /\ MaxSize >= 1
    BY <1>3
  <2>3. CASE overflow = 0
    BY <1>8, <1>15, <2>1, <2>2, <2>3
  <2>4. CASE overflow = 1
    BY <1>8, <1>15, <2>1, <2>2, <2>4
  <2>q. QED BY <1>8, <2>3, <2>4
<1>17. Len(r.events) = m /\ r.start_offset = p /\ r.events = kept
  BY <1>10, <1>14, <1>15
<1>18. Lockstep(r)
  <2>1. \A k \in 1 .. m : kept[k] = p + k - 1
    BY <1>11, <1>15
  <2>q. QED BY <1>16, <1>17, <2>1 DEF Lockstep
<1>19. e = o + n
  BY <1>2
<1>q. QED BY <1>2, <1>12, <1>14, <1>16, <1>17, <1>18, <1>19

-----------------------------------------------------------------------------
(* The numbers the invariant speaks of are numbers.                        *)
LEMMA Numbers ==
  ASSUME TypeOK, NEW i \in Stream
  PROVE  /\ stream[i] \in RunStream
         /\ stream[i].start_offset \in Nat
         /\ Len(stream[i].events) \in Nat
         /\ Taken(i) = stream[i].start_offset + Len(stream[i].events)
         /\ Taken(i) \in Nat
         /\ \A c \in Client : Held(c, i) \in Int /\ Held(c, i) >= -1
<1>1. stream[i] \in RunStream
  BY DEF TypeOK
<1>2. /\ stream[i].start_offset \in Nat
      /\ Len(stream[i].events) \in Nat
  BY <1>1 DEF RunStream
<1>3. ASSUME NEW c \in Client PROVE Held(c, i) \in Int /\ Held(c, i) >= -1
  BY DEF TypeOK, Id, NoId, Held
<1>q. QED BY <1>1, <1>2, <1>3 DEF Taken

(* The object an operation works on exists afterwards, and the run's       *)
(* counter is the number of events it has taken.                           *)
LEMMA TargetFacts ==
  ASSUME IndInv, GetOrCreate
  PROVE  /\ Target \in Stream
         /\ Target \in Nat
         /\ made <= Target
         /\ made \in Nat
         /\ made' = Target
         /\ present' = TRUE
         /\ Taken(Target) = counter
<1>1. /\ Target \in Stream
      /\ Target \in Nat
      /\ made <= Target
      /\ made \in Nat
      /\ made' = Target
      /\ present' = TRUE
  BY BoundAssumption DEF IndInv, TypeOK, GetOrCreate, Target, Stream
<1>2. CASE present
  <2>1. Target = made
    BY <1>2 DEF Target
  <2>2. counter = Taken(made)
    BY <1>2 DEF IndInv, OffsetsMatchIds
  <2>q. QED BY <1>1, <2>1, <2>2
<1>3. CASE ~present
  <2>1. Target > made
    BY <1>1, <1>3 DEF Target
  <2>2. stream[Target] = NewRunStream
    BY <1>1, <2>1 DEF IndInv, Founded
  <2>3. Taken(Target) = 0
    BY <2>2 DEF Taken, NewRunStream
  <2>4. counter = 0
    BY <1>3 DEF IndInv, OffsetsMatchIds
  <2>q. QED BY <1>1, <2>3, <2>4
<1>q. QED BY <1>2, <1>3

(* A generator that is not closed reads an object that exists.             *)
LEMMA Attached ==
  ASSUME TypeOK, Founded, NEW c \in Client, sub[c].pc # "off"
  PROVE  sub[c].on \in Stream /\ sub[c].on <= made
<1>1. sub[c].on \in 1 .. made
  BY DEF Founded
<1>q. QED BY <1>1, BoundAssumption DEF TypeOK, Stream

(* How a step may change the objects, and a notification the readers.      *)
Grows ==
  \A i \in Stream :
    /\ stream'[i] \in RunStream
    /\ Lockstep(stream'[i])
    /\ stream'[i].start_offset >= stream[i].start_offset
    /\ Taken(i)' >= Taken(i)
    /\ stream[i].ended => stream'[i] = stream[i]

SameReaders ==
  \A c \in Client :
    /\ sub'[c].on = sub[c].on
    /\ sub'[c].next_offset = sub[c].next_offset
    /\ Reading(c)' <=> Reading(c)
    /\ (sub'[c].pc = "done") <=> (sub[c].pc = "done")
    /\ (sub'[c].pc = "off") <=> (sub[c].pc = "off")

Writes(st) ==
  \E t \in Stream : /\ Taken(t) = counter /\ Taken(t)' = counter'
                    /\ ~stream[t].ended /\ stream'[t] = st
                    /\ \A i \in Stream : i # t => stream'[i] = stream[i]

LEMMA NotifyFacts ==
  ASSUME TypeOK, NEW i \in Stream, NotifyAll(i)
  PROVE  SameReaders /\ sub' \in [Client -> Subscriber]
<1>1. ASSUME NEW c \in Client
      PROVE  \/ sub'[c] = sub[c]
             \/ sub[c].pc = "waiting" /\ sub'[c] = [sub[c] EXCEPT !.pc = "ready"]
  BY DEF NotifyAll
<1>2. ASSUME NEW c \in Client PROVE sub[c] \in Subscriber
  BY DEF TypeOK
<1>3. sub' \in [Client -> Subscriber]
  <2>1. ASSUME NEW c \in Client PROVE sub'[c] \in Subscriber
    BY <1>1, <1>2 DEF Subscriber
  <2>q. QED BY <2>1 DEF NotifyAll
<1>4. SameReaders
  BY <1>1, <1>2 DEF SameReaders, Reading, Subscriber
<1>q. QED BY <1>3, <1>4

(* Growth leaves every reader's cursor sound and every end complete.       *)
LEMMA GrowthIsSound ==
  ASSUME IndInv, Grows, SameReaders, last' = last
  PROVE  CursorSound' /\ EndIsComplete'
<1>1. TypeOK
  BY DEF IndInv
<1>2. ASSUME NEW c \in Client, Reading(c)'
      PROVE  SoundAt(c, sub[c].on, sub[c].next_offset)'
  <2>1. Reading(c) /\ sub[c].pc # "off"
    BY <1>2 DEF SameReaders, Reading
  <2>2. PICK i \in Stream : i = sub[c].on
    BY <1>1, <2>1, Attached DEF IndInv
  <2>3. PICK n \in Nat : n = sub[c].next_offset
    BY <1>1 DEF TypeOK, Subscriber
  <2>4. SoundAt(c, i, n)
    BY <2>1, <2>2, <2>3 DEF IndInv, CursorSound
  <2>5. sub'[c].on = i /\ sub'[c].next_offset = n /\ Held(c, i)' = Held(c, i)
    BY <2>2, <2>3 DEF SameReaders, Held
  <2>6. /\ stream'[i].start_offset \in Nat
        /\ stream'[i].start_offset >= stream[i].start_offset
        /\ Taken(i)' \in Nat
        /\ Taken(i)' >= Taken(i)
    BY <2>2 DEF Grows, Taken, RunStream
  <2>7. SoundAt(c, i, n)'
    BY <1>1, <2>2, <2>3, <2>4, <2>5, <2>6, Numbers DEF SoundAt
  <2>q. QED BY <2>5, <2>7 DEF SoundAt, Held, Taken
<1>3. ASSUME NEW c \in Client, sub'[c].pc = "done"
      PROVE  CompleteAt(c, sub[c].on)'
  <2>1. sub[c].pc = "done" /\ sub'[c].on = sub[c].on
    BY <1>3 DEF SameReaders
  <2>2. PICK i \in Stream : i = sub[c].on
    BY <1>1, <2>1, Attached DEF IndInv
  <2>3. CompleteAt(c, i)
    BY <2>1, <2>2 DEF IndInv, EndIsComplete
  <2>4. stream'[i] = stream[i]
    BY <2>2, <2>3 DEF Grows, CompleteAt
  <2>q. QED BY <2>1, <2>2, <2>3, <2>4 DEF CompleteAt, Held, Taken
<1>q. QED BY <1>2, <1>3 DEF CursorSound, EndIsComplete

-----------------------------------------------------------------------------
(* The invariant, action by action.  The worker's two writes replace the   *)
(* run's object by a longer or an ended one and notify its readers.        *)
LEMMA WriteInv ==
  ASSUME IndInv, GetOrCreate, NotifyAll(Target),
         NEW st \in RunStream, Lockstep(st),
         stream' = [stream EXCEPT ![Target] = st],
         st.start_offset >= stream[Target].start_offset,
         st.start_offset + Len(st.events) = counter',
         counter' \in Nat, counter' >= counter,
         producer = "live", producer' \in {"live", "ended"},
         st.ended => producer' # "live",
         last' = last, shut' = shut
  PROVE  /\ IndInv' /\ Grows /\ SameReaders
         /\ Writes(st)
<1>1. TypeOK
  BY DEF IndInv
<1>2. PICK t : t = Target
  OBVIOUS
<1>3. /\ t \in Stream /\ t \in Nat /\ made \in Nat
      /\ made <= t /\ made' = t /\ present' = TRUE
      /\ Taken(t) = counter
  BY <1>2, TargetFacts
<1>4. ~stream[t].ended
  BY <1>3 DEF IndInv, Founded
<1>5. stream'[t] = st /\ \A i \in Stream : i # t => stream'[i] = stream[i]
  BY <1>1, <1>2, <1>3 DEF TypeOK
<1>6. Taken(t)' = counter'
  BY <1>5 DEF Taken
<1>7. ASSUME NEW i \in Stream
      PROVE  /\ stream'[i] \in RunStream
             /\ Lockstep(stream'[i])
             /\ stream'[i].start_offset >= stream[i].start_offset
             /\ Taken(i)' >= Taken(i)
             /\ stream[i].ended => stream'[i] = stream[i]
  <2>1. CASE i = t
    BY <1>2, <1>3, <1>4, <1>5, <1>6, <2>1
  <2>2. CASE i # t
    <3>1. stream'[i] = stream[i]
      BY <1>5, <2>2
    <3>2. Taken(i)' = Taken(i)
      BY <3>1 DEF Taken
    <3>3. Lockstep(stream[i])
      BY DEF IndInv, OffsetsMatchIds
    <3>q. QED BY <1>1, <3>1, <3>2, <3>3, Numbers
  <2>q. QED BY <2>1, <2>2
<1>8. Grows
  BY <1>7 DEF Grows
<1>9. SameReaders /\ sub' \in [Client -> Subscriber]
  BY <1>1, <1>2, <1>3, NotifyFacts
<1>10. TypeOK'
  <2>1. stream' \in [Stream -> RunStream]
    BY <1>1 DEF TypeOK
  <2>2. made' \in 0 .. MaxStreams
    BY <1>3, BoundAssumption DEF Stream
  <2>q. QED BY <1>1, <1>3, <1>9, <2>1, <2>2 DEF TypeOK
<1>11. Founded'
  <2>1. ASSUME NEW i \in Stream
        PROVE  /\ i > made' => stream'[i] = NewRunStream
               /\ stream'[i].ended => producer' # "live"
    <3>1. i \in Nat
      BY DEF Stream
    <3>2. CASE i = t
      BY <1>3, <1>5, <3>1, <3>2
    <3>3. CASE i # t
      BY <1>3, <1>5, <3>1, <3>3 DEF IndInv, Founded
    <3>q. QED BY <3>2, <3>3
  <2>2. ASSUME NEW c \in Client, sub'[c].pc # "off" PROVE sub'[c].on \in 1 .. made'
    <3>1. sub[c].on \in 1 .. made /\ sub'[c].on = sub[c].on
      BY <1>9, <2>2 DEF SameReaders, IndInv, Founded
    <3>q. QED BY <1>3, <3>1
  <2>3. ASSUME NEW c \in Client, NEW i \in Stream
        PROVE  /\ Held(c, i)' < Taken(i)'
               /\ last'[c].log = i => i <= made'
    <3>1. Held(c, i)' = Held(c, i)
      BY DEF Held
    <3>2. Held(c, i) < Taken(i) /\ (last[c].log = i => i <= made) /\ i \in Nat
      BY DEF IndInv, Founded, Stream
    <3>3. Held(c, i) \in Int /\ Taken(i) \in Nat
      BY <1>1, Numbers
    <3>4. Taken(i)' >= Taken(i) /\ Taken(i)' \in Nat
      BY <1>7 DEF Taken, RunStream
    <3>q. QED BY <1>3, <3>1, <3>2, <3>3, <3>4
  <2>q. QED BY <1>3, <2>1, <2>2, <2>3 DEF Founded
<1>12. OffsetsMatchIds'
  <2>1. Taken(made)' = counter'
    BY <1>3, <1>5 DEF Taken
  <2>q. QED BY <1>3, <1>7, <2>1 DEF OffsetsMatchIds
<1>13. CursorSound' /\ EndIsComplete'
  BY <1>8, <1>9, GrowthIsSound
<1>14. Writes(st)
  BY <1>3, <1>4, <1>5, <1>6 DEF Writes
<1>q. QED BY <1>8, <1>9, <1>10, <1>11, <1>12, <1>13, <1>14 DEF IndInv

LEMMA PublishInv ==
  ASSUME IndInv, Publish
  PROVE  /\ IndInv' /\ Grows /\ SameReaders
         /\ \E st : Writes(st) /\ ~st.ended
<1>1. PICK st : st = Retain(stream[Target], counter)
  OBVIOUS
<1>2. TypeOK /\ GetOrCreate /\ counter \in Nat
  BY DEF Publish, IndInv, TypeOK
<1>3. PICK t \in Stream : t = Target /\ Taken(t) = counter
  BY <1>2, TargetFacts
<1>4. /\ stream[t] \in RunStream
      /\ Lockstep(stream[t])
      /\ ~stream[t].ended
      /\ counter = stream[t].start_offset + Len(stream[t].events)
  BY <1>2, <1>3, Numbers DEF IndInv, OffsetsMatchIds, Founded, Publish
<1>5. /\ st \in RunStream
      /\ Lockstep(st)
      /\ st.ended = stream[t].ended
      /\ st.start_offset >= stream[t].start_offset
      /\ st.start_offset + Len(st.events) = counter + 1
  BY <1>1, <1>3, <1>4, RetainFacts
<1>6. stream' = [stream EXCEPT ![Target] = st]
  BY <1>1 DEF Publish
<1>7. /\ NotifyAll(Target) /\ counter' = counter + 1 /\ producer = "live"
      /\ producer' = "live" /\ last' = last /\ shut' = shut
  BY DEF Publish
<1>8. /\ counter' \in Nat /\ counter' >= counter
      /\ st.start_offset + Len(st.events) = counter'
      /\ st.start_offset >= stream[Target].start_offset
      /\ ~st.ended
  BY <1>2, <1>3, <1>4, <1>5, <1>7
<1>9. producer' \in {"live", "ended"} /\ (st.ended => producer' # "live")
  BY <1>7, <1>8
<1>q. QED BY ONLY IndInv, <1>2, <1>5, <1>6, <1>7, <1>8, <1>9, WriteInv

LEMMA PublishEndInv ==
  ASSUME IndInv, PublishEnd
  PROVE  /\ IndInv' /\ Grows /\ SameReaders
         /\ \E st : Writes(st) /\ st.ended
<1>1. PICK st : st = [stream[Target] EXCEPT !.ended = TRUE]
  OBVIOUS
<1>2. TypeOK /\ GetOrCreate /\ counter \in Nat
  BY DEF PublishEnd, IndInv, TypeOK
<1>3. PICK t \in Stream : t = Target /\ Taken(t) = counter
  BY <1>2, TargetFacts
<1>4. /\ stream[t] \in RunStream
      /\ Lockstep(stream[t])
      /\ stream[t].start_offset \in Nat
      /\ counter = stream[t].start_offset + Len(stream[t].events)
  BY <1>2, <1>3, Numbers DEF IndInv, OffsetsMatchIds
<1>5. /\ st \in RunStream
      /\ st.events = stream[t].events
      /\ st.start_offset = stream[t].start_offset
  BY <1>1, <1>3, <1>4 DEF RunStream
<1>11. st.ended
  BY <1>1, <1>3, <1>4 DEF RunStream
<1>6. Lockstep(st)
  BY <1>4, <1>5 DEF Lockstep
<1>7. stream' = [stream EXCEPT ![Target] = st]
  BY <1>1 DEF PublishEnd
<1>8. /\ NotifyAll(Target) /\ counter' = counter /\ producer = "live"
      /\ producer' = "ended" /\ last' = last /\ shut' = shut
  BY DEF PublishEnd
<1>9. /\ counter' \in Nat /\ counter' >= counter
      /\ st.start_offset + Len(st.events) = counter'
      /\ st.start_offset >= stream[Target].start_offset
  BY <1>2, <1>3, <1>4, <1>5, <1>8
<1>10. producer' \in {"live", "ended"} /\ (st.ended => producer' # "live")
  BY <1>8
<1>q. QED BY ONLY IndInv, <1>2, <1>5, <1>6, <1>7, <1>8, <1>9, <1>10, <1>11, WriteInv

(* The writes' frame: an operation that leaves the objects alone.          *)
LEMMA SameStreams ==
  ASSUME IndInv, stream' = stream
  PROVE  /\ Grows
         /\ \A i \in Stream : Taken(i)' = Taken(i)
         /\ \A i \in Stream : Lockstep(stream[i])' = Lockstep(stream[i])
         /\ \A i \in Stream : Lockstep(stream[i])
<1>1. \A i \in Stream : Taken(i)' = Taken(i) /\ Lockstep(stream[i])
  BY DEF Taken, IndInv, OffsetsMatchIds
<1>2. \A i \in Stream : /\ stream[i] \in RunStream
                        /\ stream[i].start_offset >= stream[i].start_offset
                        /\ Taken(i) >= Taken(i)
  BY Numbers DEF IndInv
<1>q. QED BY <1>1, <1>2 DEF Grows, Lockstep

LEMMA DropInv ==
  ASSUME IndInv, Cleanup \/ Close
  PROVE  IndInv' /\ Grows
<1>1. /\ stream' = stream /\ made' = made /\ sub' = sub /\ last' = last
      /\ present' = FALSE /\ counter' = 0
      /\ producer' \in {"live", "ended", "cleaned"} /\ shut' \in BOOLEAN
      /\ producer # "live" => producer' # "live"
  BY DEF Cleanup, Close, IndInv, TypeOK
<1>2. TypeOK'
  BY <1>1 DEF IndInv, TypeOK
<1>3. /\ Grows
      /\ \A i \in Stream : Taken(i)' = Taken(i) /\ Lockstep(stream[i])
  BY <1>1, SameStreams
<1>4. SameReaders
  BY <1>1 DEF SameReaders, Reading
<1>5. OffsetsMatchIds'
  BY <1>1, <1>3 DEF OffsetsMatchIds
<1>6. \A c \in Client, i \in Stream : Held(c, i)' = Held(c, i)
  BY <1>1 DEF Held
<1>7. Founded'
  BY <1>1, <1>3, <1>6 DEF IndInv, Founded
<1>8. CursorSound' /\ EndIsComplete'
  BY <1>1, <1>3, <1>4, GrowthIsSound
<1>q. QED BY <1>2, <1>3, <1>5, <1>7, <1>8 DEF IndInv

(* A reader's step moves its own generator and leaves the objects alone.   *)
LEMMA ReaderInv ==
  ASSUME IndInv, NEW c \in Client,
         stream' = stream, producer' = producer, shut' = shut,
         made' \in 0 .. MaxStreams, made' >= made, present' \in BOOLEAN,
         present' => made' \in Stream, counter' \in Nat,
         counter' = IF present' THEN Taken(made') ELSE 0,
         NEW s \in Subscriber, sub' = [sub EXCEPT ![c] = s],
         NEW l \in Id, last' = [last EXCEPT ![c] = l],
         s.pc # "off" => s.on \in 1 .. made',
         l.log <= made',
         \A i \in Stream : Held(c, i)' < Taken(i),
         s.pc \in {"ready", "waiting"} => SoundAt(c, s.on, s.next_offset)',
         s.pc = "done" => CompleteAt(c, s.on)'
  PROVE  IndInv'
<1>1. TypeOK
  BY DEF IndInv
<1>2. /\ sub'[c] = s /\ last'[c] = l
      /\ \A d \in Client : d # c => sub'[d] = sub[d] /\ last'[d] = last[d]
  BY <1>1 DEF TypeOK
<1>3. \A i \in Stream : Taken(i)' = Taken(i) /\ Lockstep(stream[i])
  BY DEF Taken, IndInv, OffsetsMatchIds
<1>4. TypeOK'
  BY <1>1 DEF TypeOK
<1>5. \A d \in Client : d # c => /\ Reading(d)' <=> Reading(d)
                                 /\ \A i \in Stream : Held(d, i)' = Held(d, i)
  BY <1>2 DEF Reading, Held
<1>6. made \in Int /\ made' \in Int
  BY <1>1, <1>4, BoundAssumption DEF TypeOK
<1>7. Founded'
  <2>1. ASSUME NEW i \in Stream
        PROVE  /\ i > made' => stream'[i] = NewRunStream
               /\ stream'[i].ended => producer' # "live"
    <3>1. i \in Int
      BY DEF Stream
    <3>2. i > made' => i > made
      BY <1>6, <3>1
    <3>q. QED BY <3>2 DEF IndInv, Founded
  <2>2. ASSUME NEW d \in Client, sub'[d].pc # "off" PROVE sub'[d].on \in 1 .. made'
    <3>1. CASE d = c
      BY <1>2, <2>2, <3>1
    <3>2. CASE d # c
      <4>1. sub[d].on \in 1 .. made
        BY <1>2, <2>2, <3>2 DEF IndInv, Founded
      <4>q. QED BY <1>2, <1>6, <3>2, <4>1
    <3>q. QED BY <3>1, <3>2
  <2>3. ASSUME NEW d \in Client, NEW i \in Stream
        PROVE  Held(d, i)' < Taken(i)' /\ (last'[d].log = i => i <= made')
    <3>1. CASE d = c
      BY <1>2, <1>3, <3>1
    <3>2. CASE d # c
      <4>1. Held(d, i) < Taken(i) /\ (last[d].log = i => i <= made) /\ i \in Int
        BY DEF IndInv, Founded, Stream
      <4>q. QED BY <1>2, <1>3, <1>5, <1>6, <3>2, <4>1
    <3>q. QED BY <3>1, <3>2
  <2>q. QED BY <2>1, <2>2, <2>3 DEF Founded
<1>8. OffsetsMatchIds'
  <2>1. counter' = IF present' THEN Taken(made)' ELSE 0
    BY <1>3 DEF Taken
  <2>q. QED BY <1>3, <2>1 DEF OffsetsMatchIds
<1>9. CursorSound'
  <2> SUFFICES ASSUME NEW d \in Client, Reading(d)'
      PROVE  SoundAt(d, sub[d].on, sub[d].next_offset)'
    BY DEF CursorSound
  <2>1. CASE d = c
    BY <1>2, <2>1 DEF Reading, SoundAt, Held, Taken
  <2>2. CASE d # c
    <3>1. SoundAt(d, sub[d].on, sub[d].next_offset) /\ sub'[d] = sub[d] /\ last'[d] = last[d]
      BY <1>2, <1>5, <2>2 DEF IndInv, CursorSound
    <3>q. QED BY <3>1 DEF SoundAt, Held, Taken
  <2>q. QED BY <2>1, <2>2
<1>10. EndIsComplete'
  <2> SUFFICES ASSUME NEW d \in Client, sub'[d].pc = "done"
      PROVE  CompleteAt(d, sub[d].on)'
    BY DEF EndIsComplete
  <2>1. CASE d = c
    BY <1>2, <2>1 DEF CompleteAt, Held, Taken
  <2>2. CASE d # c
    <3>1. CompleteAt(d, sub[d].on) /\ sub'[d] = sub[d] /\ last'[d] = last[d]
      BY <1>2, <2>2 DEF IndInv, EndIsComplete
    <3>q. QED BY <3>1 DEF CompleteAt, Held, Taken
  <2>q. QED BY <2>1, <2>2
<1>q. QED BY <1>4, <1>7, <1>8, <1>9, <1>10 DEF IndInv

(* Where a reader starts: after the event it names if that is retained, at *)
(* the oldest retained event otherwise, and never before one it names.     *)
LEMMA ResolveFacts ==
  ASSUME IndInv, NEW i \in Stream, NEW id \in Id, NEW h,
         h = IF id.log = i THEN id.seq ELSE -1, h < Taken(i)
  PROVE  /\ ResolveStartOffset(i, id) \in Nat
         /\ h < ResolveStartOffset(i, id)
         /\ ResolveStartOffset(i, id) <= Taken(i)
         /\ \/ ResolveStartOffset(i, id) = h + 1
            \/ ResolveStartOffset(i, id) <= stream[i].start_offset
<1>1. PICK o \in Nat, n \in Nat : /\ o = stream[i].start_offset
                                 /\ n = Len(stream[i].events)
                                 /\ Taken(i) = o + n
  BY Numbers DEF IndInv
<1>2. \A k \in 1 .. n : stream[i].events[k] = o + k - 1
  BY <1>1 DEF IndInv, OffsetsMatchIds, Lockstep
<1>3. PICK found : found = {k \in 1 .. Len(stream[i].events) :
                             id = [log |-> i, seq |-> stream[i].events[k]]}
  OBVIOUS
<1>4. ResolveStartOffset(i, id)
        = o + IF found = {} THEN 0 ELSE CHOOSE k \in found : TRUE
  BY <1>1, <1>3 DEF ResolveStartOffset
<1>5. h \in Int /\ h >= -1 /\ h < o + n
  BY <1>1, BoundAssumption DEF Id, NoId, Stream
<1>6. CASE found = {}
  <2>1. ResolveStartOffset(i, id) = o
    BY <1>1, <1>4, <1>6
  <2>2. h < o
    <3> SUFFICES ASSUME h >= o PROVE FALSE
      BY <1>1, <1>5
    <3>1. PICK k \in 1 .. n : o + k - 1 = h
      <4>1. o \in Nat /\ n \in Nat /\ h \in Int /\ h < o + n /\ h >= o
        BY <1>1, <1>5
      <4>2. h - o + 1 \in 1 .. n /\ o + (h - o + 1) - 1 = h
        BY ONLY <4>1
      <4>q. QED BY <4>2
    <3>2. id.log = i /\ id.seq = h
      BY <1>1, <1>5
    <3>3. id = [log |-> i, seq |-> h]
      BY <3>2 DEF Id, NoId
    <3>4. k \in found
      BY <1>1, <1>2, <1>3, <3>1, <3>3
    <3>q. QED BY <1>6, <3>4
  <2>q. QED BY <1>1, <2>1, <2>2
<1>7. CASE found # {}
  <2>1. PICK k \in found : k = CHOOSE j \in found : TRUE
    BY <1>7
  <2>2. k \in 1 .. n /\ id = [log |-> i, seq |-> stream[i].events[k]]
    <3>1. k \in found
      BY <2>1
    <3>q. QED BY <1>1, <1>3, <3>1
  <2>3. h = o + k - 1
    BY <1>2, <2>2
  <2>4. ResolveStartOffset(i, id) = o + k
    BY <1>4, <1>7, <2>1
  <2>5. o \in Nat /\ n \in Nat /\ k \in 1 .. n
    BY <1>1, <2>2
  <2>6. /\ o + k \in Nat
        /\ h < o + k
        /\ o + k <= o + n
        /\ o + k = h + 1
    BY ONLY <2>3, <2>5
  <2>q. QED BY <1>1, <2>4, <2>6
<1>q. QED BY <1>6, <1>7

(* What one turn of the loop works with.                                   *)
LEMMA TurnFacts ==
  ASSUME IndInv, NEW c \in Client, Reading(c), NEW i, i = sub[c].on,
         NEW r, r = Resumed(c)
  PROVE  /\ i \in Stream /\ i \in 1 .. made
         /\ r \in Nat
         /\ Held(c, i) < r
         /\ r <= Taken(i)
         /\ r = Held(c, i) + 1 \/ r = stream[i].start_offset
         /\ Available(c) => /\ r < Taken(i)
                            /\ stream[i].events[LocalIndex(c) + 1] = r
         /\ ~Available(c) => r = Taken(i)
<1>1. /\ TypeOK /\ sub[c].pc # "off"
      /\ sub[c] \in Subscriber
      /\ sub[c].on \in 1 .. made
  BY DEF IndInv, Reading, TypeOK, Founded
<1>2. i \in Stream /\ i \in 1 .. made
  BY <1>1, Attached DEF IndInv
<1>3. PICK o, m, n, h : /\ o = stream[i].start_offset
                        /\ m = Len(stream[i].events)
                        /\ n = sub[c].next_offset
                        /\ h = Held(c, i)
  OBVIOUS
<1>4. /\ o \in Nat /\ m \in Nat /\ n \in Nat /\ h \in Int
      /\ Taken(i) = o + m
  BY <1>1, <1>2, <1>3, Numbers DEF Subscriber
<1>5. h < n /\ n <= o + m /\ (n = h + 1 \/ n <= o)
  BY <1>3, <1>4 DEF IndInv, CursorSound, SoundAt
<1>6. r = IF n < o THEN o ELSE n
  BY <1>3 DEF Resumed
<1>7. /\ r \in Nat /\ h < r /\ r <= o + m /\ o <= r
      /\ r = h + 1 \/ r = o
  BY ONLY <1>4, <1>5, <1>6
<1>8. LocalIndex(c) = r - o /\ (Available(c) <=> r - o < m)
  BY <1>3 DEF LocalIndex, Available
<1>9. ASSUME Available(c)
      PROVE  r < Taken(i) /\ stream[i].events[LocalIndex(c) + 1] = r
  <2>1. r - o < m
    BY <1>8, <1>9
  <2>2. r - o + 1 \in 1 .. m /\ o + (r - o + 1) - 1 = r /\ r < o + m
    BY ONLY <1>4, <1>7, <2>1
  <2>3. \A k \in 1 .. m : stream[i].events[k] = o + k - 1
    BY <1>2, <1>3 DEF IndInv, OffsetsMatchIds, Lockstep
  <2>q. QED BY <1>4, <1>8, <2>2, <2>3
<1>10. ASSUME ~Available(c) PROVE r = Taken(i)
  <2>1. ~(r - o < m)
    BY <1>8, <1>10
  <2>2. r = o + m
    BY ONLY <1>4, <1>7, <2>1
  <2>q. QED BY <1>4, <2>2
<1>q. QED BY <1>2, <1>3, <1>4, <1>7, <1>9, <1>10

(* A stream that has taken an event retains one.                           *)
LEMMA NewestRetained ==
  ASSUME IndInv, NEW i \in Stream, Taken(i) > 0
  PROVE  stream[i].start_offset < Taken(i)
<1>1. PICK o, m : o = stream[i].start_offset /\ m = Len(stream[i].events)
  OBVIOUS
<1>2. o \in Nat /\ m \in Nat /\ Taken(i) = o + m
  BY <1>1, Numbers DEF IndInv
<1>3. o > 0 => m = MaxSize
  BY <1>1 DEF IndInv, OffsetsMatchIds, Lockstep
<1>4. MaxSize \in Nat /\ MaxSize > 0
  BY SizeAssumption
<1>5. o + m > 0 => o < o + m
  BY ONLY <1>2, <1>3, <1>4
<1>q. QED BY <1>1, <1>2, <1>5

LEMMA SubscribeInv ==
  ASSUME IndInv, NEW c \in Client, Subscribe(c) PROVE IndInv'
<1>1. PICK t, l : /\ t = Target
                  /\ l \in {NoId, last[c]}
                  /\ last' = [last EXCEPT ![c] = l]
                  /\ sub' = [sub EXCEPT ![c] =
                               [pc |-> "ready", on |-> t,
                                next_offset |-> ResolveStartOffset(t, l)]]
  BY DEF Subscribe
<1>2. /\ TypeOK /\ GetOrCreate /\ stream' = stream /\ counter' = counter
      /\ producer' = producer /\ shut' = shut
  BY DEF Subscribe, IndInv
<1>3. /\ t \in Stream /\ t \in Nat /\ made \in Nat
      /\ made <= t /\ made' = t /\ present' = TRUE
      /\ Taken(t) = counter
  BY <1>1, <1>2, TargetFacts
<1>4. l \in Id /\ last[c] \in Id
  BY <1>1, <1>2 DEF TypeOK, Id
<1>5. PICK h : h = IF l.log = t THEN l.seq ELSE -1
  OBVIOUS
<1>6. last'[c] = l /\ Held(c, t)' = h
  BY <1>1, <1>2, <1>5 DEF TypeOK, Held
<1>7. \A i \in Stream : Held(c, i)' < Taken(i)
  <2> SUFFICES ASSUME NEW i \in Stream PROVE Held(c, i)' < Taken(i)
    OBVIOUS
  <2>1. CASE l = last[c]
    BY <1>6, <2>1 DEF Held, IndInv, Founded
  <2>2. CASE l = NoId
    <3>1. Held(c, i)' = -1
      BY <1>6, <2>2 DEF Held, NoId, Stream
    <3>q. QED BY <1>2, <3>1, Numbers
  <2>q. QED BY <1>1, <2>1, <2>2
<1>8. l.log <= made'
  <2>1. CASE l = NoId
    BY <1>3, <2>1 DEF NoId
  <2>2. CASE l = last[c] /\ l # NoId
    <3>1. l.log \in Stream
      BY <1>4, <2>2 DEF Id
    <3>2. l.log <= made
      BY <2>2, <3>1 DEF IndInv, Founded
    <3>q. QED BY <1>3, <3>1, <3>2 DEF Stream
  <2>q. QED BY <1>1, <2>1, <2>2
<1>9. PICK n : n = ResolveStartOffset(t, l)
  OBVIOUS
<1>10. /\ n \in Nat /\ h < n /\ n <= Taken(t)
       /\ n = h + 1 \/ n <= stream[t].start_offset
  BY <1>3, <1>4, <1>5, <1>6, <1>7, <1>9, ResolveFacts
<1>11. PICK s : s = [pc |-> "ready", on |-> t, next_offset |-> n]
  OBVIOUS
<1>12. /\ s \in Subscriber /\ sub' = [sub EXCEPT ![c] = s]
       /\ s.pc = "ready" /\ s.on = t /\ s.next_offset = n
  BY <1>1, <1>3, <1>9, <1>10, <1>11 DEF Subscriber
<1>13. SoundAt(c, t, n)'
  BY <1>2, <1>6, <1>10 DEF SoundAt, Taken
<1>14. SoundAt(c, s.on, s.next_offset)'
  BY <1>12, <1>13
<1>15. s.on \in 1 .. made' /\ made' \in 0 .. MaxStreams /\ made' >= made
  BY <1>3, <1>12 DEF Stream
<1>16. counter' \in Nat /\ counter' = IF present' THEN Taken(made') ELSE 0
  BY <1>2, <1>3 DEF TypeOK
<1>17. present' \in BOOLEAN /\ made' \in Stream
  BY <1>3
<1>q. QED BY ONLY IndInv, c \in Client, <1>1, <1>2, <1>4, <1>7, <1>8, <1>12, <1>14, <1>15, <1>16, <1>17, ReaderInv

(* What a reader's step leaves alone once it is subscribed.                *)
LEMMA ReaderFrame ==
  ASSUME IndInv, NEW c \in Client,
         Turn(c) \/ Heartbeat(c) \/ Disconnect(c)
  PROVE  /\ stream' = stream /\ producer' = producer /\ shut' = shut
         /\ made' = made /\ present' = present /\ counter' = counter
         /\ made' \in 0 .. MaxStreams /\ made' >= made /\ present' \in BOOLEAN
         /\ present' => made' \in Stream
         /\ counter' \in Nat
         /\ counter' = IF present' THEN Taken(made') ELSE 0
         /\ Reading(c) /\ sub[c] \in Subscriber /\ last[c] \in Id
         /\ last[c].log <= made
         /\ \A i \in Stream : Held(c, i) < Taken(i)
<1>1. /\ stream' = stream /\ producer' = producer /\ shut' = shut
      /\ made' = made /\ present' = present /\ counter' = counter
      /\ Reading(c)
  BY DEF Turn, Deliver, DeliverEnd, Wait, Heartbeat, Disconnect, Reading
<1>2. /\ made \in 0 .. MaxStreams /\ present \in BOOLEAN
      /\ counter \in Nat
      /\ sub[c] \in Subscriber /\ last[c] \in Id
  BY DEF IndInv, TypeOK
<1>3. present => made \in Stream
  BY DEF IndInv, Founded
<1>4. counter = IF present THEN Taken(made) ELSE 0
  BY DEF IndInv, OffsetsMatchIds
<1>5. \A i \in Stream : Held(c, i) < Taken(i)
  BY DEF IndInv, Founded
<1>6. last[c].log <= made
  <2>1. CASE last[c] = NoId
    BY <1>2, <2>1, BoundAssumption DEF NoId
  <2>2. CASE last[c] # NoId
    BY <1>2, <2>2 DEF Id, IndInv, Founded
  <2>q. QED BY <2>1, <2>2
<1>7. made >= made
  BY <1>2, BoundAssumption
<1>q. QED BY <1>1, <1>2, <1>3, <1>4, <1>5, <1>6, <1>7

LEMMA DeliverInv ==
  ASSUME IndInv, NEW c \in Client, Deliver(c)
  PROVE  /\ IndInv'
         /\ last'[c].log = sub[c].on
         /\ last'[c].seq = Resumed(c)
<1>1. PICK i, r : i = sub[c].on /\ r = Resumed(c)
  OBVIOUS
<1>2. Turn(c)
  BY DEF Turn
<1>3. Reading(c)
  BY <1>2, ReaderFrame
<1>4. /\ i \in Stream /\ i \in 1 .. made
      /\ r \in Nat /\ r < Taken(i)
      /\ stream[i].events[LocalIndex(c) + 1] = r
  BY <1>1, <1>3, TurnFacts DEF Deliver
<1>5. PICK s, l : s = [sub[c] EXCEPT !.next_offset = r + 1] /\ l = [log |-> i, seq |-> r]
  OBVIOUS
<1>6. sub' = [sub EXCEPT ![c] = s] /\ last' = [last EXCEPT ![c] = l]
  BY <1>1, <1>4, <1>5 DEF Deliver
<1>7. TypeOK
  BY DEF IndInv
<1>8. last'[c] = l
  BY <1>6, <1>7 DEF TypeOK
<1>9. l \in Id /\ l.log = i /\ l.seq = r
  BY <1>4, <1>5 DEF Id
<1>10. /\ s \in Subscriber
       /\ s.pc = sub[c].pc /\ s.on = i /\ s.next_offset = r + 1
  BY <1>1, <1>2, <1>4, <1>5, ReaderFrame DEF Subscriber
<1>11. s.pc = "ready"
  BY <1>10 DEF Deliver
<1>12. \A j \in Stream : Held(c, j)' = IF j = i THEN r ELSE -1
  BY <1>8, <1>9 DEF Held
<1>13. \A j \in Stream : Held(c, j)' < Taken(j)
  <2> TAKE j \in Stream
  <2>1. Taken(j) \in Nat
    BY <1>7, Numbers
  <2>q. QED BY <1>4, <1>12, <2>1
<1>14. SoundAt(c, i, r + 1)'
  <2>1. Held(c, i)' = r /\ Taken(i)' = Taken(i) /\ Taken(i) \in Nat
    BY <1>2, <1>4, <1>7, <1>12, ReaderFrame, Numbers DEF Taken
  <2>q. QED BY <1>4, <2>1 DEF SoundAt
<1>15. SoundAt(c, s.on, s.next_offset)'
  BY <1>10, <1>14
<1>16. (s.on \in 1 .. made') /\ (l.log <= made')
  BY <1>2, <1>4, <1>9, <1>10, ReaderFrame DEF IndInv, TypeOK
<1>17. IndInv'
  BY ONLY IndInv, c \in Client, <1>2, <1>6, <1>9, <1>10, <1>11, <1>13, <1>15, <1>16, ReaderFrame, ReaderInv
<1>q. QED BY <1>1, <1>8, <1>9, <1>17

(* A reader that waits, wakes, ends or leaves keeps what it holds.         *)
LEMMA KeepInv ==
  ASSUME IndInv, NEW c \in Client,
         DeliverEnd(c) \/ Wait(c) \/ Heartbeat(c) \/ Disconnect(c)
  PROVE  IndInv'
<1>1. PICK i, r : i = sub[c].on /\ r = Resumed(c)
  OBVIOUS
<1>2. Turn(c) \/ Heartbeat(c) \/ Disconnect(c)
  BY DEF Turn
<1>3. Reading(c) /\ TypeOK
  BY <1>2, ReaderFrame DEF IndInv
<1>4. /\ i \in Stream /\ i \in 1 .. made
      /\ r \in Nat
      /\ Held(c, i) < r
      /\ r <= Taken(i)
      /\ r = Held(c, i) + 1 \/ r = stream[i].start_offset
      /\ ~Available(c) => r = Taken(i)
  BY <1>1, <1>3, TurnFacts
<1>5. /\ stream[i].start_offset \in Nat /\ Taken(i) \in Nat
      /\ Held(c, i) \in Int /\ Held(c, i) >= -1
  BY <1>3, <1>4, Numbers
<1>6. last' = last
  BY DEF DeliverEnd, Wait, Heartbeat, Disconnect
<1>7. /\ last' = [last EXCEPT ![c] = last[c]]
      /\ \A j \in Stream : Held(c, j)' = Held(c, j) /\ Taken(j)' = Taken(j)
      /\ stream' = stream
  BY <1>2, <1>3, <1>6, ReaderFrame DEF TypeOK, Held, Taken
<1>8. SoundAt(c, i, r)'
  BY <1>4, <1>5, <1>7 DEF SoundAt
<1>9. SoundAt(c, i, sub[c].next_offset)
  BY <1>1, <1>3 DEF IndInv, CursorSound
<1>10. PICK s : sub' = [sub EXCEPT ![c] = s] /\ s \in Subscriber
                /\ (s.pc # "off" => s.on = i)
                /\ (s.pc \in {"ready", "waiting"} => s.next_offset \in {r, sub[c].next_offset})
                /\ (s.pc = "done" => DeliverEnd(c))
  <2>0. sub[c] \in Subscriber
    BY <1>2, ReaderFrame
  <2>1. CASE DeliverEnd(c)
    <3>1. PICK s : s = [sub[c] EXCEPT !.pc = "done", !.next_offset = r]
      OBVIOUS
    <3>2. sub' = [sub EXCEPT ![c] = s]
      BY <1>1, <2>1, <3>1 DEF DeliverEnd
    <3>3. s \in Subscriber /\ s.on = i /\ s.pc = "done"
      BY <1>1, <1>4, <2>0, <3>1 DEF Subscriber
    <3>q. QED BY <2>1, <3>2, <3>3
  <2>2. CASE Wait(c)
    <3>1. PICK s : s = [sub[c] EXCEPT !.pc = "waiting", !.next_offset = r]
      OBVIOUS
    <3>2. sub' = [sub EXCEPT ![c] = s]
      BY <1>1, <2>2, <3>1 DEF Wait
    <3>3. s \in Subscriber /\ s.on = i /\ s.pc = "waiting" /\ s.next_offset = r
      BY <1>1, <1>4, <2>0, <3>1 DEF Subscriber
    <3>q. QED BY <3>2, <3>3
  <2>3. CASE Heartbeat(c)
    <3>1. PICK s : s = [sub[c] EXCEPT !.pc = "ready"]
      OBVIOUS
    <3>2. sub' = [sub EXCEPT ![c] = s]
      BY <2>3, <3>1 DEF Heartbeat
    <3>3. /\ s \in Subscriber /\ s.on = i /\ s.pc = "ready"
          /\ s.next_offset = sub[c].next_offset
      BY <1>1, <2>0, <3>1 DEF Subscriber
    <3>q. QED BY <3>2, <3>3
  <2>4. CASE Disconnect(c)
    <3>1. sub' = [sub EXCEPT ![c] = Unsubscribed]
      BY <2>4 DEF Disconnect
    <3>2. Unsubscribed \in Subscriber /\ Unsubscribed.pc = "off"
      BY DEF Unsubscribed, Subscriber
    <3>q. QED BY <3>1, <3>2
  <2>q. QED BY <2>1, <2>2, <2>3, <2>4
<1>11. s.pc \in {"ready", "waiting"} => SoundAt(c, s.on, s.next_offset)'
  <2> SUFFICES ASSUME s.pc \in {"ready", "waiting"}
      PROVE  SoundAt(c, s.on, s.next_offset)'
    OBVIOUS
  <2>1. s.on = i /\ s.next_offset \in {r, sub[c].next_offset}
    BY <1>10
  <2>2. CASE s.next_offset = r
    BY <1>8, <2>1, <2>2
  <2>3. CASE s.next_offset = sub[c].next_offset
    BY <1>4, <1>7, <1>9, <2>1, <2>3 DEF SoundAt
  <2>q. QED BY <2>1, <2>2, <2>3
<1>12. s.pc = "done" => CompleteAt(c, s.on)'
  <2> SUFFICES ASSUME s.pc = "done" PROVE CompleteAt(c, s.on)'
    OBVIOUS
  <2>1. s.on = i /\ DeliverEnd(c)
    BY <1>10
  <2>2. r = Taken(i) /\ stream[i].ended
    BY <1>1, <1>4, <2>1 DEF DeliverEnd
  <2>3. Held(c, i) = Taken(i) - 1
    <3>1. CASE r = Held(c, i) + 1
      BY <1>5, <2>2, <3>1
    <3>2. CASE r = stream[i].start_offset
      <4>1. ~(Taken(i) > 0)
        <5>1. Taken(i) > 0 => stream[i].start_offset < Taken(i)
          BY <1>4, NewestRetained
        <5>2. stream[i].start_offset = Taken(i)
          BY <2>2, <3>2
        <5>q. QED BY <1>5, <5>1, <5>2
      <4>q. QED BY <1>4, <1>5, <2>2, <4>1
    <3>q. QED BY <1>4, <3>1, <3>2
  <2>q. QED BY <1>4, <1>7, <2>1, <2>2, <2>3 DEF CompleteAt
<1>13. s.pc # "off" => s.on \in 1 .. made'
  BY <1>2, <1>4, <1>10, ReaderFrame
<1>14. last[c].log <= made'
  BY <1>2, ReaderFrame
<1>15. \A j \in Stream : Held(c, j)' < Taken(j)
  BY <1>2, <1>7, ReaderFrame
<1>q. QED BY ONLY IndInv, c \in Client, <1>2, <1>7, <1>10, <1>11, <1>12, <1>13, <1>14, <1>15, ReaderFrame, ReaderInv

-----------------------------------------------------------------------------
LEMMA InitInv == Init => IndInv
<1> SUFFICES ASSUME Init PROVE IndInv
  OBVIOUS
<1>1. \A i \in Stream : stream[i] = NewRunStream
  BY DEF Init
<1>2. \A i \in Stream : Taken(i) = 0 /\ Lockstep(stream[i]) /\ ~stream[i].ended
  BY <1>1, SizeAssumption DEF Taken, Lockstep, NewRunStream
<1>3. NewRunStream \in RunStream
  BY DEF NewRunStream, RunStream
<1>4. \A c \in Client : sub[c] = Unsubscribed /\ last[c] = NoId
  BY DEF Init
<1>5. \A c \in Client : /\ sub[c].pc = "off"
                        /\ \A i \in Stream : Held(c, i) = -1 /\ last[c].log # i
  <2>1. ASSUME NEW c \in Client, NEW i \in Stream PROVE last[c].log # i
    BY <1>4 DEF NoId, Stream
  <2>2. ASSUME NEW c \in Client, NEW i \in Stream PROVE Held(c, i) = -1
    BY <2>1 DEF Held
  <2>3. ASSUME NEW c \in Client PROVE sub[c].pc = "off"
    <3>1. sub[c] = Unsubscribed
      BY <1>4
    <3>2. Unsubscribed.pc = "off"
      BY DEF Unsubscribed
    <3>q. QED BY <3>1, <3>2
  <2>q. QED BY <2>1, <2>2, <2>3
<1>6. TypeOK
  <2>1. Unsubscribed \in Subscriber /\ NoId \in Id
    BY DEF Unsubscribed, Subscriber, NoId, Id
  <2>2. stream \in [Stream -> RunStream]
    BY <1>3 DEF Init
  <2>3. sub \in [Client -> Subscriber] /\ last \in [Client -> Id]
    BY <2>1 DEF Init
  <2>4. made \in 0 .. MaxStreams
    BY BoundAssumption DEF Init
  <2>q. QED BY <2>2, <2>3, <2>4 DEF Init, TypeOK
<1>7. Founded
  BY <1>1, <1>2, <1>5 DEF Founded, Init
<1>8. OffsetsMatchIds
  BY <1>2 DEF OffsetsMatchIds, Init
<1>9. CursorSound /\ EndIsComplete
  BY <1>5 DEF CursorSound, EndIsComplete, Reading
<1>q. QED BY <1>6, <1>7, <1>8, <1>9 DEF IndInv

LEMMA StutterInv == ASSUME IndInv, UNCHANGED vars PROVE IndInv'
<1>1. TypeOK'
  BY DEF IndInv, TypeOK, vars
<1>2. Founded'
  BY DEF IndInv, Founded, vars, Held, Taken
<1>3. OffsetsMatchIds'
  BY DEF IndInv, OffsetsMatchIds, Lockstep, vars, Taken
<1>4. CursorSound'
  BY DEF IndInv, CursorSound, SoundAt, vars, Held, Taken, Reading
<1>5. EndIsComplete'
  BY DEF IndInv, EndIsComplete, CompleteAt, vars, Held, Taken
<1>q. QED BY <1>1, <1>2, <1>3, <1>4, <1>5 DEF IndInv

(* Every step preserves the invariant and lets objects only grow.          *)
LEMMA StepInv == ASSUME IndInv, [Next]_vars PROVE IndInv' /\ Grows
<1>1. CASE Publish
  BY <1>1, PublishInv
<1>2. CASE PublishEnd
  BY <1>2, PublishEndInv
<1>3. CASE Cleanup \/ Close
  BY <1>3, DropInv
<1>4. CASE \E c \in Client : Reader(c)
  <2>1. PICK c \in Client : Reader(c)
    BY <1>4
  <2>2. IndInv'
    <3>1. CASE Subscribe(c)
      BY <3>1, SubscribeInv
    <3>2. CASE Deliver(c)
      BY <3>2, DeliverInv
    <3>3. CASE DeliverEnd(c) \/ Wait(c) \/ Heartbeat(c) \/ Disconnect(c)
      BY <3>3, KeepInv
    <3>q. QED BY <2>1, <3>1, <3>2, <3>3 DEF Reader, Turn
  <2>3. stream' = stream
    BY <2>1 DEF Reader, Turn, Subscribe, Deliver, DeliverEnd, Wait, Heartbeat, Disconnect
  <2>4. Grows
    BY <2>3, SameStreams
  <2>q. QED BY <2>2, <2>4
<1>5. CASE UNCHANGED vars
  <2>1. stream' = stream
    BY <1>5 DEF vars
  <2>q. QED BY <1>5, <2>1, StutterInv, SameStreams
<1>q. QED BY <1>1, <1>2, <1>3, <1>4, <1>5 DEF Next, Worker

(* The inductive invariant holds in every reachable state.                 *)
THEOREM Invariance == Spec => []IndInv
<1>1. Init => IndInv
  BY InitInv
<1>2. IndInv /\ [Next]_vars => IndInv'
  BY StepInv
<1>q. QED BY <1>1, <1>2, PTL DEF Spec

(* Every variable keeps its type, for any readers and any bounds.          *)
THEOREM TypeCorrect == Spec => []TypeOK
<1>1. IndInv => TypeOK
  BY DEF IndInv
<1>q. QED BY <1>1, Invariance, PTL

(* Ids, offsets and retained events never drift apart (publish, cleanup).  *)
THEOREM OffsetsCorrect == Spec => []OffsetsMatchIds
<1>1. IndInv => OffsetsMatchIds
  BY DEF IndInv
<1>q. QED BY <1>1, Invariance, PTL

(* No reader's offset runs past the log or back over what the client       *)
(* holds, whatever it subscribed with (subscribe, _resolve_start_offset).  *)
THEOREM CursorCorrect == Spec => []CursorSound
<1>1. IndInv => CursorSound
  BY DEF IndInv
<1>q. QED BY <1>1, Invariance, PTL

(* END_SENTINEL is only sent to a client that holds the newest event.      *)
THEOREM EndCorrect == Spec => []EndIsComplete
<1>1. IndInv => EndIsComplete
  BY DEF IndInv
<1>q. QED BY <1>1, Invariance, PTL

(* No step shortens, reopens or extends an ended stream object.            *)
THEOREM AppendOnlyCorrect == Spec => AppendOnly
<1>1. IndInv /\ [Next]_vars =>
        [\A i \in Stream : /\ Taken(i)' >= Taken(i)
                           /\ stream[i].ended => stream'[i] = stream[i]]_vars
  BY StepInv DEF Grows
<1>q. QED BY <1>1, Invariance, PTL DEF Spec, AppendOnly

(* Events reach a client in order, and only evicted ones are skipped.      *)
THEOREM DeliveryCorrect == Spec => InOrderNoSkip
<1>1. ASSUME IndInv, [Next]_vars, NEW c \in Client,
             Reading(c), last'[c] # last[c]
      PROVE  LET i == sub[c].on
             IN  /\ last'[c].log = i
                 /\ last'[c].seq > Held(c, i)
                 /\ \A n \in Held(c, i) + 1 .. last'[c].seq - 1 :
                      n < stream[i].start_offset
  <2>1. Deliver(c)
    <3>1. TypeOK
      BY <1>1 DEF IndInv
    <3>2. PICK d \in Client : Reader(d)
      BY <1>1 DEF Next, vars, Worker, Publish, PublishEnd, Cleanup, Close
    <3>3. d = c
      BY <1>1, <3>1, <3>2 DEF Reader, Turn, Subscribe, Deliver, DeliverEnd, Wait,
                              Heartbeat, Disconnect, TypeOK
    <3>q. QED BY <1>1, <3>2, <3>3 DEF Reader, Turn, Subscribe, DeliverEnd, Wait,
                                      Heartbeat, Disconnect, Reading
  <2>2. PICK i, r : i = sub[c].on /\ r = Resumed(c)
    OBVIOUS
  <2>3. last'[c].log = i /\ last'[c].seq = r
    BY <1>1, <2>1, <2>2, DeliverInv
  <2>4. /\ i \in Stream /\ r \in Nat /\ Held(c, i) < r
        /\ r = Held(c, i) + 1 \/ r = stream[i].start_offset
    BY <1>1, <2>2, TurnFacts
  <2>5. Held(c, i) \in Int /\ stream[i].start_offset \in Nat
    BY <1>1, <2>4, Numbers DEF IndInv
  <2>6. \A n \in Held(c, i) + 1 .. r - 1 : n < stream[i].start_offset
    BY <2>4, <2>5
  <2>q. QED BY <2>2, <2>3, <2>4, <2>5, <2>6
<1>2. IndInv /\ [Next]_vars =>
        [\A c \in Client : (Reading(c) /\ last'[c] # last[c]) =>
           LET i == sub[c].on
           IN  /\ last'[c].log = i
               /\ last'[c].seq > Held(c, i)
               /\ \A n \in Held(c, i) + 1 .. last'[c].seq - 1 :
                    n < stream[i].start_offset]_vars
  BY <1>1
<1>q. QED BY <1>2, Invariance, PTL DEF Spec, InOrderNoSkip

-----------------------------------------------------------------------------
(* The bridge implements the event log.                                    *)
LEMMA SameLogReaders ==
  ASSUME TypeOK, SameReaders, last' = last
  PROVE  [c \in Client |-> [state |-> IF Reading(c) THEN "on" ELSE sub[c].pc,
                            log   |-> sub[c].on,
                            last  |-> last[c]]]'
         = [c \in Client |-> [state |-> IF Reading(c) THEN "on" ELSE sub[c].pc,
                              log   |-> sub[c].on,
                              last  |-> last[c]]]
<1>1. ASSUME NEW c \in Client
      PROVE  /\ (IF Reading(c) THEN "on" ELSE sub[c].pc)'
                  = IF Reading(c) THEN "on" ELSE sub[c].pc
             /\ sub'[c].on = sub[c].on
  BY DEF SameReaders, Reading, TypeOK, Subscriber
<1>q. QED BY <1>1

(* MemoryStreamBridge keeps what EventLog promises: every step of the      *)
(* bridge is a step of the log, or changes nothing of it.                  *)
THEOREM Refinement == Spec => ImplementsEventLog
<1> DEFINE produced == [i \in Stream |-> Taken(i)]
           sealed == {i \in Stream : stream[i].ended}
           state(c) == IF Reading(c) THEN "on" ELSE sub[c].pc
           reader == [c \in Client |-> [state |-> state(c), log |-> sub[c].on, last |-> last[c]]]
<1>1. Init => LogOf!LogInit
  <2> SUFFICES ASSUME Init PROVE LogOf!LogInit
    OBVIOUS
  <2>1. produced = [i \in Stream |-> 0]
    BY DEF Init, Taken, NewRunStream
  <2>2. sealed = {}
    BY DEF Init, NewRunStream
  <2>3. reader = [c \in Client |-> [state |-> "off", log |-> 0, last |-> LogOf!NoEvent]]
    BY DEF Init, Unsubscribed, Reading, NoId, LogOf!NoEvent
  <2>q. QED BY <2>1, <2>2, <2>3 DEF LogOf!LogInit
<1>2. IndInv /\ [Next]_vars => [LogOf!LogNext]_(LogOf!logVars)
  <2> SUFFICES ASSUME IndInv, [Next]_vars PROVE [LogOf!LogNext]_(LogOf!logVars)
    OBVIOUS
  <2>0. TypeOK
    BY DEF IndInv
  <2>1. CASE Publish
    <3>1. /\ SameReaders /\ last' = last
          /\ counter' = counter + 1
      BY <2>1, PublishInv DEF Publish
    <3>2. PICK t \in Stream : /\ Taken(t)' = Taken(t) + 1
                              /\ ~stream[t].ended /\ ~stream'[t].ended
                              /\ \A i \in Stream : i # t => stream'[i] = stream[i]
      BY <2>1, <3>1, PublishInv DEF Writes
    <3>3. reader' = reader
      BY <2>0, <3>1, SameLogReaders
    <3>4. sealed' = sealed /\ t \notin sealed
      BY <3>2
    <3>5. produced' = [produced EXCEPT ![t] = @ + 1]
      BY <3>2 DEF Taken
    <3>q. QED BY <3>2, <3>3, <3>4, <3>5 DEF LogOf!LogNext, LogOf!Append1
  <2>2. CASE PublishEnd
    <3>1. /\ SameReaders /\ last' = last
          /\ counter' = counter
      BY <2>2, PublishEndInv DEF PublishEnd
    <3>2. PICK t \in Stream : /\ Taken(t)' = Taken(t)
                              /\ stream'[t].ended
                              /\ \A i \in Stream : i # t => stream'[i] = stream[i]
      BY <2>2, <3>1, PublishEndInv DEF Writes
    <3>3. reader' = reader
      BY <2>0, <3>1, SameLogReaders
    <3>4. sealed' = sealed \cup {t}
      BY <3>2
    <3>5. produced' = produced
      BY <3>2 DEF Taken
    <3>q. QED BY <3>2, <3>3, <3>4, <3>5 DEF LogOf!LogNext, LogOf!Seal
  <2>3. ASSUME stream' = stream
        PROVE  produced' = produced /\ sealed' = sealed
    BY <2>3 DEF Taken
  <2>4. CASE Cleanup \/ Close \/ UNCHANGED vars
    <3>1. stream' = stream /\ sub' = sub /\ last' = last
      BY <2>4 DEF Cleanup, Close, vars
    <3>2. reader' = reader
      BY <3>1 DEF Reading
    <3>q. QED BY <2>3, <3>1, <3>2 DEF LogOf!logVars
  <2>5. ASSUME NEW c \in Client, Reader(c)
        PROVE  LogOf!LogNext \/ UNCHANGED LogOf!logVars
    <3>1. stream' = stream
      BY <2>5 DEF Reader, Turn, Subscribe, Deliver, DeliverEnd, Wait, Heartbeat, Disconnect
    <3>2. \A d \in Client : sub[d] \in Subscriber /\ reader[d].state = state(d)
      BY <2>0 DEF TypeOK
    <3>3. reader' = [reader EXCEPT ![c] = reader'[c]]
      <4>1. \A d \in Client : d # c => sub'[d] = sub[d] /\ last'[d] = last[d]
        BY <2>0, <2>5 DEF TypeOK, Reader, Turn, Subscribe, Deliver, DeliverEnd, Wait,
                          Heartbeat, Disconnect
      <4>2. \A d \in Client : d # c => reader'[d] = reader[d]
        BY <4>1 DEF Reading
      <4>q. QED BY <4>2
    <3>4. CASE Subscribe(c)
      <4>1. PICK t, l : /\ t = Target
                        /\ l \in {NoId, last[c]}
                        /\ last' = [last EXCEPT ![c] = l]
                        /\ sub' = [sub EXCEPT ![c] =
                                     [pc |-> "ready", on |-> t,
                                      next_offset |-> ResolveStartOffset(t, l)]]
        BY <3>4 DEF Subscribe
      <4>2. t \in Stream
        BY <3>4, <4>1, TargetFacts DEF Subscribe
      <4>3. sub'[c].pc = "ready" /\ sub'[c].on = t /\ last'[c] = l
        BY <2>0, <4>1 DEF TypeOK
      <4>4. reader'[c] = [state |-> "on", log |-> t, last |-> l]
        BY <4>3 DEF Reading
      <4>5. reader[c].state # "on" /\ l \in {LogOf!NoEvent, reader[c].last}
        BY <3>4, <4>1 DEF Subscribe, Reading, NoId, LogOf!NoEvent
      <4>6. LogOf!Attach(c, t)
        BY <2>3, <3>1, <3>3, <4>4, <4>5 DEF LogOf!Attach
      <4>q. QED BY <4>2, <4>6 DEF LogOf!LogNext
    <3>5. CASE Disconnect(c)
      <4>1. sub'[c] = Unsubscribed /\ last'[c] = last[c]
        BY <2>0, <3>5 DEF Disconnect, TypeOK
      <4>2. reader'[c] = [state |-> "off", log |-> 0, last |-> last[c]]
        BY <4>1 DEF Unsubscribed, Reading
      <4>3. reader[c] = [state |-> "on", log |-> sub[c].on, last |-> last[c]]
        BY <3>5 DEF Disconnect, Reading
      <4>4. reader' = [reader EXCEPT ![c] =
                               [state |-> "off", log |-> 0, last |-> reader[c].last]]
        <5>1. reader[c].last = last[c]
          BY <4>3
        <5> HIDE DEF reader
        <5>q. QED BY <3>3, <4>2, <5>1
      <4>5. LogOf!Detach(c)
        BY <2>3, <3>1, <4>3, <4>4 DEF LogOf!Detach
      <4>q. QED BY <4>5 DEF LogOf!LogNext
    <3>6. CASE Wait(c) \/ Heartbeat(c)
      <4>1. last' = last /\ SameReaders
        BY <2>0, <3>6 DEF Wait, Heartbeat, SameReaders, Reading, TypeOK, Subscriber
      <4>2. reader' = reader
        BY <2>0, <4>1, SameLogReaders
      <4>q. QED BY <2>3, <3>1, <4>2 DEF LogOf!logVars
    <3>7. CASE Deliver(c)
      <4>1. PICK i, r : i = sub[c].on /\ r = Resumed(c)
        OBVIOUS
      <4>2. /\ i \in Stream /\ r \in Nat /\ Held(c, i) < r /\ r < Taken(i)
            /\ stream[i].events[LocalIndex(c) + 1] = r
        BY <3>7, <4>1, TurnFacts DEF Deliver, Reading
      <4>3. sub'[c].pc = "ready" /\ sub'[c].on = i /\ last'[c] = [log |-> i, seq |-> r]
        BY <2>0, <3>2, <3>7, <4>1, <4>2 DEF Deliver, TypeOK, Subscriber
      <4>4. reader[c] = [state |-> "on", log |-> i, last |-> last[c]]
        BY <3>7, <4>1 DEF Deliver, Reading
      <4>5. reader'[c] = [state |-> "on", log |-> i, last |-> [log |-> i, seq |-> r]]
        BY <4>3 DEF Reading
      <4>6. reader' = [reader EXCEPT ![c].last = [log |-> i, seq |-> r]]
        <5> HIDE DEF reader
        <5>q. QED BY <3>3, <4>4, <4>5
      <4>7. r \in Held(c, i) + 1 .. Taken(i) - 1
        BY <2>0, <4>2, Numbers
      <4>8. LogOf!HeldOf(reader[c].last, i) = Held(c, i) /\ produced[i] = Taken(i)
        BY <4>2, <4>4 DEF LogOf!HeldOf, Held
      <4>9. reader[c].log = i /\ reader[c].state = "on"
        BY <4>4
      <4>10. LogOf!Receive(c)
        <5> HIDE DEF reader, produced, sealed
        <5>q. QED BY <2>3, <3>1, <4>6, <4>7, <4>8, <4>9 DEF LogOf!Receive, reader, produced, sealed
      <4>q. QED BY <4>10 DEF LogOf!LogNext
    <3>8. CASE DeliverEnd(c)
      <4>1. PICK i : i = sub[c].on
        OBVIOUS
      <4>2. i \in Stream /\ stream[i].ended
        BY <3>8, <4>1, TurnFacts DEF DeliverEnd, Reading
      <4>3. sub'[c].pc = "done" /\ sub'[c].on = i /\ last' = last
        BY <2>0, <3>2, <3>8, <4>1 DEF DeliverEnd, TypeOK, Subscriber
      <4>4. reader[c] = [state |-> "on", log |-> i, last |-> last[c]]
        BY <3>8, <4>1 DEF DeliverEnd, Reading
      <4>5. reader'[c] = [state |-> "done", log |-> i, last |-> last[c]]
        BY <4>3 DEF Reading
      <4>6. reader' = [reader EXCEPT ![c].state = "done"]
        <5> HIDE DEF reader
        <5>q. QED BY <3>3, <4>4, <4>5
      <4>7. Held(c, i) = Taken(i) - 1
        <5>1. CompleteAt(c, i)'
          BY <3>8, <4>3, KeepInv DEF IndInv, EndIsComplete, CompleteAt, Held, Taken
        <5>q. QED BY <3>1, <4>3, <5>1 DEF CompleteAt, Held, Taken
      <4>8. LogOf!HeldOf(reader[c].last, i) = produced[i] - 1
        BY <4>2, <4>4, <4>7 DEF LogOf!HeldOf, Held
      <4>9. reader[c].log = i /\ reader[c].state = "on" /\ i \in sealed
        BY <4>2, <4>4
      <4>10. LogOf!ReceiveEnd(c)
        BY <2>3, <3>1, <4>6, <4>8, <4>9 DEF LogOf!ReceiveEnd
      <4>q. QED BY <4>10 DEF LogOf!LogNext
    <3>q. QED BY <2>5, <3>4, <3>5, <3>6, <3>7, <3>8 DEF Reader, Turn
  <2>q. QED BY <2>1, <2>2, <2>4, <2>5 DEF Next, Worker
<1>q. QED BY <1>1, <1>2, Invariance, PTL DEF Spec, ImplementsEventLog, LogOf!LogSpec
=============================================================================
