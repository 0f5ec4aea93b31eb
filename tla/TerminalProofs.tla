--------------------------- MODULE TerminalProofs ---------------------------
(***************************************************************************)
(* What is proved of Terminal, for every number of terminals, programs and *)
(* control keys, and every size of the ring.                               *)
(***************************************************************************)
EXTENDS Terminal, SequenceTheorems, TLAPS

(* The lists of variables the steps below expand. *)
USE DEF cpu, ring, logs

-----------------------------------------------------------------------------
(* Helpers *)

LEMMA NextSlotType == ASSUME NEW i \in Slots PROVE NextSlot(i) \in Slots
  BY TerminalAssumption DEF NextSlot, Slots

LEMMA RangeOfAppend ==
  ASSUME NEW S, NEW s \in Seq(S), NEW e \in S
  PROVE  Append(s, e) \in Seq(S) /\ Range(Append(s, e)) = Range(s) \cup {e}
<1>1. /\ Append(s, e) \in Seq(S) /\ Len(Append(s, e)) = Len(s) + 1
      /\ \A i \in 1 .. Len(s) : Append(s, e)[i] = s[i]
      /\ Append(s, e)[Len(s) + 1] = e
  BY AppendProperties
<1>2. DOMAIN s = 1 .. Len(s) /\ DOMAIN Append(s, e) = 1 .. Len(s) + 1
      /\ Len(s) \in Nat
  BY <1>1, LenProperties
<1> QED
  BY <1>1, <1>2 DEF Range

(* queue_enqueue adds its argument, and nothing else. *)
LEMMA EnqueuedIs ==
  ASSUME NEW q \in Seq(Procs), NEW p \in Procs
  PROVE  Enqueued(q, p) \in Seq(Procs) /\ Range(Enqueued(q, p)) = Range(q) \cup {p}
  BY RangeOfAppend DEF Enqueued

LEMMA EmptyRange == Range(<<>>) = {}
  BY DEF Range

-----------------------------------------------------------------------------
(* The strengthening: TypeOK with the bound that pushC keeps on a buffer and *)
(* the distance of its two indices.                                          *)
RingInv ==
  \A t \in Ttys : /\ charBufferSize[t] \in 0 .. Full + 1
                  /\ charBufferWIndex[t] = At(t, charBufferSize[t])

TInv == TypeOK /\ RingInv

LEMMA TInit == Init => TInv
<1> SUFFICES ASSUME Init PROVE TInv
  OBVIOUS
<1>1. 0 \in Ttys /\ 0 \in Slots /\ 0 \in Keys /\ 0 \in 0 .. BUFFER_SIZE
  BY TerminalAssumption DEF Slots, Keys, Ttys
<1>2. TypeOK
  BY <1>1 DEF Init, TypeOK
<1>3. RingInv
  BY TerminalAssumption DEF Init, RingInv, At
<1> QED
  BY <1>2, <1>3 DEF TInv

LEMMA TStep == TInv /\ [Next]_vars => TInv'
<1> SUFFICES ASSUME TInv, [Next]_vars PROVE TInv'
  OBVIOUS
<1> USE TerminalAssumption
<1>0. TypeOK /\ RingInv
  BY DEF TInv
<1>1. ASSUME PushC(kb_tty) PROVE TInv'
  <2> DEFINE t == kb_tty
  <2>1. t \in Ttys /\ keys + 1 \in Keys /\ keys' = keys + 1
    BY <1>0, <1>1 DEF PushC, TypeOK, Keys
  <2>2. /\ asleep' \subseteq asleep
        /\ read_pblocks' \in [Ttys -> Seq(Procs)]
    BY <1>0, <1>1 DEF PushC, Unlock, TypeOK
  <2>3. /\ UNCHANGED cpu /\ charBufferRIndex' = charBufferRIndex
        /\ ctrl' = ctrl /\ calling' = calling /\ taken' = taken
    BY <1>1 DEF PushC
  <2>4. CASE charBufferSize[t] <= Full
    <3>1. /\ charBuffer' = [charBuffer EXCEPT ![t][charBufferWIndex[t]] = keys + 1]
          /\ charBufferWIndex' = [charBufferWIndex EXCEPT ![t] = NextSlot(@)]
          /\ charBufferSize' = [charBufferSize EXCEPT ![t] = @ + 1]
          /\ typed' = [typed EXCEPT ![t] = Append(@, keys + 1)]
      BY <1>1, <2>4 DEF PushC
    <3>2. typed' \in [Ttys -> Seq(Keys)]
      BY <1>0, <2>1, <3>1 DEF TypeOK
    <3>3. charBuffer' \in [Ttys -> [Slots -> Keys]]
      BY <1>0, <2>1, <3>1 DEF TypeOK
    <3>4. NextSlot(charBufferWIndex[t]) \in Slots
      BY <1>0, <2>1, NextSlotType DEF TypeOK
    <3>5. charBufferWIndex' \in [Ttys -> Slots]
      BY <1>0, <2>1, <3>1, <3>4 DEF TypeOK
    <3>6. charBufferSize[t] + 1 \in 0 .. Full + 1 /\ charBufferSize[t] + 1 \in 0 .. BUFFER_SIZE
      BY <1>0, <2>1, <2>4 DEF RingInv
    <3>7. charBufferSize' \in [Ttys -> 0 .. BUFFER_SIZE]
      BY <1>0, <2>1, <3>1, <3>6 DEF TypeOK
    <3>8. TypeOK'
      BY <1>0, <2>1, <2>2, <2>3, <3>2, <3>3, <3>5, <3>7 DEF TypeOK
    <3>9. NextSlot(charBufferWIndex[t]) = At(t, charBufferSize[t] + 1)
      <4>1. /\ charBufferWIndex[t] = At(t, charBufferSize[t])
            /\ charBufferRIndex[t] \in Slots /\ charBufferSize[t] \in 0 .. Full + 1
        BY <1>0, <2>1 DEF RingInv, TypeOK
      <4> QED
        BY <2>4, <4>1 DEF NextSlot, At, Slots
    <3>10. RingInv'
      <4> SUFFICES ASSUME NEW u \in Ttys
                   PROVE  /\ charBufferSize'[u] \in 0 .. Full + 1
                          /\ charBufferWIndex'[u] = At(u, charBufferSize[u])'
        BY DEF RingInv
      <4>1. CASE u = t
        <5>1. /\ charBufferSize'[t] = charBufferSize[t] + 1
              /\ charBufferWIndex'[t] = NextSlot(charBufferWIndex[t])
          BY <1>0, <2>1, <3>1 DEF TypeOK
        <5> QED
          BY <2>3, <3>6, <3>9, <4>1, <5>1 DEF At
      <4>2. CASE u # t
        <5>1. /\ charBufferSize'[u] = charBufferSize[u]
              /\ charBufferWIndex'[u] = charBufferWIndex[u]
          BY <1>0, <3>1, <4>2 DEF TypeOK
        <5> QED
          BY <1>0, <2>3, <5>1 DEF RingInv, At
      <4> QED
        BY <4>1, <4>2
    <3> QED
      BY <3>8, <3>10 DEF TInv
  <2>5. CASE ~(charBufferSize[t] <= Full)
    <3>1. UNCHANGED <<charBuffer, charBufferWIndex, charBufferSize, typed>>
      BY <1>1, <2>5 DEF PushC, Drop
    <3>2. TypeOK'
      BY <1>0, <2>1, <2>2, <2>3, <3>1 DEF TypeOK
    <3>3. RingInv'
      BY <1>0, <2>3, <3>1 DEF RingInv, At
    <3> QED
      BY <3>2, <3>3 DEF TInv
  <2> QED
    BY <2>4, <2>5
<1>2. ASSUME NEW t \in Ttys, Switch(t) PROVE TInv'
  <2>1. TypeOK'
    <3>1. read_pblocks' \in [Ttys -> Seq(Procs)] /\ asleep' \subseteq asleep
      BY <1>0, <1>2 DEF Switch, Unlock, TypeOK
    <3> QED
      BY <1>0, <1>2, <3>1 DEF Switch, TypeOK
  <2>2. RingInv'
    BY <1>0, <1>2 DEF Switch, RingInv, At
  <2> QED
    BY <2>1, <2>2 DEF TInv
<1>3. ASSUME NEW k \in CtrlKeys, Press(k) \/ Release(k) PROVE TInv'
  <2>1. ctrl' \in [Ttys -> SUBSET CtrlKeys]
    <3>1. PICK X \in SUBSET CtrlKeys : ctrl' = [ctrl EXCEPT ![current_tty] = X]
      <4>1. ctrl[current_tty] \cup {k} \in SUBSET CtrlKeys
            /\ ctrl[current_tty] \ {k} \in SUBSET CtrlKeys
        BY <1>0 DEF TypeOK
      <4> QED
        BY <1>3, <4>1 DEF Press, Release
    <3> QED
      BY <1>0, <1>3, <3>1 DEF Press, Release, TypeOK
  <2>2. UNCHANGED <<cpu, ring, read_pblocks, calling, asleep, logs>>
    BY <1>3 DEF Press, Release
  <2> QED
    BY <1>0, <2>1, <2>2 DEF TInv, TypeOK, RingInv, At
<1>4. ASSUME NEW p \in Procs, Call(p) \/ WokenByTick(p) \/ Think(p) PROVE TInv'
  <2>1. TypeOK'
    BY <1>0, <1>4 DEF Call, WokenByTick, Think, TypeOK
  <2>2. RingInv'
    BY <1>0, <1>4 DEF Call, WokenByTick, Think, RingInv, At
  <2> QED
    BY <2>1, <2>2 DEF TInv
<1>5. ASSUME NEW p \in Procs, ReadBlocks(p) PROVE TInv'
  <2>1. Enqueued(read_pblocks[current_tty], p) \in Seq(Procs)
    BY <1>0, EnqueuedIs DEF TypeOK
  <2>2. read_pblocks' \in [Ttys -> Seq(Procs)]
    BY <1>0, <1>5, <2>1 DEF ReadBlocks, TypeOK
  <2> QED
    BY <1>0, <1>5, <2>2 DEF ReadBlocks, TInv, TypeOK, RingInv, At
<1>6. ASSUME NEW p \in Procs, ReadsChar(p) PROVE TInv'
  <2> DEFINE t == current_tty
  <2>1. /\ t \in Ttys /\ charBufferSize[t] # 0
        /\ charBufferRIndex[t] \in Slots /\ charBufferSize[t] \in 0 .. Full + 1
        /\ charBufferWIndex[t] = At(t, charBufferSize[t])
    BY <1>0, <1>6 DEF ReadsChar, TypeOK, RingInv
  <2>2. charBuffer[t][charBufferRIndex[t]] \in Keys
    BY <1>0, <2>1 DEF TypeOK
  <2>3. /\ taken' = [taken EXCEPT ![t] = Append(@, charBuffer[t][charBufferRIndex[t]])]
        /\ charBufferRIndex' = [charBufferRIndex EXCEPT ![t] = NextSlot(@)]
        /\ charBufferSize' = [charBufferSize EXCEPT ![t] = @ - 1]
        /\ calling' = calling \ {p} /\ p \notin asleep
        /\ UNCHANGED <<cpu, charBuffer, charBufferWIndex, read_pblocks, ctrl,
                       asleep, keys, typed>>
    BY <1>6 DEF ReadsChar
  <2>4. NextSlot(charBufferRIndex[t]) \in Slots
    BY <2>1, NextSlotType
  <2>5. charBufferSize[t] - 1 \in 0 .. BUFFER_SIZE /\ charBufferSize[t] - 1 \in 0 .. Full + 1
    BY <2>1
  <2>6. taken' \in [Ttys -> Seq(Keys)]
    BY <1>0, <2>1, <2>2, <2>3 DEF TypeOK
  <2>7. /\ charBufferRIndex' \in [Ttys -> Slots]
        /\ charBufferSize' \in [Ttys -> 0 .. BUFFER_SIZE]
    BY <1>0, <2>1, <2>3, <2>4, <2>5 DEF TypeOK
  <2>8. TypeOK'
    BY <1>0, <2>3, <2>6, <2>7 DEF TypeOK
  <2>9. RingInv'
    <3> SUFFICES ASSUME NEW u \in Ttys
                 PROVE  /\ charBufferSize'[u] \in 0 .. Full + 1
                        /\ charBufferWIndex'[u] = At(u, charBufferSize[u])'
      BY DEF RingInv
    <3>1. CASE u = t
      <4>1. /\ charBufferSize'[t] = charBufferSize[t] - 1
            /\ charBufferRIndex'[t] = NextSlot(charBufferRIndex[t])
            /\ charBufferWIndex'[t] = charBufferWIndex[t]
        BY <1>0, <2>1, <2>3 DEF TypeOK
      <4> QED
        BY <2>1, <2>5, <3>1, <4>1 DEF NextSlot, At, Slots
    <3>2. CASE u # t
      <4>1. /\ charBufferSize'[u] = charBufferSize[u]
            /\ charBufferRIndex'[u] = charBufferRIndex[u]
            /\ charBufferWIndex'[u] = charBufferWIndex[u]
        BY <1>0, <2>3, <3>2 DEF TypeOK
      <4> QED
        BY <1>0, <4>1 DEF RingInv, At
    <3> QED
      BY <3>1, <3>2
  <2> QED
    BY <2>8, <2>9 DEF TInv
<1>7. ASSUME NEW t \in Ttys, ThinkOther(t) PROVE TInv'
  BY <1>0, <1>7 DEF ThinkOther, TInv, TypeOK, RingInv, At
<1>8. CASE UNCHANGED vars
  BY <1>0, <1>8 DEF vars, TInv, TypeOK, RingInv, At
<1> QED
  BY <1>1, <1>2, <1>3, <1>4, <1>5, <1>6, <1>7, <1>8 DEF Next, TtyRead

(* The variables of the terminals keep their types: no index leaves its     *)
(* ring, and a buffer never holds more than it has room for.                *)
THEOREM TerminalTypeCorrect == Spec => []TypeOK
<1>1. TInv => TypeOK
  BY DEF TInv
<1> QED
  BY TInit, TStep, <1>1, PTL DEF Spec

-----------------------------------------------------------------------------
(* The queues *)

(* AsleepForCause, for everybody in a queue, asleep or not: a reader that a *)
(* tick woke stays in the queue where it blocked, and may block again.      *)
QueueInv ==
  /\ \A p \in asleep : \E t \in Ttys : p \in Range(read_pblocks[t])
  /\ \A p \in Procs :
       p \in Range(read_pblocks[TtyOf[p]]) => charBufferSize[TtyOf[p]] = 0

(* What current_tty is while a reader runs.                                 *)
CpuInv == running \in Procs => current_tty \in {kb_tty, TtyOf[running]}

WInv == TInv /\ QueueInv /\ CpuInv

LEMMA WInit == Init => WInv
<1> SUFFICES ASSUME Init PROVE WInv
  OBVIOUS
<1>1. QueueInv
  BY EmptyRange, TerminalAssumption DEF Init, QueueInv
<1>2. CpuInv
  BY DEF Init, CpuInv
<1> QED
  BY <1>1, <1>2, TInit DEF WInv

(* unlock_contexts leaves nobody asleep for a key on terminal t, and sends   *)
(* nobody astray.                                                            *)
LEMMA UnlockStep ==
  ASSUME TInv, QueueInv, NEW t \in Ttys, Unlock(t),
         \A u \in Ttys \ {t} : charBufferSize'[u] = charBufferSize[u]
  PROVE  /\ QueueInv'
         /\ \A p \in Procs : Stray(p)' => Stray(p)
<1>1. /\ asleep' = asleep \ Range(read_pblocks[t])
      /\ read_pblocks' = [read_pblocks EXCEPT ![t] = <<>>]
  BY DEF Unlock
<1>2. read_pblocks'[t] = <<>> /\ \A u \in Ttys \ {t} : read_pblocks'[u] = read_pblocks[u]
  BY <1>1 DEF TInv, TypeOK
<1>3. \A p \in asleep' : \E u \in Ttys : p \in Range(read_pblocks'[u])
  BY <1>1, <1>2 DEF QueueInv
<1>4. ASSUME NEW p \in Procs, p \in Range(read_pblocks'[TtyOf[p]])
      PROVE  charBufferSize'[TtyOf[p]] = 0
  <2>1. TtyOf[p] \in Ttys \ {t}
    BY <1>2, <1>4, EmptyRange, TerminalAssumption
  <2> QED
    BY <1>2, <1>4, <2>1 DEF QueueInv
<1>5. ASSUME NEW p \in Procs, Stray(p)' PROVE Stray(p)
  BY <1>1, <1>2, <1>5, TerminalAssumption DEF Stray
<1> QED
  BY <1>3, <1>4, <1>5 DEF QueueInv

(* Steps that put nobody in a queue and wake at most some.                   *)
LEMMA QuietStep ==
  ASSUME QueueInv, asleep' \subseteq asleep, UNCHANGED <<read_pblocks, charBufferSize>>
  PROVE  QueueInv' /\ \A p \in Procs : Stray(p)' => Stray(p)
  BY DEF QueueInv, Stray

(* A step keeps the invariant, and sends readers astray to the screen only.  *)
LEMMA WStep ==
  WInv /\ [Next]_vars
    => /\ WInv'
       /\ \A p \in Procs :
            Stray(p)' /\ ~ Stray(p) => p \in Range(read_pblocks'[kb_tty])
<1> DEFINE Screen == \A p \in Procs : Stray(p)' /\ ~ Stray(p) =>
                        p \in Range(read_pblocks'[kb_tty])
<1> SUFFICES ASSUME WInv, [Next]_vars PROVE QueueInv' /\ CpuInv' /\ Screen
  BY TStep DEF WInv
<1> USE TerminalAssumption
<1>0. TInv /\ TypeOK /\ QueueInv /\ CpuInv
  BY DEF WInv, TInv
<1>1. ASSUME PushC(kb_tty) PROVE QueueInv' /\ CpuInv' /\ Screen
  <2>1. kb_tty \in Ttys /\ Unlock(kb_tty) /\ UNCHANGED cpu
    BY <1>0, <1>1 DEF PushC, TypeOK
  <2>2. \A u \in Ttys \ {kb_tty} : charBufferSize'[u] = charBufferSize[u]
    BY <1>0, <1>1 DEF PushC, Drop, TypeOK
  <2> QED
    BY <1>0, <2>1, <2>2, UnlockStep DEF CpuInv
<1>2. ASSUME NEW t \in Ttys, Switch(t) PROVE QueueInv' /\ CpuInv' /\ Screen
  <2>1. /\ Unlock(t) /\ current_tty' = t /\ kb_tty' = t /\ UNCHANGED ring
    BY <1>2 DEF Switch
  <2> QED
    BY <1>0, <2>1, UnlockStep DEF CpuInv
<1>3. ASSUME NEW t \in Ttys, ThinkOther(t) PROVE QueueInv' /\ CpuInv' /\ Screen
  BY <1>0, <1>3, QuietStep DEF ThinkOther, CpuInv
<1>4. ASSUME NEW k \in CtrlKeys, Press(k) \/ Release(k) PROVE QueueInv' /\ CpuInv' /\ Screen
  BY <1>0, <1>4, QuietStep DEF Press, Release, CpuInv
<1>5. ASSUME NEW p \in Procs, Think(p) \/ Call(p) \/ WokenByTick(p)
      PROVE  QueueInv' /\ CpuInv' /\ Screen
  BY <1>0, <1>5, QuietStep DEF Think, Call, WokenByTick, CpuInv
<1>6. ASSUME NEW p \in Procs, ReadBlocks(p) PROVE QueueInv' /\ CpuInv' /\ Screen
  <2> DEFINE t == current_tty
  <2>1. /\ running = p
        /\ charBufferSize[t] = 0 \/ t # TtyOf[p]
        /\ asleep' = asleep \cup {p}
        /\ read_pblocks' = [read_pblocks EXCEPT ![t] = Enqueued(@, p)]
        /\ UNCHANGED <<cpu, charBufferSize>>
    BY <1>6 DEF ReadBlocks
  <2>2. t \in Ttys /\ read_pblocks[t] \in Seq(Procs)
    BY <1>0 DEF TypeOK
  <2>3. /\ Range(read_pblocks'[t]) = Range(read_pblocks[t]) \cup {p}
        /\ \A u \in Ttys \ {t} : read_pblocks'[u] = read_pblocks[u]
    BY <1>0, <2>1, <2>2, EnqueuedIs DEF TypeOK
  <2>4. \A q \in asleep' : \E u \in Ttys : q \in Range(read_pblocks'[u])
    BY <1>0, <2>1, <2>2, <2>3 DEF QueueInv
  <2>5. ASSUME NEW q \in Procs, q \in Range(read_pblocks'[TtyOf[q]])
        PROVE  charBufferSize'[TtyOf[q]] = 0
    BY <1>0, <2>1, <2>3, <2>5 DEF QueueInv
  <2>6. ASSUME NEW q \in Procs, Stray(q)', ~ Stray(q)
        PROVE  q \in Range(read_pblocks'[kb_tty])
    <3>1. TtyOf[q] \in Ttys
      OBVIOUS
    <3>2. Range(read_pblocks[TtyOf[q]]) \subseteq Range(read_pblocks'[TtyOf[q]])
      BY <2>2, <2>3, <3>1
    <3>3. q = p
      BY <2>1, <2>6, <3>2 DEF Stray
    <3>4. t # TtyOf[p]
      BY <2>3, <2>6, <3>3 DEF Stray
    <3>5. t = kb_tty
      BY <1>0, <1>6, <3>4 DEF CpuInv, ReadBlocks
    <3> QED
      BY <2>3, <3>3, <3>5
  <2>7. CpuInv'
    BY <1>0, <2>1 DEF CpuInv
  <2> QED
    BY <2>4, <2>5, <2>6, <2>7 DEF QueueInv
<1>7. ASSUME NEW p \in Procs, ReadsChar(p) PROVE QueueInv' /\ CpuInv' /\ Screen
  <2>1. /\ charBufferSize[current_tty] # 0
        /\ charBufferSize' = [charBufferSize EXCEPT ![current_tty] = @ - 1]
        /\ UNCHANGED <<cpu, read_pblocks, asleep>>
    BY <1>7 DEF ReadsChar
  <2>2. \A u \in Ttys \ {current_tty} : charBufferSize'[u] = charBufferSize[u]
    BY <1>0, <2>1 DEF TypeOK
  <2>3. ASSUME NEW q \in Procs, q \in Range(read_pblocks'[TtyOf[q]])
        PROVE  charBufferSize'[TtyOf[q]] = 0
    BY <1>0, <2>1, <2>2, <2>3 DEF QueueInv
  <2> QED
    BY <1>0, <2>1, <2>3 DEF QueueInv, CpuInv, Stray
<1>8. CASE UNCHANGED vars
  BY <1>0, <1>8, QuietStep DEF vars, CpuInv
<1> QED
  BY <1>1, <1>2, <1>3, <1>4, <1>5, <1>6, <1>7, <1>8 DEF Next, TtyRead

(* A blocked reader is in some queue, and in its own terminal's only while   *)
(* that has nothing to read: the keys of pushC never find it asleep there.   *)
THEOREM AsleepForCauseCorrect == Spec => []AsleepForCause
<1>1. WInv => AsleepForCause
  BY DEF WInv, TInv, TypeOK, QueueInv, AsleepForCause
<1> QED
  BY WInit, WStep, <1>1, PTL DEF Spec

(* current_tty is the caller's terminal in every call but those that a       *)
(* Ctrl-N came just before, and then it is the screen's: a reader can only   *)
(* block where it should, or on the screen the user looks at.                *)
THEOREM StraysToScreenCorrect == Spec => StraysToScreen
<1>1. WInv /\ [Next]_vars
        => [\A p \in Procs :
              Stray(p)' /\ ~ Stray(p) => p \in Range(read_pblocks'[kb_tty])]_vars
  BY WStep
<1> QED
  BY WInit, WStep, <1>1, PTL DEF Spec, StraysToScreen

-----------------------------------------------------------------------------
(* The characters *)

(* A sequence that gives its head to the end of another: what is read.      *)
LEMMA HeadMoves ==
  \A a, b, c \in Seq(Keys) :
    /\ Len(b) # 0 /\ Len(c) = Len(b) - 1
    /\ \A i \in 1 .. Len(c) : c[i] = b[i + 1]
    => Append(a, b[1]) \o c = a \o b
<1> SUFFICES ASSUME NEW a \in Seq(Keys), NEW b \in Seq(Keys), NEW c \in Seq(Keys),
                    Len(b) # 0, Len(c) = Len(b) - 1,
                    \A i \in 1 .. Len(c) : c[i] = b[i + 1]
             PROVE  Append(a, b[1]) \o c = a \o b
  OBVIOUS
<1>1. Len(a) \in Nat /\ Len(b) \in Nat \ {0} /\ b[1] \in Keys
  BY LenProperties, ElementOfSeq
<1>2. /\ Append(a, b[1]) \in Seq(Keys) /\ Len(Append(a, b[1])) = Len(a) + 1
      /\ \A i \in 1 .. Len(a) : Append(a, b[1])[i] = a[i]
      /\ Append(a, b[1])[Len(a) + 1] = b[1]
  BY <1>1, AppendProperties
<1> DEFINE d == Append(a, b[1])
<1> HIDE DEF d
<1>3. /\ d \o c \in Seq(Keys) /\ a \o b \in Seq(Keys)
      /\ Len(d \o c) = Len(a) + Len(b) /\ Len(a \o b) = Len(a) + Len(b)
      /\ \A i \in 1 .. Len(a) + Len(b) :
           (d \o c)[i] = IF i <= Len(a) + 1 THEN d[i] ELSE c[i - (Len(a) + 1)]
      /\ \A i \in 1 .. Len(a) + Len(b) :
           (a \o b)[i] = IF i <= Len(a) THEN a[i] ELSE b[i - Len(a)]
  <2>1. d \in Seq(Keys) /\ Len(d) = Len(a) + 1
    BY <1>2 DEF d
  <2>2. Len(d) + Len(c) = Len(a) + Len(b)
    BY <1>1, <2>1
  <2>3. /\ d \o c \in Seq(Keys) /\ Len(d \o c) = Len(d) + Len(c)
        /\ \A i \in 1 .. Len(d) + Len(c) :
             (d \o c)[i] = IF i <= Len(d) THEN d[i] ELSE c[i - Len(d)]
    BY <2>1, ConcatProperties
  <2>4. /\ a \o b \in Seq(Keys) /\ Len(a \o b) = Len(a) + Len(b)
        /\ \A i \in 1 .. Len(a) + Len(b) :
             (a \o b)[i] = IF i <= Len(a) THEN a[i] ELSE b[i - Len(a)]
    BY ConcatProperties
  <2> QED
    BY <2>1, <2>2, <2>3, <2>4
<1>4. ASSUME NEW i \in 1 .. Len(a) + Len(b) PROVE (d \o c)[i] = (a \o b)[i]
  <2>1. CASE i <= Len(a)
    BY <1>1, <1>2, <1>3, <2>1 DEF d
  <2>2. CASE i = Len(a) + 1
    BY <1>1, <1>2, <1>3, <2>2 DEF d
  <2>3. CASE i > Len(a) + 1
    <3>1. i - (Len(a) + 1) \in 1 .. Len(c)
      BY <1>1, <2>3
    <3>2. c[i - (Len(a) + 1)] = b[i - Len(a)]
      BY <1>1, <3>1
    <3> QED
      BY <1>1, <1>3, <2>3, <3>2
  <2>4. i <= Len(a) \/ i = Len(a) + 1 \/ i > Len(a) + 1
    BY <1>1
  <2> QED
    BY <2>1, <2>2, <2>3, <2>4
<1>5. d \o c = a \o b
  BY <1>3, <1>4, SeqEqual
<1> QED
  BY <1>5 DEF d

(* What is typed goes to the end.                                           *)
LEMMA EndGrows ==
  \A a, b \in Seq(Keys) : \A e \in Keys : a \o Append(b, e) = Append(a \o b, e)
<1> SUFFICES ASSUME NEW a \in Seq(Keys), NEW b \in Seq(Keys), NEW e \in Keys
             PROVE  a \o Append(b, e) = Append(a \o b, e)
  OBVIOUS
<1>1. <<e>> \in Seq(Keys) /\ a \o b \in Seq(Keys)
  BY ConcatProperties
<1>2. Append(b, e) = b \o <<e>> /\ Append(a \o b, e) = (a \o b) \o <<e>>
  BY <1>1, AppendIsConcat
<1> QED
  BY <1>1, <1>2, ConcatAssociative

(* Waiting is a sequence, read off the ring from its reading index.         *)
WaitingOK ==
  \A t \in Ttys :
    /\ Waiting(t) \in Seq(Keys) /\ Len(Waiting(t)) = charBufferSize[t]
    /\ \A i \in 1 .. charBufferSize[t] : Waiting(t)[i] = charBuffer[t][At(t, i - 1)]

LEMMA WaitingIs == TInv => WaitingOK
<1> SUFFICES ASSUME TInv, NEW t \in Ttys
             PROVE  /\ Waiting(t) \in Seq(Keys)
                    /\ Len(Waiting(t)) = charBufferSize[t]
  BY DEF WaitingOK, Waiting
<1>1. charBufferSize[t] \in 0 .. Full + 1 /\ charBufferSize[t] \in Nat
      /\ charBufferRIndex[t] \in Slots /\ charBuffer[t] \in [Slots -> Keys]
  BY TerminalAssumption DEF TInv, TypeOK, RingInv
<1>2. \A i \in 1 .. charBufferSize[t] : At(t, i - 1) \in Slots
  BY <1>1, TerminalAssumption DEF At, Slots
<1>3. \A i \in 1 .. charBufferSize[t] : charBuffer[t][At(t, i - 1)] \in Keys
  BY <1>1, <1>2
<1> QED
  BY <1>1, <1>3 DEF Waiting

LEMMA OrderInit == Init => KeysInOrder
<1> SUFFICES ASSUME Init, NEW t \in Ttys PROVE taken[t] \o Waiting(t) = typed[t]
  BY DEF KeysInOrder
<1>1. Waiting(t) \in Seq(Keys) /\ Len(Waiting(t)) = 0
  BY TInit, WaitingIs DEF WaitingOK, Init
<1>2. Waiting(t) = <<>>
  BY <1>1, EmptySeq
<1> QED
  BY <1>2, ConcatEmptySeq DEF Init

LEMMA OrderStep == TInv /\ TInv' /\ KeysInOrder /\ [Next]_vars => KeysInOrder'
<1> SUFFICES ASSUME TInv, TInv', KeysInOrder, [Next]_vars,
                    NEW u \in Ttys
             PROVE  taken'[u] \o Waiting(u)' = typed'[u]
  BY DEF KeysInOrder
<1> USE TerminalAssumption
<1>1. /\ Waiting(u) \in Seq(Keys) /\ Len(Waiting(u)) = charBufferSize[u]
      /\ \A i \in 1 .. charBufferSize[u] : Waiting(u)[i] = charBuffer[u][At(u, i - 1)]
  BY WaitingIs DEF WaitingOK
<1>2. /\ Waiting(u)' \in Seq(Keys) /\ Len(Waiting(u)') = charBufferSize'[u]
      /\ \A i \in 1 .. charBufferSize'[u] :
           Waiting(u)'[i] = charBuffer'[u][At(u, i - 1)']
  <2>1. TInv' => WaitingOK'
    BY WaitingIs, PTL
  <2> QED
    BY <2>1 DEF WaitingOK
<1>3. /\ taken[u] \o Waiting(u) = typed[u]
      /\ taken[u] \in Seq(Keys) /\ typed[u] \in Seq(Keys)
      /\ charBufferSize[u] \in 0 .. Full + 1 /\ charBufferRIndex[u] \in Slots
      /\ charBufferWIndex[u] = At(u, charBufferSize[u])
      /\ charBuffer[u] \in [Slots -> Keys]
  BY DEF KeysInOrder, TInv, TypeOK, RingInv
(* A terminal whose ring and logs do not change. *)
<1>4. ASSUME charBuffer'[u] = charBuffer[u], charBufferSize'[u] = charBufferSize[u],
             charBufferRIndex'[u] = charBufferRIndex[u],
             taken'[u] = taken[u], typed'[u] = typed[u]
      PROVE  taken'[u] \o Waiting(u)' = typed'[u]
  <2>1. Waiting(u)' = Waiting(u)
    BY <1>4 DEF Waiting, At
  <2> QED
    BY <1>3, <1>4, <2>1
<1>5. ASSUME PushC(kb_tty) PROVE taken'[u] \o Waiting(u)' = typed'[u]
  <2> DEFINE t == kb_tty
  <2>1. t \in Ttys /\ charBufferRIndex' = charBufferRIndex /\ taken' = taken
        /\ keys + 1 \in Keys
    BY <1>5 DEF PushC, TInv, TypeOK, Keys
  <2>2. CASE ~(charBufferSize[t] <= Full) \/ u # t
    <3>1. /\ charBuffer'[u] = charBuffer[u] /\ charBufferSize'[u] = charBufferSize[u]
          /\ typed'[u] = typed[u]
      <4>1. CASE ~(charBufferSize[t] <= Full)
        BY <1>5, <4>1 DEF PushC, Drop
      <4>2. CASE charBufferSize[t] <= Full
        <5>1. /\ charBuffer' = [charBuffer EXCEPT ![t][charBufferWIndex[t]] = keys + 1]
              /\ charBufferSize' = [charBufferSize EXCEPT ![t] = @ + 1]
              /\ typed' = [typed EXCEPT ![t] = Append(@, keys + 1)]
          BY <1>5, <4>2 DEF PushC
        <5> QED
          BY <2>1, <2>2, <4>2, <5>1 DEF TInv, TypeOK
      <4> QED
        BY <4>1, <4>2
    <3> QED
      BY <1>4, <2>1, <3>1
  <2>3. CASE charBufferSize[t] <= Full /\ u = t
    <3> DEFINE n == charBufferSize[u]
    <3>1. /\ charBuffer' = [charBuffer EXCEPT ![t][charBufferWIndex[t]] = keys + 1]
          /\ charBufferSize' = [charBufferSize EXCEPT ![t] = @ + 1]
          /\ typed' = [typed EXCEPT ![t] = Append(@, keys + 1)]
      BY <1>5, <2>3 DEF PushC
    <3>2. /\ charBufferSize'[u] = n + 1
          /\ typed'[u] = Append(typed[u], keys + 1)
          /\ charBuffer'[u] = [charBuffer[u] EXCEPT ![At(u, n)] = keys + 1]
      BY <1>3, <2>1, <2>3, <3>1 DEF TInv, TypeOK
    <3>3. At(u, n) \in Slots /\ \A i \in 1 .. n : At(u, i - 1) \in Slots /\ At(u, i - 1) # At(u, n)
      <4>1. n \in 0 .. Full /\ charBufferRIndex[u] \in 0 .. BUFFER_SIZE - 1
        BY <1>3, <2>3 DEF Slots
      <4> HIDE DEF n
      <4> QED
        BY <4>1 DEF At, Slots
    <3>4. \A i \in 1 .. n + 1 : At(u, i - 1)' = At(u, i - 1)
      BY <2>1 DEF At
    <3>5. /\ \A i \in 1 .. n : Waiting(u)'[i] = Waiting(u)[i]
          /\ Waiting(u)'[n + 1] = keys + 1
      <4>1. n \in Nat /\ At(u, n) \in Slots /\ charBuffer[u] \in [Slots -> Keys]
        BY <1>3, <3>3
      <4>2. ASSUME NEW i \in 1 .. n PROVE Waiting(u)'[i] = Waiting(u)[i]
        <5>1. i \in 1 .. n + 1
          BY <4>1
        <5>2. Waiting(u)'[i] = charBuffer'[u][At(u, i - 1)]
          BY <1>2, <3>2, <3>4, <5>1
        <5>3. charBuffer'[u][At(u, i - 1)] = charBuffer[u][At(u, i - 1)]
          BY <3>2, <3>3, <4>1
        <5> QED
          BY <1>1, <5>2, <5>3
      <4>3. Waiting(u)'[n + 1] = keys + 1
        <5>1. n + 1 \in 1 .. n + 1 /\ (n + 1) - 1 = n
          BY <4>1
        <5>2. Waiting(u)'[n + 1] = charBuffer'[u][At(u, n)]
          BY <1>2, <3>2, <3>4, <5>1
        <5> QED
          BY <3>2, <4>1, <5>2
      <4> QED
        BY <4>2, <4>3
    <3>6. Waiting(u)' = Append(Waiting(u), keys + 1)
      <4>1. /\ Append(Waiting(u), keys + 1) \in Seq(Keys)
            /\ Len(Append(Waiting(u), keys + 1)) = n + 1
            /\ \A i \in 1 .. n : Append(Waiting(u), keys + 1)[i] = Waiting(u)[i]
            /\ Append(Waiting(u), keys + 1)[n + 1] = keys + 1
        BY <1>1, <2>1, AppendProperties
      <4>2. Len(Waiting(u)') = n + 1 /\ n \in Nat
        BY <1>2, <1>3, <3>2
      <4>3. \A i \in 1 .. n + 1 : Waiting(u)'[i] = Append(Waiting(u), keys + 1)[i]
        BY <3>5, <4>1, <4>2
      <4> HIDE DEF n
      <4> QED
        BY <1>2, <4>1, <4>2, <4>3, SeqEqual
    <3> QED
      <4> DEFINE b == Waiting(u)
      <4> DEFINE e == keys + 1
      <4>1. b \in Seq(Keys) /\ taken[u] \in Seq(Keys) /\ e \in Keys
        BY <1>1, <1>3, <2>1
      <4> HIDE DEF b, e
      <4>2. taken[u] \o Append(b, e) = Append(taken[u] \o b, e)
        BY <4>1, EndGrows, Zenon
      <4> QED
        BY <1>3, <2>1, <3>2, <3>6, <4>2 DEF b, e
  <2> QED
    BY <2>2, <2>3
<1>6. ASSUME NEW p \in Procs, ReadsChar(p) PROVE taken'[u] \o Waiting(u)' = typed'[u]
  <2> DEFINE t == current_tty
  <2>1. /\ t \in Ttys /\ charBufferSize[t] # 0
        /\ taken' = [taken EXCEPT ![t] = Append(@, charBuffer[t][charBufferRIndex[t]])]
        /\ charBufferRIndex' = [charBufferRIndex EXCEPT ![t] = NextSlot(@)]
        /\ charBufferSize' = [charBufferSize EXCEPT ![t] = @ - 1]
        /\ charBuffer' = charBuffer /\ typed' = typed
    BY <1>6 DEF ReadsChar, TInv, TypeOK
  <2>2. CASE u # t
    BY <1>4, <2>1, <2>2 DEF TInv, TypeOK
  <2>3. CASE u = t
    <3> DEFINE n == charBufferSize[u]
    <3>1. /\ taken'[u] = Append(taken[u], charBuffer[u][charBufferRIndex[u]])
          /\ charBufferRIndex'[u] = NextSlot(charBufferRIndex[u])
          /\ charBufferSize'[u] = n - 1 /\ n \in Nat \ {0}
      BY <1>3, <2>1, <2>3 DEF TInv, TypeOK
    <3>2. Waiting(u)[1] = charBuffer[u][charBufferRIndex[u]]
      <4>1. 1 \in 1 .. n /\ 1 - 1 = 0
        BY <3>1
      <4>2. At(u, 0) = charBufferRIndex[u]
        BY <1>3 DEF At, Slots
      <4> QED
        BY <1>1, <4>1, <4>2
    <3>3. \A i \in 1 .. n - 1 : At(u, i - 1)' = At(u, i)
      BY <1>3, <3>1, SMTT(20) DEF At, NextSlot, Slots
    <3>4. \A i \in 1 .. n - 1 : Waiting(u)'[i] = Waiting(u)[i + 1]
      <4> SUFFICES ASSUME NEW i \in 1 .. n - 1
                   PROVE  Waiting(u)'[i] = Waiting(u)[i + 1]
        OBVIOUS
      <4>1. i + 1 \in 1 .. n /\ (i + 1) - 1 = i
        BY <3>1
      <4>2. Waiting(u)[i + 1] = charBuffer[u][At(u, i)]
        BY <1>1, <4>1
      <4> QED
        BY <1>2, <2>1, <3>1, <3>3, <4>2
    <3>5. Len(Waiting(u)) = n /\ Len(Waiting(u)') = n - 1
      BY <1>1, <1>2, <3>1
    <3>6. Append(taken[u], Waiting(u)[1]) \o Waiting(u)' = taken[u] \o Waiting(u)
      <4> DEFINE b == Waiting(u)
      <4> DEFINE c == Waiting(u)'
      <4>1. /\ b \in Seq(Keys) /\ c \in Seq(Keys) /\ taken[u] \in Seq(Keys)
            /\ Len(b) # 0 /\ Len(c) = Len(b) - 1
            /\ \A i \in 1 .. Len(c) : c[i] = b[i + 1]
        BY <1>1, <1>2, <1>3, <3>1, <3>4, <3>5
      <4> HIDE DEF b, c
      <4>2. Append(taken[u], b[1]) \o c = taken[u] \o b
        BY <4>1, HeadMoves, Zenon
      <4> QED
        BY <4>2 DEF b, c
    <3> QED
      BY <1>3, <2>1, <3>1, <3>2, <3>6
  <2> QED
    BY <2>2, <2>3
<1>7. ASSUME UNCHANGED <<ring, typed, taken>> PROVE taken'[u] \o Waiting(u)' = typed'[u]
  BY <1>4, <1>7
<1>8. ASSUME NEW t \in Ttys, Switch(t) \/ ThinkOther(t)
      PROVE  taken'[u] \o Waiting(u)' = typed'[u]
  BY <1>7, <1>8 DEF Switch, ThinkOther
<1>9. ASSUME NEW k \in CtrlKeys, Press(k) \/ Release(k)
      PROVE  taken'[u] \o Waiting(u)' = typed'[u]
  BY <1>7, <1>9 DEF Press, Release
<1>10. ASSUME NEW p \in Procs, Call(p) \/ WokenByTick(p) \/ Think(p) \/ ReadBlocks(p)
       PROVE  taken'[u] \o Waiting(u)' = typed'[u]
  BY <1>7, <1>10 DEF Call, WokenByTick, Think, ReadBlocks
<1>11. CASE UNCHANGED vars
  BY <1>7, <1>11 DEF vars
<1> QED
  BY <1>5, <1>6, <1>8, <1>9, <1>10, <1>11 DEF Next, TtyRead

(* What the programs of a terminal read is what was typed there while it    *)
(* had room, in order, for any number of readers, whichever program runs    *)
(* when a key comes, and wherever the screen goes.                          *)
THEOREM KeysInOrderCorrect == Spec => []KeysInOrder
  BY TInit, TStep, OrderInit, OrderStep, PTL DEF Spec
=============================================================================
