----------------------------- MODULE GateProofs -----------------------------
(***************************************************************************)
(* Results and signals in kernel_buffer, for any number of programs, calls  *)
(* and keys.                                                                *)
(***************************************************************************)
EXTENDS Gate, SequenceTheorems, TLAPS

KB == [op : Calls \union {"none"}, ret : {0, SYSR_BLOCK}, by : 0 .. n,
       sig : Signals \union {0, 2}, pid : Pids \union {0}, req : 0 .. Len(asked)]
CallRec == [op : Calls \union {"none"}, made : Nat, id : 0 .. n,
            mixed : BOOLEAN, req : 0 .. Len(asked)]
KeyRec == [req : 0 .. Len(asked), mixed : BOOLEAN]
FiredRec == [sig : Signals \union {2}, pid : Pids, req : 1 .. Len(asked)]
AskedRec == [sig : Signals \union {2}, pid : Pids]

HasFired(r) == \E i \in DOMAIN fired : fired[i].req = r

\* A request that nothing came between is pending, or fired.
Safe(r) == (kb.req = r /\ kb.op = KILL) \/ HasFired(r)

\* What is pending is what was asked for, and was not fired.
PendingInv ==
  /\ kb.req # 0 => asked[kb.req] = [sig |-> kb.sig, pid |-> kb.pid]
  /\ ~HasFired(kb.req)

RequestInv ==
  /\ \A p \in Procs : /\ pc[p] \in {"user", "again"} => call[p].req = 0
                      /\ call[p].req # 0 => call[p].op = KILL
                      /\ pc[p] = "again" => call[p].op \in Blocking
  /\ \A p \in Procs : pc[p] = "handled" /\ call[p].req # 0 /\ ~call[p].mixed
                        => Safe(call[p].req)
  /\ \A p \in Procs \union {Idle} : \A i \in DOMAIN keys[p] :
       keys[p][i].req # 0 /\ ~keys[p][i].mixed => Safe(keys[p][i].req)
  /\ SignalKept

\* Until something comes between, the result in kernel_buffer is the call's own,
\* and a call has been made but for a result that says it was not.
ResultInv ==
  \A p \in Procs : call[p].op \in Blocking \union Plain /\ ~call[p].mixed =>
    /\ InCall(p) => /\ kb.by = call[p].id
                    /\ call[p].made = IF Again(call[p].op, kb.ret) THEN 0 ELSE 1
    /\ pc[p] = "again" => call[p].made = 0

GateInv == TypeOK /\ PendingInv /\ FiredAsAsked /\ RequestInv /\ ResultInv

LEMMA Kinds == /\ KILL \notin Blocking \union Plain \union Silent
               /\ KILL \in Calls /\ KILL # "none" /\ Blocking \subseteq Calls
               /\ SYSR_BLOCK # 0
  BY DEF KILL, Blocking, Plain, Silent, Calls, SYSR_BLOCK

LEMMA GateStart == Init => GateInv
<1>1. SUFFICES ASSUME Init PROVE GateInv
  OBVIOUS
<1>2. fired = <<>> /\ asked = <<>> /\ DOMAIN fired = {} /\ Len(asked) = 0
  BY <1>1 DEF Init
<1>3. TypeOK
  BY <1>1, <1>2 DEF Init, TypeOK, NoCall, Calls, KILL
<1>4. PendingInv /\ FiredAsAsked /\ RequestInv /\ ResultInv
  BY <1>1, <1>2 DEF Init, PendingInv, FiredAsAsked, RequestInv, ResultInv, HasFired,
       SignalKept, NoCall, InCall, Blocking, Plain
<1> QED
  BY <1>3, <1>4 DEF GateInv

\* One request more
LEMMA AsksAppends ==
  ASSUME TypeOK, NEW sig \in Signals \union {2}, NEW pid \in Pids, Asks(sig, pid)
  PROVE  /\ asked' \in Seq(AskedRec) /\ Len(asked') = Len(asked) + 1 /\ Len(asked) \in Nat
         /\ DOMAIN asked' = 1 .. Len(asked')
         /\ asked'[Len(asked')] = [sig |-> sig, pid |-> pid]
         /\ \A r \in 1 .. Len(asked) : asked'[r] = asked[r]
<1> DEFINE a == [sig |-> sig, pid |-> pid]
<1>1. asked \in Seq(AskedRec) /\ a \in AskedRec
  BY DEF TypeOK, AskedRec
<1>2. asked' = Append(asked, a)
  BY DEF Asks
<1> HIDE DEF a
<1>3. /\ Append(asked, a) \in Seq(AskedRec) /\ Len(Append(asked, a)) = Len(asked) + 1
      /\ Append(asked, a)[Len(asked) + 1] = a
      /\ \A r \in 1 .. Len(asked) : Append(asked, a)[r] = asked[r]
  BY <1>1, AppendProperties
<1>4. Len(asked) \in Nat /\ DOMAIN asked' = 1 .. Len(asked')
  BY <1>1, <1>2, <1>3, LenProperties
<1>5. a = [sig |-> sig, pid |-> pid]
  BY DEF a
<1> QED
  BY <1>2, <1>3, <1>4, <1>5

-----------------------------------------------------------------------------
(* int 79h: what is pending is fired, or dropped *)

LEMMA FiredGrows ==
  ASSUME TypeOK, PendingInv, FiredAsAsked
  PROVE  /\ Fired \in Seq(FiredRec)
         /\ \A i \in DOMAIN fired : i \in DOMAIN Fired /\ Fired[i] = fired[i]
         /\ \A i \in DOMAIN Fired : /\ Fired[i].req \in 1 .. Len(asked)
              /\ asked[Fired[i].req] = [sig |-> Fired[i].sig, pid |-> Fired[i].pid]
         /\ \A i, j \in DOMAIN Fired : Fired[i].req = Fired[j].req => i = j
         /\ kb.req # 0 /\ kb.op = KILL => \E i \in DOMAIN Fired : Fired[i].req = kb.req
<1> DEFINE f == [sig |-> kb.sig, pid |-> kb.pid, req |-> kb.req]
<1>1. /\ fired \in Seq(FiredRec) /\ asked \in Seq(AskedRec) /\ kb \in KB
      /\ (kb.sig = 0 <=> kb.req = 0)
  BY DEF TypeOK, FiredRec, AskedRec, KB
<1>2. DOMAIN asked = 1 .. Len(asked) /\ DOMAIN fired = 1 .. Len(fired) /\ Len(fired) \in Nat
      /\ Len(asked) \in Nat
  BY <1>1, LenProperties
<1>3. /\ \A i \in DOMAIN fired :
           /\ fired[i].req \in 1 .. Len(asked)
           /\ asked[fired[i].req] = [sig |-> fired[i].sig, pid |-> fired[i].pid]
      /\ \A i, j \in DOMAIN fired : fired[i].req = fired[j].req => i = j
  BY <1>2 DEF FiredAsAsked
<1>4. CASE ~(kb.sig # 0 /\ kb.op = KILL)
  <2>1. Fired = fired
    BY <1>4 DEF Fired
  <2> QED
    BY <1>1, <1>3, <1>4, <2>1
<1>5. CASE kb.sig # 0 /\ kb.op = KILL
  <2>1. kb.req # 0 /\ kb.req \in 1 .. Len(asked)
    BY <1>1, <1>2, <1>5 DEF KB
  <2>2. asked[kb.req] = [sig |-> kb.sig, pid |-> kb.pid]
    BY <2>1 DEF PendingInv
  <2>3. asked[kb.req] \in AskedRec
    BY <1>1, <2>1, <1>2, ElementOfSeq
  <2>4. kb.sig \in Signals \union {2} /\ kb.pid \in Pids
    BY <2>2, <2>3 DEF AskedRec
  <2>5. f \in FiredRec /\ f.req = kb.req /\ f.sig = kb.sig /\ f.pid = kb.pid
    BY <2>1, <2>4 DEF FiredRec
  <2>6. Fired = Append(fired, f)
    BY <1>5 DEF Fired
  <2>7. \A i \in DOMAIN fired : fired[i].req # kb.req
    BY DEF PendingInv, HasFired
  <2> HIDE DEF f
  <2>8. /\ Append(fired, f) \in Seq(FiredRec) /\ Len(Append(fired, f)) = Len(fired) + 1
        /\ Append(fired, f)[Len(fired) + 1] = f
        /\ \A i \in 1 .. Len(fired) : Append(fired, f)[i] = fired[i]
    BY <1>1, <2>5, AppendProperties
  <2>9. DOMAIN Fired = 1 .. Len(fired) + 1
    BY <2>6, <2>8, LenProperties
  <2>10. \A i \in DOMAIN Fired : IF i = Len(fired) + 1 THEN Fired[i] = f
                                 ELSE i \in DOMAIN fired /\ Fired[i] = fired[i]
    BY <1>2, <2>6, <2>8, <2>9
  <2>11. Fired \in Seq(FiredRec) /\ Len(fired) + 1 \in DOMAIN Fired
         /\ \A i \in DOMAIN fired : i \in DOMAIN Fired
    BY <1>2, <2>6, <2>8, <2>9
  <2>12. ASSUME NEW i \in DOMAIN Fired
         PROVE  /\ Fired[i].req \in 1 .. Len(asked)
                /\ asked[Fired[i].req] = [sig |-> Fired[i].sig, pid |-> Fired[i].pid]
    BY <1>3, <2>1, <2>2, <2>5, <2>10
  <2>13. ASSUME NEW i \in DOMAIN Fired, NEW j \in DOMAIN Fired, Fired[i].req = Fired[j].req
         PROVE  i = j
    BY <1>3, <2>5, <2>7, <2>10, <2>13
  <2>14. \A i \in DOMAIN fired : Fired[i] = fired[i]
    BY <1>2, <2>6, <2>8
  <2>15. \E i \in DOMAIN Fired : Fired[i].req = kb.req
    BY <1>2, <2>5, <2>10, <2>11
  <2> QED
    BY <2>11, <2>12, <2>13, <2>14, <2>15
<1> QED
  BY <1>4, <1>5

LEMMA Int79Step ==
  ASSUME GateInv, NEW req, NEW mixed, Int79(req, mixed), UNCHANGED asked,
         req # 0 /\ ~mixed => Safe(req)
  PROVE  /\ fired' \in Seq(FiredRec) /\ FiredAsAsked' /\ PendingInv' /\ SignalKept'
         /\ kb' = [kb EXCEPT !.sig = 0, !.pid = 0, !.req = 0]
         /\ \A r : r # 0 /\ Safe(r) => Safe(r)'
<1>1. /\ fired' = Fired /\ kb' = [kb EXCEPT !.sig = 0, !.pid = 0, !.req = 0]
      /\ missed' = IF req # 0 /\ ~mixed /\ \A i \in DOMAIN fired' : fired'[i].req # req
                   THEN missed \union {req} ELSE missed
  BY DEF Int79, Cleared
<1>2. /\ Fired \in Seq(FiredRec)
      /\ \A i \in DOMAIN fired : i \in DOMAIN Fired /\ Fired[i] = fired[i]
      /\ \A i \in DOMAIN Fired : /\ Fired[i].req \in 1 .. Len(asked)
           /\ asked[Fired[i].req] = [sig |-> Fired[i].sig, pid |-> Fired[i].pid]
      /\ \A i, j \in DOMAIN Fired : Fired[i].req = Fired[j].req => i = j
      /\ kb.req # 0 /\ kb.op = KILL => \E i \in DOMAIN Fired : Fired[i].req = kb.req
  BY FiredGrows DEF GateInv
<1>3. kb \in KB /\ asked \in Seq(AskedRec)
  BY DEF GateInv, TypeOK, KB, AskedRec
<1>4. kb'.req = 0 /\ DOMAIN asked = 1 .. Len(asked) /\ Len(asked) \in Nat
  BY <1>1, <1>3, LenProperties DEF KB
<1>5. ASSUME NEW r, r # 0, Safe(r)
      PROVE  \E i \in DOMAIN fired' : fired'[i].req = r
  BY <1>1, <1>2, <1>5 DEF Safe, HasFired
<1>6. \A r : r # 0 /\ Safe(r) => Safe(r)'
  BY <1>5 DEF Safe, HasFired
<1>7. FiredAsAsked'
  BY <1>1, <1>2, <1>4 DEF FiredAsAsked
<1>8. PendingInv'
  <2>1. \A i \in DOMAIN fired' : fired'[i].req # 0
    <3>1. \A i \in DOMAIN Fired : Fired[i].req \in 1 .. Len(asked)
      BY <1>2
    <3>2. 0 \notin 1 .. Len(asked)
      BY <1>4
    <3> QED
      BY <1>1, <3>1, <3>2
  <2>2. ~HasFired(kb.req)'
    BY <1>4, <2>1 DEF HasFired
  <2> QED
    BY <1>4, <2>2 DEF PendingInv
<1>9. SignalKept'
  <2>1. missed = {}
    BY DEF GateInv, RequestInv, SignalKept
  <2> QED
    BY <1>1, <1>5, <2>1 DEF SignalKept
<1> QED
  BY <1>1, <1>2, <1>6, <1>7, <1>8, <1>9

LEMMA ClearedType ==
  ASSUME kb \in KB, asked \in Seq(AskedRec)
  PROVE  /\ [kb EXCEPT !.sig = 0, !.pid = 0, !.req = 0] \in KB
         /\ [kb EXCEPT !.sig = 0, !.pid = 0, !.req = 0].op = kb.op
         /\ [kb EXCEPT !.sig = 0, !.pid = 0, !.req = 0].ret = kb.ret
         /\ [kb EXCEPT !.sig = 0, !.pid = 0, !.req = 0].by = kb.by
         /\ [kb EXCEPT !.sig = 0, !.pid = 0, !.req = 0].sig = 0
         /\ [kb EXCEPT !.sig = 0, !.pid = 0, !.req = 0].req = 0
<1>1. 0 \in 0 .. Len(asked)
  BY LenProperties
<1> QED
  BY <1>1 DEF KB

-----------------------------------------------------------------------------
(* Types *)

LEMMA Types ==
  ASSUME GateInv
  PROVE  /\ kb \in KB /\ (kb.sig = 0 <=> kb.req = 0)
         /\ pc \in [Procs -> {"user", "handled", "leaving", "again"}]
         /\ call \in [Procs -> CallRec] /\ keys \in [Procs \union {Idle} -> Seq(KeyRec)]
         /\ n \in Nat /\ pressed \in Nat /\ fired \in Seq(FiredRec) /\ asked \in Seq(AskedRec)
         /\ Len(asked) \in Nat /\ 0 \in 0 .. Len(asked) /\ 0 \in 0 .. n
         /\ DOMAIN asked = 1 .. Len(asked)
<1>1. /\ kb \in KB /\ (kb.sig = 0 <=> kb.req = 0)
      /\ pc \in [Procs -> {"user", "handled", "leaving", "again"}]
      /\ call \in [Procs -> CallRec] /\ keys \in [Procs \union {Idle} -> Seq(KeyRec)]
      /\ n \in Nat /\ pressed \in Nat /\ fired \in Seq(FiredRec) /\ asked \in Seq(AskedRec)
  BY DEF GateInv, TypeOK, KB, CallRec, KeyRec, FiredRec, AskedRec
<1>2. Len(asked) \in Nat /\ DOMAIN asked = 1 .. Len(asked)
  BY <1>1, LenProperties
<1> QED
  BY <1>1, <1>2

LEMMA TypeBack ==
  ASSUME kb' \in KB', (kb'.sig = 0 <=> kb'.req = 0),
         pc' \in [Procs -> {"user", "handled", "leaving", "again"}],
         call' \in [Procs -> CallRec'], keys' \in [Procs \union {Idle} -> Seq(KeyRec')],
         n' \in Nat, pressed' \in Nat, fired' \in Seq(FiredRec'), asked' \in Seq(AskedRec)
  PROVE  TypeOK'
  BY DEF TypeOK, KB, CallRec, KeyRec, FiredRec, AskedRec

LEMMA SeqMonotone ==
  ASSUME NEW S, NEW T, S \subseteq T, NEW s \in Seq(S)
  PROVE  s \in Seq(T)
<1>1. Len(s) \in Nat /\ DOMAIN s = 1 .. Len(s) /\ s \in [1 .. Len(s) -> S]
  BY LenProperties
<1>2. s \in [1 .. Len(s) -> T]
  BY <1>1
<1> QED
  BY <1>1, <1>2, IsASeq, SeqDef

\* More requests and more calls leave what there was well typed.
LEMMA Grows ==
  ASSUME GateInv, asked' \in Seq(AskedRec), Len(asked') >= Len(asked), n' \in Nat, n' >= n
  PROVE  /\ KB \subseteq KB' /\ CallRec \subseteq CallRec' /\ KeyRec \subseteq KeyRec'
         /\ FiredRec \subseteq FiredRec' /\ fired \in Seq(FiredRec')
         /\ Len(asked') \in Nat
<1>1. Len(asked) \in Nat /\ n \in Nat /\ fired \in Seq(FiredRec)
  BY Types
<1>2. Len(asked') \in Nat
  BY LenProperties
<1>3. 0 .. Len(asked) \subseteq 0 .. Len(asked') /\ 1 .. Len(asked) \subseteq 1 .. Len(asked')
      /\ 0 .. n \subseteq 0 .. n'
  BY <1>1, <1>2
<1>4. KB \subseteq KB'
  BY <1>3 DEF KB
<1>5. CallRec \subseteq CallRec' /\ KeyRec \subseteq KeyRec' /\ FiredRec \subseteq FiredRec'
  BY <1>3 DEF CallRec, KeyRec, FiredRec
<1> QED
  BY <1>1, <1>2, <1>4, <1>5, SeqMonotone

LEMMA MixedTypes ==
  ASSUME GateInv
  PROVE  /\ MixedCalls \in [Procs -> CallRec] /\ MixedKills \in [Procs -> CallRec]
         /\ MixedKeys \in [Procs \union {Idle} -> Seq(KeyRec)]
         /\ \A p \in Procs \union {Idle} :
              /\ DOMAIN MixedKeys[p] = DOMAIN keys[p]
              /\ \A i \in DOMAIN keys[p] : MixedKeys[p][i].mixed
         /\ \A p \in Procs :
              /\ MixedCalls[p] = [call[p] EXCEPT !.mixed = MixedCalls[p].mixed]
              /\ MixedKills[p] = [call[p] EXCEPT !.mixed = MixedKills[p].mixed]
              /\ MixedCalls[p].mixed = (InCall(p) \/ call[p].mixed)
              /\ MixedKills[p].mixed = ((InCall(p) /\ call[p].op = KILL) \/ call[p].mixed)
<1>1. call \in [Procs -> CallRec] /\ keys \in [Procs \union {Idle} -> Seq(KeyRec)]
  BY Types
<1>2. \A p \in Procs : call[p].mixed \in BOOLEAN
  BY <1>1 DEF CallRec
<1>3. ASSUME NEW p \in Procs, NEW m \in BOOLEAN
      PROVE  [call[p] EXCEPT !.mixed = m] \in CallRec
  BY <1>1 DEF CallRec
<1>4. MixedCalls \in [Procs -> CallRec] /\ MixedKills \in [Procs -> CallRec]
  <2>1. \A p \in Procs : (InCall(p) \/ call[p].mixed) \in BOOLEAN
    BY <1>2
  <2>2. \A p \in Procs : ((InCall(p) /\ call[p].op = KILL) \/ call[p].mixed) \in BOOLEAN
    BY <1>2
  <2> QED
    BY <1>3, <2>1, <2>2 DEF MixedCalls, MixedKills
<1>5. ASSUME NEW p \in Procs \union {Idle}
      PROVE  /\ MixedKeys[p] \in Seq(KeyRec) /\ DOMAIN MixedKeys[p] = DOMAIN keys[p]
             /\ \A i \in DOMAIN keys[p] : MixedKeys[p][i].mixed
  <2>1. keys[p] \in Seq(KeyRec) /\ Len(keys[p]) \in Nat /\ DOMAIN keys[p] = 1 .. Len(keys[p])
    BY <1>1, LenProperties
  <2>2. \A i \in DOMAIN keys[p] : keys[p][i] \in KeyRec
    BY <2>1, ElementOfSeq
  <2>3. MixedKeys[p] = [i \in DOMAIN keys[p] |-> [keys[p][i] EXCEPT !.mixed = TRUE]]
    BY DEF MixedKeys
  <2>4. \A i \in DOMAIN keys[p] : [keys[p][i] EXCEPT !.mixed = TRUE] \in KeyRec
                                 /\ [keys[p][i] EXCEPT !.mixed = TRUE].mixed
    BY <2>2 DEF KeyRec
  <2>5. MixedKeys[p] \in [1 .. Len(keys[p]) -> KeyRec]
    BY <2>1, <2>3, <2>4
  <2> QED
    BY <2>1, <2>3, <2>4, <2>5, IsASeq
<1>6. MixedKeys \in [Procs \union {Idle} -> Seq(KeyRec)]
  <2>1. MixedKeys = [p \in Procs \union {Idle} |-> MixedKeys[p]]
    BY DEF MixedKeys
  <2> QED
    BY <1>5, <2>1
<1>7. ASSUME NEW p \in Procs
      PROVE  /\ MixedCalls[p] = [call[p] EXCEPT !.mixed = MixedCalls[p].mixed]
             /\ MixedKills[p] = [call[p] EXCEPT !.mixed = MixedKills[p].mixed]
             /\ MixedCalls[p].mixed = (InCall(p) \/ call[p].mixed)
             /\ MixedKills[p].mixed = ((InCall(p) /\ call[p].op = KILL) \/ call[p].mixed)
  <2>1. /\ MixedCalls[p] = [call[p] EXCEPT !.mixed = InCall(p) \/ @]
        /\ MixedKills[p] = [call[p] EXCEPT !.mixed = (InCall(p) /\ call[p].op = KILL) \/ @]
    BY DEF MixedCalls, MixedKills
  <2>2. call[p] \in CallRec
    BY <1>1
  <2> QED
    BY <2>1, <2>2 DEF CallRec
<1> QED
  BY <1>4, <1>5, <1>6, <1>7

-----------------------------------------------------------------------------
(* The steps *)

\* A call that unmixed leaves has its own result and was made once.
LEMMA LeaveKept ==
  ASSUME GateInv, NEW p \in Procs, Leave(p),
         call[p].op \in Blocking \union Plain, ~call[p].mixed
  PROVE  IF pc'[p] = "user" THEN call[p].made = 1 /\ kb.by = call[p].id
                            ELSE pc'[p] = "again" /\ call[p].made = 0
<1>1. InCall(p)
  BY DEF Leave, InCall
<1>2. kb.by = call[p].id /\ call[p].made = IF Again(call[p].op, kb.ret) THEN 0 ELSE 1
  BY <1>1 DEF GateInv, ResultInv
<1>3. pc'[p] = IF Again(call[p].op, kb.ret) THEN "again" ELSE "user"
  BY Types DEF Leave
<1> QED
  BY <1>2, <1>3

LEMMA LeaveStep == ASSUME GateInv, NEW p \in Procs, Leave(p) PROVE GateInv'
<1>1. /\ kb' = kb /\ keys' = keys /\ n' = n /\ pressed' = pressed
      /\ fired' = fired /\ asked' = asked /\ missed' = missed /\ pc[p] = "leaving"
      /\ pc' = [pc EXCEPT ![p] = IF Again(call[p].op, kb.ret) THEN "again" ELSE "user"]
      /\ call' = IF Again(call[p].op, kb.ret) THEN call ELSE [call EXCEPT ![p] = NoCall]
  BY DEF Leave
<1>2. NoCall \in CallRec /\ NoCall.req = 0 /\ NoCall.op \notin Blocking \union Plain
  BY Types DEF NoCall, CallRec, Blocking, Plain
<1>3. TypeOK'
  <2>1. call' \in [Procs -> CallRec]
    BY <1>1, <1>2, Types
  <2>2. pc' \in [Procs -> {"user", "handled", "leaving", "again"}]
    BY <1>1, Types
  <2> QED
    BY <1>1, <2>1, <2>2, Types DEF TypeOK, KB, CallRec, KeyRec, FiredRec, AskedRec
<1>4. PendingInv' /\ FiredAsAsked'
  BY <1>1 DEF GateInv, PendingInv, FiredAsAsked, HasFired
<1>5. \A r : Safe(r)' <=> Safe(r)
  BY <1>1 DEF Safe, HasFired
<1>6. ASSUME NEW q \in Procs
      PROVE  IF q = p THEN /\ pc'[q] = IF Again(call[q].op, kb.ret) THEN "again" ELSE "user"
                           /\ call'[q] = IF Again(call[q].op, kb.ret) THEN call[q] ELSE NoCall
             ELSE pc'[q] = pc[q] /\ call'[q] = call[q]
  BY <1>1, Types
<1>7. Again(call[p].op, kb.ret) => call[p].op \in Blocking
  BY DEF Again
<1>8. RequestInv'
  <2>1. \A q \in Procs : /\ pc'[q] \in {"user", "again"} => call'[q].req = 0
                         /\ call'[q].req # 0 => call'[q].op = KILL
                         /\ pc'[q] = "again" => call'[q].op \in Blocking
    BY <1>2, <1>6, <1>7, Kinds DEF GateInv, RequestInv
  <2>2. \A q \in Procs : pc'[q] = "handled" /\ call'[q].req # 0 /\ ~call'[q].mixed
                           => Safe(call[q].req)'
    BY <1>5, <1>6 DEF GateInv, RequestInv
  <2>3. \A q \in Procs \union {Idle} : \A i \in DOMAIN keys'[q] :
          keys'[q][i].req # 0 /\ ~keys'[q][i].mixed => Safe(keys[q][i].req)'
    BY <1>1, <1>5 DEF GateInv, RequestInv
  <2> QED
    BY <1>1, <2>1, <2>2, <2>3 DEF GateInv, RequestInv, SignalKept
<1>9. ResultInv'
  <2>1. ASSUME NEW q \in Procs, call'[q].op \in Blocking \union Plain, ~call'[q].mixed
        PROVE  /\ InCall(q)' => /\ kb'.by = call'[q].id
                 /\ call'[q].made = IF Again(call'[q].op, kb'.ret) THEN 0 ELSE 1
               /\ pc'[q] = "again" => call'[q].made = 0
    <3>1. CASE q = p
      <4>1. Again(call[p].op, kb.ret) /\ pc'[p] = "again" /\ call'[p] = call[p]
        BY <1>2, <1>6, <2>1, <3>1
      <4>2. call[p].made = 0
        BY <4>1, <2>1, <3>1, LeaveKept
      <4> QED
        BY <3>1, <4>1, <4>2 DEF InCall
    <3>2. CASE q # p
      <4>1. pc'[q] = pc[q] /\ call'[q] = call[q]
        BY <1>6, <3>2
      <4> QED
        BY <1>1, <2>1, <4>1 DEF GateInv, ResultInv, InCall
    <3> QED
      BY <3>1, <3>2
  <2> QED
    BY <2>1 DEF ResultInv
<1> QED
  BY <1>3, <1>4, <1>8, <1>9 DEF GateInv

LEMMA SignalsStep == ASSUME GateInv, NEW p \in Procs, Signals79(p) PROVE GateInv'
<1>1. /\ Int79(call[p].req, call[p].mixed) /\ pc[p] = "handled"
      /\ pc' = [pc EXCEPT ![p] = "leaving"]
      /\ call' = call /\ keys' = keys /\ n' = n /\ pressed' = pressed /\ asked' = asked
  BY DEF Signals79
<1>2. call[p].req # 0 /\ ~call[p].mixed => Safe(call[p].req)
  BY <1>1 DEF GateInv, RequestInv
<1>3. /\ fired' \in Seq(FiredRec) /\ FiredAsAsked' /\ PendingInv' /\ SignalKept'
      /\ kb' = [kb EXCEPT !.sig = 0, !.pid = 0, !.req = 0]
      /\ \A r : r # 0 /\ Safe(r) => Safe(r)'
  BY <1>1, <1>2, Int79Step
<1>4. kb' \in KB /\ kb'.sig = 0 /\ kb'.req = 0 /\ kb'.ret = kb.ret /\ kb'.by = kb.by
  BY <1>3, Types, ClearedType
<1>5. \A q \in Procs : pc'[q] = IF q = p THEN "leaving" ELSE pc[q]
  BY <1>1, Types
<1>6. TypeOK'
  <2>1. pc' \in [Procs -> {"user", "handled", "leaving", "again"}]
    BY <1>1, Types
  <2> QED
    BY <1>1, <1>3, <1>4, <2>1, Types DEF TypeOK, KB, CallRec, KeyRec, FiredRec, AskedRec
<1>7. RequestInv'
  BY <1>1, <1>3, <1>5 DEF GateInv, RequestInv
<1>8. ResultInv'
  BY <1>1, <1>4, <1>5 DEF GateInv, ResultInv, InCall
<1> QED
  BY <1>3, <1>6, <1>7, <1>8 DEF GateInv

LEMMA KeyEndsStep == ASSUME GateInv, NEW p \in Procs \union {Idle}, KeyEnds(p) PROVE GateInv'
<1> DEFINE k == keys[p][Len(keys[p])]
           rest == SubSeq(keys[p], 1, Len(keys[p]) - 1)
<1>1. /\ Int79(k.req, k.mixed) /\ keys[p] # <<>> /\ keys' = [keys EXCEPT ![p] = rest]
      /\ pc' = pc /\ call' = call /\ n' = n /\ pressed' = pressed /\ asked' = asked
  BY DEF KeyEnds
<1>2. keys[p] \in Seq(KeyRec) /\ Len(keys[p]) \in Nat \ {0}
      /\ DOMAIN keys[p] = 1 .. Len(keys[p])
  BY <1>1, Types, EmptySeq, LenProperties
<1>3. Len(keys[p]) \in DOMAIN keys[p] /\ \A i \in 1 .. Len(keys[p]) - 1 : keys[p][i] \in KeyRec
  BY <1>2, ElementOfSeq
<1>4. k.req # 0 /\ ~k.mixed => Safe(k.req)
  BY <1>3 DEF GateInv, RequestInv
<1>5. /\ fired' \in Seq(FiredRec) /\ FiredAsAsked' /\ PendingInv' /\ SignalKept'
      /\ kb' = [kb EXCEPT !.sig = 0, !.pid = 0, !.req = 0]
      /\ \A r : r # 0 /\ Safe(r) => Safe(r)'
  <2> HIDE DEF k
  <2> QED
    BY <1>1, <1>4, Int79Step
<1>6. kb' \in KB /\ kb'.sig = 0 /\ kb'.req = 0 /\ kb'.ret = kb.ret /\ kb'.by = kb.by
  BY <1>5, Types, ClearedType
<1>7. rest \in Seq(KeyRec) /\ \A i \in DOMAIN rest : i \in DOMAIN keys[p] /\ rest[i] = keys[p][i]
  <2>1. 1 \in Int /\ Len(keys[p]) - 1 \in Int
    BY <1>2
  <2>2. /\ rest \in Seq(KeyRec)
        /\ Len(rest) = IF 1 <= Len(keys[p]) - 1 THEN Len(keys[p]) - 1 - 1 + 1 ELSE 0
        /\ \A i \in 1 .. Len(keys[p]) - 1 - 1 + 1 : rest[i] = keys[p][1 + i - 1]
    BY <1>3, <2>1, SubSeqProperties
  <2>3. DOMAIN rest = 1 .. Len(rest)
    BY <2>2, LenProperties
  <2> HIDE DEF rest
  <2> DEFINE m == Len(keys[p])
  <2>4. m \in Nat \ {0} /\ Len(rest) = m - 1
    BY <1>2, <2>2
  <2>5. \A i \in 1 .. m - 1 : i \in 1 .. m - 1 - 1 + 1 /\ 1 + i - 1 = i /\ i \in 1 .. m
    BY <2>4
  <2>6. \A i \in 1 .. m - 1 : rest[i] = keys[p][i] /\ i \in DOMAIN keys[p]
    BY <1>2, <2>2, <2>5
  <2> QED
    BY <2>2, <2>3, <2>4, <2>6
<1> HIDE DEF rest
<1>8. \A q \in Procs \union {Idle} : keys'[q] = IF q = p THEN rest ELSE keys[q]
  BY <1>1, Types
<1>9. TypeOK'
  <2>1. keys' \in [Procs \union {Idle} -> Seq(KeyRec)]
    BY <1>1, <1>7, Types
  <2> QED
    BY <1>1, <1>5, <1>6, <2>1, Types DEF TypeOK, KB, CallRec, KeyRec, FiredRec, AskedRec
<1>10. RequestInv'
  <2>1. \A q \in Procs \union {Idle} : \A i \in DOMAIN keys'[q] :
          i \in DOMAIN keys[q] /\ keys'[q][i] = keys[q][i]
    BY <1>7, <1>8
  <2> QED
    BY <1>1, <1>5, <2>1 DEF GateInv, RequestInv
<1>11. ResultInv'
  BY <1>1, <1>6 DEF GateInv, ResultInv, InCall
<1> QED
  BY <1>5, <1>9, <1>10, <1>11 DEF GateInv

LEMMA KeyStep == ASSUME GateInv, NEW p \in Procs \union {Idle}, Key(p) PROVE GateInv'
<1> DEFINE k == [req |-> 0, mixed |-> FALSE]
<1>1. /\ kb' = [kb EXCEPT !.op = KILL] /\ keys' = [keys EXCEPT ![p] = Append(@, k)]
      /\ pressed' = pressed + 1 /\ pc' = pc /\ call' = call /\ n' = n
      /\ fired' = fired /\ asked' = asked /\ missed' = missed
  BY DEF Key, SaysKill
<1>2. kb' \in KB /\ kb'.op = KILL /\ kb'.sig = kb.sig /\ kb'.pid = kb.pid
      /\ kb'.req = kb.req /\ kb'.ret = kb.ret /\ kb'.by = kb.by
  BY <1>1, Types, Kinds DEF KB
<1>3. k \in KeyRec /\ k.req = 0 /\ keys[p] \in Seq(KeyRec)
  BY Types DEF KeyRec
<1> HIDE DEF k
<1>4. Append(keys[p], k) \in Seq(KeyRec)
      /\ \A i \in DOMAIN Append(keys[p], k) :
           \/ i \in DOMAIN keys[p] /\ Append(keys[p], k)[i] = keys[p][i]
           \/ Append(keys[p], k)[i] = k
  <2>1. Append(keys[p], k) \in Seq(KeyRec) /\ Len(Append(keys[p], k)) = Len(keys[p]) + 1
        /\ Append(keys[p], k)[Len(keys[p]) + 1] = k
        /\ \A i \in 1 .. Len(keys[p]) : Append(keys[p], k)[i] = keys[p][i]
    BY <1>3, AppendProperties
  <2>2. Len(keys[p]) \in Nat /\ DOMAIN keys[p] = 1 .. Len(keys[p])
        /\ DOMAIN Append(keys[p], k) = 1 .. Len(keys[p]) + 1
    BY <1>3, <2>1, LenProperties
  <2> QED
    BY <2>1, <2>2
<1>5. \A q \in Procs \union {Idle} : keys'[q] = IF q = p THEN Append(keys[p], k) ELSE keys[q]
  BY <1>1, Types
<1>6. TypeOK'
  <2>1. keys' \in [Procs \union {Idle} -> Seq(KeyRec)]
    BY <1>1, <1>4, Types
  <2>2. kb'.sig = 0 <=> kb'.req = 0
    BY <1>2, Types
  <2>3. KB' = KB /\ CallRec' = CallRec /\ KeyRec' = KeyRec /\ FiredRec' = FiredRec
    BY <1>1 DEF KB, CallRec, KeyRec, FiredRec
  <2> QED
    BY <1>1, <1>2, <2>1, <2>2, <2>3, Types, TypeBack
<1>7. PendingInv' /\ FiredAsAsked'
  BY <1>1, <1>2 DEF GateInv, PendingInv, FiredAsAsked, HasFired
<1>8. \A r : Safe(r) => Safe(r)'
  BY <1>1, <1>2 DEF Safe, HasFired
<1>9. RequestInv'
  <2>1. \A q \in Procs \union {Idle} : \A i \in DOMAIN keys'[q] :
          \/ i \in DOMAIN keys[q] /\ keys'[q][i] = keys[q][i]
          \/ keys'[q][i].req = 0
    BY <1>3, <1>4, <1>5
  <2>2. \A q \in Procs \union {Idle} : \A i \in DOMAIN keys'[q] :
          keys'[q][i].req # 0 /\ ~keys'[q][i].mixed => Safe(keys[q][i].req)'
    BY <1>8, <2>1 DEF GateInv, RequestInv
  <2> QED
    BY <1>1, <1>8, <2>2 DEF GateInv, RequestInv, SignalKept
<1>10. ResultInv'
  BY <1>1, <1>2 DEF GateInv, ResultInv, InCall
<1> QED
  BY <1>6, <1>7, <1>9, <1>10 DEF GateInv

\* A request is put in kernel_buffer.
LEMMA Requested ==
  ASSUME GateInv, NEW sig \in Signals \union {2}, NEW pid \in Pids, Asks(sig, pid),
         fired' = fired, n' \in Nat, n' >= n,
         kb' = [kb EXCEPT !.op = KILL, !.sig = sig, !.pid = pid, !.req = Len(asked')]
  PROVE  /\ kb' \in KB' /\ (kb'.sig = 0 <=> kb'.req = 0)
         /\ kb'.op = KILL /\ kb'.ret = kb.ret /\ kb'.by = kb.by /\ kb'.req = Len(asked')
         /\ PendingInv' /\ FiredAsAsked' /\ Len(asked') \in 0 .. Len(asked')
         /\ asked' \in Seq(AskedRec) /\ Len(asked') >= Len(asked)
<1>1. /\ asked' \in Seq(AskedRec) /\ Len(asked') = Len(asked) + 1 /\ Len(asked) \in Nat
      /\ DOMAIN asked' = 1 .. Len(asked')
      /\ asked'[Len(asked')] = [sig |-> sig, pid |-> pid]
      /\ \A r \in 1 .. Len(asked) : asked'[r] = asked[r]
  BY AsksAppends DEF GateInv
<1>2. kb \in KB /\ fired \in Seq(FiredRec) /\ KB \subseteq KB' /\ Len(asked') \in Nat
      /\ DOMAIN asked = 1 .. Len(asked) /\ DOMAIN fired = 1 .. Len(fired)
  BY <1>1, Types, Grows, LenProperties
<1>3. sig # 0 /\ Len(asked') # 0 /\ Len(asked') \in 0 .. Len(asked') /\ Len(asked') >= Len(asked)
  BY <1>1, GateAssumption
<1>4. kb'.op = KILL /\ kb'.ret = kb.ret /\ kb'.by = kb.by /\ kb'.req = Len(asked')
      /\ kb'.sig = sig /\ kb'.pid = pid
  BY <1>2 DEF KB
<1>5. kb' \in KB'
  <2>1. kb \in KB'
    BY <1>2
  <2> QED
    BY <2>1, <1>3, Kinds DEF KB
<1>6. \A i \in DOMAIN fired : fired[i].req \in DOMAIN asked /\
        asked[fired[i].req] = [sig |-> fired[i].sig, pid |-> fired[i].pid]
  BY DEF GateInv, FiredAsAsked
<1>7. ASSUME NEW i \in DOMAIN fired
      PROVE  /\ fired[i].req \in DOMAIN asked' /\ fired[i].req # Len(asked')
             /\ asked'[fired[i].req] = [sig |-> fired[i].sig, pid |-> fired[i].pid]
  <2>1. fired[i].req \in 1 .. Len(asked)
    BY <1>2, <1>6
  <2>2. fired[i].req \in 1 .. Len(asked') /\ fired[i].req # Len(asked')
    BY <1>1, <2>1
  <2> QED
    BY <1>1, <1>6, <2>1, <2>2
<1>8. FiredAsAsked'
  BY <1>7 DEF GateInv, FiredAsAsked
<1>9. PendingInv'
  <2>1. ~HasFired(kb.req)'
    BY <1>4, <1>7 DEF HasFired
  <2> QED
    BY <1>1, <1>4, <2>1 DEF PendingInv
<1> QED
  BY <1>1, <1>3, <1>4, <1>5, <1>8, <1>9

LEMMA CtrlCStep == ASSUME GateInv, NEW p \in Procs \union {Idle}, CtrlC(p) PROVE GateInv'
<1>1. PICK tty \in Pids : Asks(2, tty) /\
        kb' = [kb EXCEPT !.op = KILL, !.sig = 2, !.pid = tty, !.req = Len(asked')]
  BY DEF CtrlC, SaysKill
<1> DEFINE k == [req |-> Len(asked'), mixed |-> FALSE]
<1>2. /\ call' = MixedKills /\ keys' = [MixedKeys EXCEPT ![p] = Append(@, k)]
      /\ pressed' = pressed + 1 /\ pc' = pc /\ n' = n /\ fired' = fired /\ missed' = missed
  BY DEF CtrlC
<1>3. n' \in Nat /\ n' >= n
  BY <1>2, Types
<1>4. /\ kb' \in KB' /\ (kb'.sig = 0 <=> kb'.req = 0)
      /\ kb'.op = KILL /\ kb'.ret = kb.ret /\ kb'.by = kb.by /\ kb'.req = Len(asked')
      /\ PendingInv' /\ FiredAsAsked' /\ Len(asked') \in 0 .. Len(asked')
      /\ asked' \in Seq(AskedRec) /\ Len(asked') >= Len(asked)
  BY <1>1, <1>2, <1>3, Requested
<1>5. /\ CallRec \subseteq CallRec' /\ KeyRec \subseteq KeyRec' /\ fired \in Seq(FiredRec')
  BY <1>3, <1>4, Grows
<1>6. k \in KeyRec' /\ k.req = Len(asked')
  BY <1>4 DEF KeyRec
<1> HIDE DEF k
<1>7. /\ MixedKeys \in [Procs \union {Idle} -> Seq(KeyRec)]
      /\ \A q \in Procs \union {Idle} :
           /\ DOMAIN MixedKeys[q] = DOMAIN keys[q]
           /\ \A i \in DOMAIN keys[q] : MixedKeys[q][i].mixed
  BY MixedTypes
<1>8. MixedKeys \in [Procs \union {Idle} -> Seq(KeyRec')]
  BY <1>5, <1>7, SeqMonotone
<1>9. Append(MixedKeys[p], k) \in Seq(KeyRec')
      /\ \A i \in DOMAIN Append(MixedKeys[p], k) :
           \/ i \in DOMAIN MixedKeys[p] /\ Append(MixedKeys[p], k)[i] = MixedKeys[p][i]
           \/ Append(MixedKeys[p], k)[i] = k
  <2> DEFINE s == MixedKeys[p]
  <2>0. s \in Seq(KeyRec')
    BY <1>8
  <2> HIDE DEF s
  <2>1. Append(s, k) \in Seq(KeyRec') /\ Len(Append(s, k)) = Len(s) + 1
        /\ Append(s, k)[Len(s) + 1] = k
        /\ \A i \in 1 .. Len(s) : Append(s, k)[i] = s[i]
    BY <1>6, <2>0, AppendProperties
  <2>2. Len(s) \in Nat /\ DOMAIN s = 1 .. Len(s) /\ DOMAIN Append(s, k) = 1 .. Len(s) + 1
    BY <2>0, <2>1, LenProperties
  <2>3. Append(s, k) \in Seq(KeyRec')
        /\ \A i \in DOMAIN Append(s, k) :
             \/ i \in DOMAIN s /\ Append(s, k)[i] = s[i]
             \/ Append(s, k)[i] = k
    BY <2>1, <2>2
  <2> QED
    BY <2>3 DEF s
<1>10. \A q \in Procs \union {Idle} :
         keys'[q] = IF q = p THEN Append(MixedKeys[p], k) ELSE MixedKeys[q]
  BY <1>2, <1>7
<1>11. TypeOK'
  <2>1. keys' \in [Procs \union {Idle} -> Seq(KeyRec')]
    BY <1>2, <1>8, <1>9
  <2>2. call' \in [Procs -> CallRec']
    BY <1>2, <1>5, MixedTypes
  <2>3. pc' \in [Procs -> {"user", "handled", "leaving", "again"}] /\ pressed' \in Nat
    BY <1>2, Types
  <2> QED
    BY <1>2, <1>3, <1>4, <1>5, <2>1, <2>2, <2>3, TypeBack
<1>12. ASSUME NEW q \in Procs
       PROVE  /\ call'[q].op = call[q].op /\ call'[q].req = call[q].req
              /\ call'[q].id = call[q].id /\ call'[q].made = call[q].made
              /\ call'[q].mixed = ((InCall(q) /\ call[q].op = KILL) \/ call[q].mixed)
  <2>1. call[q] \in CallRec /\ MixedKills[q] = [call[q] EXCEPT !.mixed = MixedKills[q].mixed]
        /\ MixedKills[q].mixed = ((InCall(q) /\ call[q].op = KILL) \/ call[q].mixed)
    BY Types, MixedTypes
  <2> QED
    BY <1>2, <2>1 DEF CallRec
<1>13. RequestInv'
  <2>1. \A q \in Procs : /\ pc'[q] \in {"user", "again"} => call'[q].req = 0
                         /\ call'[q].req # 0 => call'[q].op = KILL
                         /\ pc'[q] = "again" => call'[q].op \in Blocking
    BY <1>2, <1>12 DEF GateInv, RequestInv
  <2>2. \A q \in Procs : pc'[q] = "handled" /\ call'[q].req # 0 => call'[q].mixed
    BY <1>2, <1>12 DEF GateInv, RequestInv, InCall
  <2>3. ASSUME NEW q \in Procs \union {Idle}, NEW i \in DOMAIN keys'[q], ~keys'[q][i].mixed
        PROVE  keys'[q][i].req = kb'.req
    BY <1>4, <1>6, <1>7, <1>9, <1>10, <2>3
  <2>4. \A q \in Procs \union {Idle} : \A i \in DOMAIN keys'[q] :
          keys'[q][i].req # 0 /\ ~keys'[q][i].mixed => Safe(keys[q][i].req)'
    BY <1>4, <2>3 DEF Safe
  <2>5. SignalKept'
    BY <1>2 DEF GateInv, RequestInv, SignalKept
  <2> QED
    BY <2>1, <2>2, <2>4, <2>5 DEF RequestInv
<1>14. ResultInv'
  BY <1>2, <1>4, <1>12 DEF GateInv, ResultInv, InCall
<1> QED
  BY <1>4, <1>11, <1>13, <1>14 DEF GateInv

\* int 80h of another call than kill
LEMMA CallOfStep ==
  ASSUME GateInv, NEW p \in Procs, NEW op \in Calls \ {KILL}, Int80(p, op),
         pc[p] \in {"user", "again"}, pc[p] = "again" => op = call[p].op,
         pc' = [pc EXCEPT ![p] = "handled"], keys' = MixedKeys,
         UNCHANGED <<pressed, fired, missed>>
  PROVE  GateInv'
<1>1. PICK r \in Results(op) :
        /\ n' = n + 1 /\ kb' = Handled(op, n', r) /\ asked' = asked
        /\ call' = [MixedCalls EXCEPT ![p] =
             [op |-> op, id |-> n', req |-> 0, mixed |-> pc[p] = "again" /\ call[p].mixed,
              made |-> (IF pc[p] = "again" THEN call[p].made ELSE 0)
                       + (IF op \in Blocking /\ r = SYSR_BLOCK THEN 0 ELSE 1)]]
  BY DEF Int80
<1>2. pressed' = pressed /\ fired' = fired /\ missed' = missed
  OBVIOUS
<1>3. n' \in Nat /\ n' >= n /\ n' \in 0 .. n' /\ r \in {0, SYSR_BLOCK}
      /\ asked' \in Seq(AskedRec) /\ Len(asked') >= Len(asked)
  BY <1>1, Types DEF Results
<1>4. /\ KB \subseteq KB' /\ CallRec \subseteq CallRec' /\ KeyRec \subseteq KeyRec'
      /\ fired \in Seq(FiredRec')
  BY <1>3, Grows
<1>5. /\ kb' \in KB' /\ kb'.op = op /\ kb'.sig = kb.sig /\ kb'.pid = kb.pid /\ kb'.req = kb.req
      /\ op \notin Silent => kb'.ret = r /\ kb'.by = n'
  <2>1. kb \in KB'
    BY <1>4, Types
  <2> QED
    BY <1>1, <1>3, <2>1 DEF KB, Handled
<1>6. ASSUME NEW q \in Procs, q # p
      PROVE  /\ call'[q] = MixedCalls[q] /\ call'[q].op = call[q].op
             /\ call'[q].req = call[q].req /\ call'[q].id = call[q].id
             /\ call'[q].made = call[q].made
             /\ call'[q].mixed = (InCall(q) \/ call[q].mixed) /\ pc'[q] = pc[q]
  <2>1. call[q] \in CallRec /\ MixedCalls[q] = [call[q] EXCEPT !.mixed = MixedCalls[q].mixed]
        /\ MixedCalls[q].mixed = (InCall(q) \/ call[q].mixed)
    BY Types, MixedTypes
  <2>2. call'[q] = MixedCalls[q] /\ pc'[q] = pc[q]
    BY <1>1, <1>6, Types, MixedTypes
  <2> QED
    BY <2>1, <2>2 DEF CallRec
<1>7. call[p] \in CallRec /\ call[p].req = 0 /\ call[p].made \in Nat
      /\ (pc[p] = "again" /\ call[p].mixed) \in BOOLEAN
  BY Types DEF GateInv, RequestInv, CallRec
<1> DEFINE made == (IF pc[p] = "again" THEN call[p].made ELSE 0)
                   + (IF op \in Blocking /\ r = SYSR_BLOCK THEN 0 ELSE 1)
<1>8. made \in Nat
  BY <1>7
<1>9. /\ call'[p] \in CallRec' /\ call'[p].op = op /\ call'[p].id = n' /\ call'[p].req = 0
      /\ call'[p].mixed = (pc[p] = "again" /\ call[p].mixed)
      /\ call'[p].made = made /\ pc'[p] = "handled"
  <2>1. DOMAIN MixedCalls = Procs
    BY DEF MixedCalls
  <2>2. call'[p] = [op |-> op, id |-> n', req |-> 0, made |-> made,
                    mixed |-> pc[p] = "again" /\ call[p].mixed]
    BY <1>1, <2>1
  <2>3. pc'[p] = "handled"
    BY Types
  <2> HIDE DEF made
  <2> QED
    BY <1>3, <1>4, <1>7, <1>8, <2>2, <2>3 DEF CallRec
<1>10. TypeOK'
  <2>1. call' \in [Procs -> CallRec']
    <3>1. call' = [q \in Procs |-> call'[q]]
      BY <1>1, MixedTypes
    <3>2. \A q \in Procs : call'[q] \in CallRec'
      BY <1>4, <1>6, <1>9, MixedTypes
    <3> QED
      BY <3>1, <3>2
  <2>2. keys' \in [Procs \union {Idle} -> Seq(KeyRec')]
    BY <1>4, MixedTypes, SeqMonotone
  <2>3. pc' \in [Procs -> {"user", "handled", "leaving", "again"}] /\ pressed' \in Nat
    BY <1>2, Types
  <2>4. kb'.sig = 0 <=> kb'.req = 0
    BY <1>5, Types
  <2> QED
    BY <1>2, <1>3, <1>4, <1>5, <2>1, <2>2, <2>3, <2>4, TypeBack
<1>11. PendingInv' /\ FiredAsAsked'
  BY <1>1, <1>2, <1>5 DEF GateInv, PendingInv, FiredAsAsked, HasFired
<1>12. RequestInv'
  <2>1. \A q \in Procs : /\ pc'[q] \in {"user", "again"} => call'[q].req = 0
                         /\ call'[q].req # 0 => call'[q].op = KILL
                         /\ pc'[q] = "again" => call'[q].op \in Blocking
    BY <1>6, <1>9 DEF GateInv, RequestInv
  <2>2. \A q \in Procs : pc'[q] = "handled" /\ call'[q].req # 0 => call'[q].mixed
    BY <1>6, <1>9 DEF InCall
  <2>3. \A q \in Procs \union {Idle} : \A i \in DOMAIN keys'[q] : keys'[q][i].mixed
    BY MixedTypes
  <2>4. SignalKept'
    BY <1>2 DEF GateInv, RequestInv, SignalKept
  <2> QED
    BY <2>1, <2>2, <2>3, <2>4 DEF RequestInv
<1>13. ResultInv'
  <2>1. ASSUME NEW q \in Procs, call'[q].op \in Blocking \union Plain, ~call'[q].mixed
        PROVE  /\ InCall(q)' => /\ kb'.by = call'[q].id
                 /\ call'[q].made = IF Again(call'[q].op, kb'.ret) THEN 0 ELSE 1
               /\ pc'[q] = "again" => call'[q].made = 0
    <3>1. CASE q = p
      <4>1. op \in Blocking \union Plain /\ op \notin Silent
        BY <1>9, <2>1, <3>1 DEF Blocking, Plain, Silent
      <4>2. kb'.ret = r /\ kb'.by = n'
        BY <1>5, <4>1
      <4>3. pc[p] = "again" => call[p].made = 0
        BY <1>9, <2>1, <3>1, <4>1 DEF GateInv, ResultInv
      <4>4. made = IF op \in Blocking /\ r = SYSR_BLOCK THEN 0 ELSE 1
        BY <4>3
      <4> QED
        BY <1>9, <3>1, <4>2, <4>4 DEF Again
    <3>2. CASE q # p
      <4>1. ~InCall(q) /\ ~InCall(q)' /\ ~call[q].mixed
        BY <1>6, <2>1, <3>2 DEF InCall
      <4> QED
        BY <1>6, <2>1, <3>2, <4>1 DEF GateInv, ResultInv
    <3> QED
      BY <3>1, <3>2
  <2> QED
    BY <2>1 DEF ResultInv
<1> QED
  BY <1>10, <1>11, <1>12, <1>13 DEF GateInv

LEMMA KillCallStep ==
  ASSUME GateInv, NEW p \in Procs, Int80Kill(p), pc[p] = "user",
         pc' = [pc EXCEPT ![p] = "handled"], keys' = MixedKeys,
         UNCHANGED <<pressed, fired, missed>>
  PROVE  GateInv'
<1>1. PICK sig \in Signals, pid \in Pids :
        /\ n' = n + 1 /\ Asks(sig, pid)
        /\ kb' = [kb EXCEPT !.op = KILL, !.sig = sig, !.pid = pid, !.req = Len(asked')]
        /\ call' = [MixedCalls EXCEPT ![p] =
             [NoCall EXCEPT !.op = KILL, !.id = n', !.made = 1, !.req = Len(asked')]]
  BY DEF Int80Kill
<1>2. pressed' = pressed /\ fired' = fired /\ missed' = missed
  OBVIOUS
<1>3. n' \in Nat /\ n' >= n /\ n' \in 0 .. n'
  BY <1>1, Types
<1>4. /\ kb' \in KB' /\ (kb'.sig = 0 <=> kb'.req = 0)
      /\ kb'.op = KILL /\ kb'.ret = kb.ret /\ kb'.by = kb.by /\ kb'.req = Len(asked')
      /\ PendingInv' /\ FiredAsAsked' /\ Len(asked') \in 0 .. Len(asked')
      /\ asked' \in Seq(AskedRec) /\ Len(asked') >= Len(asked)
  BY <1>1, <1>2, <1>3, Requested
<1>5. /\ CallRec \subseteq CallRec' /\ KeyRec \subseteq KeyRec' /\ fired \in Seq(FiredRec')
  BY <1>3, <1>4, Grows
<1>6. ASSUME NEW q \in Procs, q # p
      PROVE  /\ call'[q] = MixedCalls[q] /\ call'[q].op = call[q].op
             /\ call'[q].req = call[q].req /\ call'[q].id = call[q].id
             /\ call'[q].made = call[q].made
             /\ call'[q].mixed = (InCall(q) \/ call[q].mixed) /\ pc'[q] = pc[q]
  <2>1. call[q] \in CallRec /\ MixedCalls[q] = [call[q] EXCEPT !.mixed = MixedCalls[q].mixed]
        /\ MixedCalls[q].mixed = (InCall(q) \/ call[q].mixed)
    BY Types, MixedTypes
  <2>2. call'[q] = MixedCalls[q] /\ pc'[q] = pc[q]
    BY <1>1, <1>6, Types, MixedTypes
  <2> QED
    BY <2>1, <2>2 DEF CallRec
<1>7. /\ call'[p] \in CallRec' /\ call'[p].op = KILL /\ call'[p].req = kb'.req
      /\ pc'[p] = "handled"
  <2>1. call'[p] = [NoCall EXCEPT !.op = KILL, !.id = n', !.made = 1, !.req = Len(asked')]
    BY <1>1, MixedTypes
  <2>2. pc'[p] = "handled"
    BY Types
  <2>3. call'[p] = [op |-> KILL, made |-> 1, id |-> n', mixed |-> FALSE, req |-> Len(asked')]
    BY <2>1 DEF NoCall
  <2> QED
    BY <1>3, <1>4, <2>2, <2>3, Kinds DEF CallRec
<1>8. TypeOK'
  <2>1. call' \in [Procs -> CallRec']
    <3>1. call' = [q \in Procs |-> call'[q]]
      BY <1>1, MixedTypes
    <3>2. \A q \in Procs : call'[q] \in CallRec'
      BY <1>5, <1>6, <1>7, MixedTypes
    <3> QED
      BY <3>1, <3>2
  <2>2. keys' \in [Procs \union {Idle} -> Seq(KeyRec')]
    BY <1>5, MixedTypes, SeqMonotone
  <2>3. pc' \in [Procs -> {"user", "handled", "leaving", "again"}] /\ pressed' \in Nat
    BY <1>2, Types
  <2> QED
    BY <1>2, <1>3, <1>4, <1>5, <2>1, <2>2, <2>3, TypeBack
<1>9. RequestInv'
  <2>1. \A q \in Procs : /\ pc'[q] \in {"user", "again"} => call'[q].req = 0
                         /\ call'[q].req # 0 => call'[q].op = KILL
                         /\ pc'[q] = "again" => call'[q].op \in Blocking
    BY <1>6, <1>7 DEF GateInv, RequestInv
  <2>2. ASSUME NEW q \in Procs, pc'[q] = "handled", call'[q].req # 0, ~call'[q].mixed
        PROVE  Safe(call[q].req)'
    <3>1. q = p
      BY <1>6, <2>2 DEF InCall
    <3> QED
      BY <1>4, <1>7, <3>1 DEF Safe
  <2>3. \A q \in Procs \union {Idle} : \A i \in DOMAIN keys'[q] : keys'[q][i].mixed
    BY MixedTypes
  <2>4. SignalKept'
    BY <1>2 DEF GateInv, RequestInv, SignalKept
  <2> QED
    BY <2>1, <2>2, <2>3, <2>4 DEF RequestInv
<1>10. ResultInv'
  <2>1. ASSUME NEW q \in Procs, call'[q].op \in Blocking \union Plain, ~call'[q].mixed
        PROVE  /\ InCall(q)' => /\ kb'.by = call'[q].id
                 /\ call'[q].made = IF Again(call'[q].op, kb'.ret) THEN 0 ELSE 1
               /\ pc'[q] = "again" => call'[q].made = 0
    <3>1. q # p
      BY <1>7, <2>1, Kinds
    <3>2. ~InCall(q) /\ ~InCall(q)' /\ ~call[q].mixed
      BY <1>6, <2>1, <3>1 DEF InCall
    <3> QED
      BY <1>6, <2>1, <3>1, <3>2 DEF GateInv, ResultInv
  <2> QED
    BY <2>1 DEF ResultInv
<1> QED
  BY <1>4, <1>8, <1>9, <1>10 DEF GateInv

LEMMA CallStep == ASSUME GateInv, NEW p \in Procs, Call(p) PROVE GateInv'
<1>1. /\ pc[p] \in {"user", "again"} /\ pc' = [pc EXCEPT ![p] = "handled"]
      /\ keys' = MixedKeys /\ UNCHANGED <<pressed, fired, missed>>
  BY DEF Call
<1>2. CASE pc[p] = "again"
  <2>1. Int80(p, call[p].op)
    BY <1>2 DEF Call
  <2>2. call[p].op \in Calls \ {KILL}
    BY <1>2, Kinds DEF GateInv, RequestInv
  <2> QED
    BY <1>1, <2>1, <2>2, CallOfStep
<1>3. CASE pc[p] # "again"
  <2>1. CASE \E op \in Calls \ {KILL} : Int80(p, op)
    BY <1>1, <1>3, <2>1, CallOfStep
  <2>2. CASE Int80Kill(p)
    BY <1>1, <1>3, <2>2, KillCallStep
  <2> QED
    BY <1>3, <2>1, <2>2 DEF Call
<1> QED
  BY <1>2, <1>3

-----------------------------------------------------------------------------
\* What every step of the gate preserves.
THEOREM GateInvCorrect == Spec => []GateInv
<1>1. ASSUME GateInv, Next PROVE GateInv'
  <2>1. CASE \E p \in Procs : Call(p) \/ Signals79(p) \/ Leave(p)
    BY <1>1, <2>1, CallStep, SignalsStep, LeaveStep
  <2>2. CASE \E p \in Procs \union {Idle} : Key(p) \/ CtrlC(p) \/ KeyEnds(p)
    BY <1>1, <2>2, KeyStep, CtrlCStep, KeyEndsStep
  <2> QED
    BY <1>1, <2>1, <2>2 DEF Next
<1>2. ASSUME GateInv, UNCHANGED vars PROVE GateInv'
  <2>1. kb' = kb /\ pc' = pc /\ call' = call /\ keys' = keys /\ n' = n /\ pressed' = pressed
        /\ fired' = fired /\ asked' = asked /\ missed' = missed
    BY <1>2 DEF vars
  <2>2. TypeOK'
    BY <1>2, <2>1 DEF GateInv, TypeOK
  <2>3. PendingInv' /\ FiredAsAsked'
    BY <1>2, <2>1 DEF GateInv, PendingInv, FiredAsAsked, HasFired
  <2>4. \A r : Safe(r)' <=> Safe(r)
    BY <2>1 DEF Safe, HasFired
  <2>5. RequestInv'
    BY <1>2, <2>1, <2>4 DEF GateInv, RequestInv, SignalKept
  <2>6. ResultInv'
    BY <1>2, <2>1 DEF GateInv, ResultInv, InCall
  <2> QED
    BY <2>2, <2>3, <2>5, <2>6 DEF GateInv
<1> QED
  BY GateStart, <1>1, <1>2, PTL DEF Spec

\* kernel_buffer, the calls and the keys keep their ranges (kernel.c, libasm.asm).
THEOREM GateTypeCorrect == Spec => []TypeOK
<1>1. GateInv => TypeOK
  BY DEF GateInv
<1> QED
  BY <1>1, GateInvCorrect, PTL

\* signal_on_demand never calls sg_handle with the signal of one request and the
\* process of another, nor twice for one (kernel/kernel.c).
THEOREM FiredAsAskedCorrect == Spec => []FiredAsAsked
<1>1. GateInv => FiredAsAsked
  BY DEF GateInv
<1> QED
  BY <1>1, GateInvCorrect, PTL

\* A signal is fired by the end of its call, or of its key, unless another call
\* or a Ctrl-C came between.
THEOREM SignalKeptCorrect == Spec => []SignalKept
<1>1. GateInv => SignalKept
  BY DEF GateInv, RequestInv
<1> QED
  BY <1>1, GateInvCorrect, PTL

\* A stub returns its call's own result, and has made it once, unless another
\* call came between (libasm.asm).
THEOREM CallKeptCorrect == Spec => CallKept
<1>1. ASSUME GateInv, [Next]_vars
      PROVE  [\A p \in Procs :
                pc[p] = "leaving" /\ pc'[p] = "user" /\ call[p].op \in Blocking \union Plain
                /\ ~call[p].mixed => call[p].made = 1 /\ kb.by = call[p].id]_vars
  <2>1. ASSUME Next, NEW p \in Procs, pc[p] = "leaving", pc'[p] = "user"
        PROVE  Leave(p)
    <3>1. \A q \in Procs : Call(q) => ~(pc[p] = "leaving" /\ pc'[p] = "user")
      BY <1>1, Types DEF Call
    <3>2. \A q \in Procs : Signals79(q) => ~(pc[p] = "leaving" /\ pc'[p] = "user")
      BY <1>1, Types DEF Signals79
    <3>3. \A q \in Procs : Leave(q) /\ q # p => pc'[p] = pc[p]
      BY <1>1, Types DEF Leave
    <3>4. \A q \in Procs \union {Idle} : Key(q) \/ CtrlC(q) \/ KeyEnds(q) => pc' = pc
      BY DEF Key, CtrlC, KeyEnds
    <3> QED
      BY <2>1, <3>1, <3>2, <3>3, <3>4 DEF Next
  <2>2. ASSUME Next, NEW p \in Procs, pc[p] = "leaving", pc'[p] = "user",
               call[p].op \in Blocking \union Plain, ~call[p].mixed
        PROVE  call[p].made = 1 /\ kb.by = call[p].id
    BY <1>1, <2>1, <2>2, LeaveKept
  <2> QED
    BY <1>1, <2>2
<1> QED
  BY <1>1, GateInvCorrect, PTL DEF Spec, CallKept
=============================================================================
