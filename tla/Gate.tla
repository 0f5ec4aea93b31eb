-------------------------------- MODULE Gate --------------------------------
(***************************************************************************)
(* The way into the kernel: int 80h and int 79h (kernel/kernel.c), their    *)
(* handlers and the stubs of the calls in kernel/libasm.asm, and the        *)
(* keyboard's handler, which shares kernel_buffer with them.                *)
(*                                                                         *)
(* Handlers run with interrupts off.  They are on between the two           *)
(* interrupts of a call, and before its stub takes the result out of        *)
(* kernel_buffer: the timer may give the processor to any other process     *)
(* there, and a key may be pressed.                                         *)
(***************************************************************************)
EXTENDS Integers, Sequences, FiniteSets

CONSTANTS
  Procs,               \* programs that make calls
  Idle,                \* the idle process, which makes none
  Signals, Pids,       \* what kill may be asked for; a signal is not 0
  MaxCalls, MaxKeys    \* bounds

ASSUME GateAssumption ==
  /\ Idle \notin Procs /\ 0 \notin Signals
  /\ Pids # {} /\ MaxCalls \in Nat /\ MaxKeys \in Nat

KILL == "kill"
\* One call of each kind:
Blocking == {"write"}        \* READ, WRITE: their stubs call again on SYSR_BLOCK
Plain    == {"open"}         \* one result, which may be ERR_PERMS: -2 as well
Silent   == {"setsched"}     \* SETSCHED, FINFO, MOUNT: no result
Calls    == Blocking \union Plain \union Silent \union {KILL}
SYSR_BLOCK == -2

VARIABLES
  kb,      \* kernel_buffer: op [0], ret [15], sig [14], pid [13]
  pc,      \* of each program, in a call
  call,    \* what it has called
  keys,    \* keyboard's handlers that a process has to finish
  n, pressed,  \* calls of int 80h, keys pressed
  fired,   \* what sg_handle was called with
  asked,   \* who asked for a signal, and for which
  missed   \* not in the code: requests that nothing came between, not fired

vars == <<kb, pc, call, keys, n, pressed, fired, asked, missed>>

NoCall == [op |-> "none", made |-> 0, id |-> 0, mixed |-> FALSE, req |-> 0]

Init ==
  /\ kb = [op |-> "none", ret |-> 0, by |-> 0, sig |-> 0, pid |-> 0, req |-> 0]
  /\ pc = [p \in Procs |-> "user"] /\ call = [p \in Procs |-> NoCall]
  /\ keys = [p \in Procs \union {Idle} |-> <<>>]
  /\ n = 0 /\ pressed = 0
  /\ fired = <<>> /\ asked = <<>> /\ missed = {}

\* For the properties, kb.by is the call that gave the result, kb.req the
\* request that is pending, and `mixed` says of a call or a key that
\* kernel_buffer was given something else before it was done with it.
InCall(p) == pc[p] \in {"handled", "leaving"}
MixedCalls == [p \in Procs |-> [call[p] EXCEPT !.mixed = InCall(p) \/ @]]
MixedKills == [p \in Procs |-> [call[p] EXCEPT !.mixed = (InCall(p) /\ call[p].op = KILL) \/ @]]
MixedKeys  == [p \in Procs \union {Idle} |->
                 [i \in DOMAIN keys[p] |-> [keys[p][i] EXCEPT !.mixed = TRUE]]]

Asks(sig, pid) == asked' = Append(asked, [sig |-> sig, pid |-> pid])

-----------------------------------------------------------------------------
\* int_80: what it leaves in kernel_buffer, for call number id.
\* Mutant: a blocked call returns without its result.
HandledUnsaid(op, id, r) == [kb EXCEPT !.op = op, !.ret = IF r = SYSR_BLOCK THEN @ ELSE r,
                                       !.by = IF r = SYSR_BLOCK THEN @ ELSE id]

Handled(op, id, r) ==
  IF op \in Silent THEN [kb EXCEPT !.op = op]
  ELSE [kb EXCEPT !.op = op, !.ret = r, !.by = id]

\* What a call may return: a value of its own, or -2
Results(op) == IF op \in Silent THEN {0} ELSE {0, SYSR_BLOCK}

Int80(p, op) ==
  \E r \in Results(op) :
    /\ n' = n + 1
    /\ kb' = Handled(op, n', r)
    /\ call' = [MixedCalls EXCEPT ![p] =
         [op |-> op, id |-> n', req |-> 0, mixed |-> pc[p] = "again" /\ call[p].mixed,
          made |-> (IF pc[p] = "again" THEN call[p].made ELSE 0)
                   + (IF op \in Blocking /\ r = SYSR_BLOCK THEN 0 ELSE 1)]]
    /\ UNCHANGED asked

Int80Kill(p) ==
  \E sig \in Signals, pid \in Pids :
    /\ n' = n + 1
    /\ Asks(sig, pid)
    /\ kb' = [kb EXCEPT !.op = KILL, !.sig = sig, !.pid = pid, !.req = Len(asked')]
    /\ call' = [MixedCalls EXCEPT ![p] =
         [NoCall EXCEPT !.op = KILL, !.id = n', !.made = 1, !.req = Len(asked')]]

Enters(p) == keys[p] = <<>> /\ n < MaxCalls

\* A stub: the registers, and int 80h
Call(p) ==
  /\ Enters(p) /\ pc[p] \in {"user", "again"}
  /\ IF pc[p] = "again" THEN Int80(p, call[p].op)
     ELSE \/ \E op \in Calls \ {KILL} : Int80(p, op)
          \/ Int80Kill(p)
  /\ pc' = [pc EXCEPT ![p] = "handled"]
  /\ keys' = MixedKeys
  /\ UNCHANGED <<pressed, fired, missed>>

Fired == IF kb.sig # 0 /\ kb.op = KILL
         THEN Append(fired, [sig |-> kb.sig, pid |-> kb.pid, req |-> kb.req]) ELSE fired

\* signal_on_demand: what it leaves in kernel_buffer.
\* Mutant: the request stays there.
Kept == kb

Cleared == [kb EXCEPT !.sig = 0, !.pid = 0, !.req = 0]

Int79(req, mixed) ==
  /\ kb' = Cleared /\ fired' = Fired
  /\ missed' = IF req # 0 /\ ~mixed /\ \A i \in DOMAIN fired' : fired'[i].req # req
               THEN missed \union {req} ELSE missed

\* _int_80_hand, after int_80
Signals79(p) ==
  /\ pc[p] = "handled" /\ keys[p] = <<>>
  /\ Int79(call[p].req, call[p].mixed)
  /\ pc' = [pc EXCEPT ![p] = "leaving"]
  /\ UNCHANGED <<call, keys, n, pressed, asked>>

\* The end of a stub: the result is kernel_buffer[15], whosever it is.  read and
\* write yield, and call again, on a -2.
Again(op, ret) == op \in Blocking /\ ret = SYSR_BLOCK

Leave(p) ==
  /\ pc[p] = "leaving" /\ keys[p] = <<>>
  /\ IF Again(call[p].op, kb.ret)
     THEN pc' = [pc EXCEPT ![p] = "again"] /\ UNCHANGED call
     ELSE pc' = [pc EXCEPT ![p] = "user"] /\ call' = [call EXCEPT ![p] = NoCall]
  /\ UNCHANGED <<kb, keys, n, pressed, fired, asked, missed>>

-----------------------------------------------------------------------------
\* The keyboard's handler, on the stack of the process it interrupts.  It says
\* KILL whatever the key is, so that its own int 79h fires a Ctrl-C.
\* Mutant: it only puts the request.
SaysKillNot == kb.op
SaysKill == KILL

Key(p) ==
  /\ pressed < MaxKeys /\ pressed' = pressed + 1
  /\ kb' = [kb EXCEPT !.op = SaysKill]
  /\ keys' = [keys EXCEPT ![p] = Append(@, [req |-> 0, mixed |-> FALSE])]
  /\ UNCHANGED <<pc, call, n, fired, asked, missed>>

CtrlC(p) ==
  /\ pressed < MaxKeys /\ pressed' = pressed + 1
  /\ \E tty \in Pids :
       /\ Asks(2, tty)
       /\ kb' = [kb EXCEPT !.op = SaysKill, !.sig = 2, !.pid = tty, !.req = Len(asked')]
  /\ call' = MixedKills
  /\ keys' = [MixedKeys EXCEPT ![p] = Append(@, [req |-> Len(asked'), mixed |-> FALSE])]
  /\ UNCHANGED <<pc, n, fired, missed>>

KeyEnds(p) ==
  /\ keys[p] # <<>>
  /\ LET k == keys[p][Len(keys[p])] IN Int79(k.req, k.mixed)
  /\ keys' = [keys EXCEPT ![p] = SubSeq(@, 1, Len(@) - 1)]
  /\ UNCHANGED <<pc, call, n, pressed, asked>>

Next == \/ \E p \in Procs : Call(p) \/ Signals79(p) \/ Leave(p)
        \/ \E p \in Procs \union {Idle} : Key(p) \/ CtrlC(p) \/ KeyEnds(p)

Spec == Init /\ [][Next]_vars

-----------------------------------------------------------------------------
\* A pending request is one that was asked for, and the requests and the calls
\* are numbered.
TypeOK ==
  /\ kb \in [op : Calls \union {"none"}, ret : {0, SYSR_BLOCK}, by : 0 .. n,
             sig : Signals \union {0, 2}, pid : Pids \union {0}, req : 0 .. Len(asked)]
  /\ kb.sig = 0 <=> kb.req = 0
  /\ pc \in [Procs -> {"user", "handled", "leaving", "again"}]
  /\ call \in [Procs -> [op : Calls \union {"none"}, made : Nat, id : 0 .. n,
                         mixed : BOOLEAN, req : 0 .. Len(asked)]]
  /\ keys \in [Procs \union {Idle} -> Seq([req : 0 .. Len(asked), mixed : BOOLEAN])]
  /\ n \in Nat /\ pressed \in Nat
  /\ fired \in Seq([sig : Signals \union {2}, pid : Pids, req : 1 .. Len(asked)])
  /\ asked \in Seq([sig : Signals \union {2}, pid : Pids])

\* sg_handle is called with what one request asked for, never with the signal
\* of one and the process of another, and once for a request at most.
FiredAsAsked ==
  /\ \A i \in DOMAIN fired :
       fired[i].req \in DOMAIN asked /\ asked[fired[i].req] = [sig |-> fired[i].sig, pid |-> fired[i].pid]
  /\ \A i, j \in DOMAIN fired : fired[i].req = fired[j].req => i = j

\* A signal is fired by the end of the call, or the key, that asked for it,
\* whatever keys are pressed meanwhile, unless another call or a Ctrl-C came
\* between: those lose it.
SignalKept == missed = {}

\* A call that returns has been made once, blocked or not before, and with its
\* own result, unless another was made before it took its result.
CallKept ==
  [][\A p \in Procs :
       pc[p] = "leaving" /\ pc'[p] = "user" /\ call[p].op \in Blocking \union Plain
       /\ ~call[p].mixed => call[p].made = 1 /\ kb.by = call[p].id]_vars
=============================================================================
