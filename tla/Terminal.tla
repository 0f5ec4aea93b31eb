------------------------------ MODULE Terminal ------------------------------
(***************************************************************************)
(* The terminals of kernel/tty_context.c: one keyboard, one screen, the    *)
(* ring of typed characters of each terminal and the queue of its blocked  *)
(* readers.  Ctrl-N gives the screen and the keyboard to another terminal. *)
(*                                                                         *)
(* kb_tty is the terminal with the keyboard.  current_tty is another       *)
(* thing: scheduler_think makes it the terminal of the process it runs, so *)
(* that a system call works on its caller's.  Ctrl-N writes both, so from  *)
(* there to the next think they may be a terminal of somebody else.        *)
(*                                                                         *)
(* A process that is not asleep here may be chosen: Scheduler says when.   *)
(* Readers killed in a queue are not modelled.                             *)
(***************************************************************************)
EXTENDS Integers, Sequences, FiniteSets, Functions

CONSTANTS
  NTty,        \* terminals with a shell
  Procs,       \* programs that read
  TtyOf,       \* the terminal a program was started from
  BUFFER_SIZE, \* 255
  Full,        \* 16: with more characters than these a key is dropped
  CtrlKeys,    \* the control keys in use: lCtrl, rCtrl
  Other,       \* any process that is not in Procs
  MaxKeys      \* bound: how many characters are typed

Ttys == 0 .. NTty - 1
Slots == 0 .. BUFFER_SIZE - 1
Keys == 0 .. MaxKeys

ASSUME TerminalAssumption ==
  /\ NTty \in Nat \ {0} /\ TtyOf \in [Procs -> Ttys]
  /\ Full \in Nat /\ BUFFER_SIZE \in Nat /\ Full < BUFFER_SIZE
  /\ MaxKeys \in Nat /\ Other \notin Procs

VARIABLES
  running,           \* the process that runs, or Other
  current_tty,       \* whose ring, queue and flags the kernel works on
  kb_tty,            \* the terminal with the screen and the keyboard
  charBuffer, charBufferSize, charBufferRIndex, charBufferWIndex,
  read_pblocks,
  ctrl,              \* lCtrl and rCtrl of each context: those that are set
  calling,           \* programs inside read()
  asleep,            \* ... BLOCKED there
  keys,              \* how many characters were typed: they are numbered
  typed, taken       \* what each terminal took from the keyboard, and gave

cpu  == <<running, current_tty, kb_tty>>
ring == <<charBuffer, charBufferSize, charBufferRIndex, charBufferWIndex>>
logs == <<keys, typed, taken>>
vars == <<cpu, ring, read_pblocks, ctrl, calling, asleep, logs>>

Init ==
  /\ running = Other /\ current_tty = 0 /\ kb_tty = 0
  /\ charBuffer = [t \in Ttys |-> [i \in Slots |-> 0]]
  /\ charBufferSize   = [t \in Ttys |-> 0]
  /\ charBufferRIndex = [t \in Ttys |-> 0]
  /\ charBufferWIndex = [t \in Ttys |-> 0]
  /\ read_pblocks = [t \in Ttys |-> <<>>]
  /\ ctrl = [t \in Ttys |-> {}]
  /\ calling = {} /\ asleep = {}
  /\ keys = 0
  /\ typed = [t \in Ttys |-> <<>>] /\ taken = [t \in Ttys |-> <<>>]

\* queue_enqueue; there is room for every process.
Enqueued(q, p) == IF p \in Range(q) THEN q ELSE Append(q, p)

NextSlot(i) == IF i + 1 = BUFFER_SIZE THEN 0 ELSE i + 1

-----------------------------------------------------------------------------
(* The timer *)

\* altered: without switch_tty
ThinkStays(p) ==
  /\ p \notin asleep /\ running' = p
  /\ UNCHANGED <<current_tty, kb_tty, ring, read_pblocks, ctrl, calling, asleep, logs>>

\* The end of scheduler_think: a reader runs, with its terminal.
Think(p) ==
  /\ p \notin asleep
  /\ running' = p /\ current_tty' = TtyOf[p]
  /\ UNCHANGED <<kb_tty, ring, read_pblocks, ctrl, calling, asleep, logs>>

\* ... or somebody else does, of terminal t; idle is of terminal 0.
ThinkOther(t) ==
  /\ running' = Other /\ current_tty' = t
  /\ UNCHANGED <<kb_tty, ring, read_pblocks, ctrl, calling, asleep, logs>>

-----------------------------------------------------------------------------
(* The keyboard's interrupt, which finds any process running *)

\* altered: the readers are not told of the first character
UnlockLate(t) ==
  IF charBufferSize[t] > 0
  THEN /\ asleep' = asleep \ Range(read_pblocks[t])
       /\ read_pblocks' = [read_pblocks EXCEPT ![t] = <<>>]
  ELSE UNCHANGED <<asleep, read_pblocks>>

\* unlock_contexts: all readers blocked on terminal t are made ready.
Unlock(t) ==
  /\ asleep' = asleep \ Range(read_pblocks[t])
  /\ read_pblocks' = [read_pblocks EXCEPT ![t] = <<>>]

\* altered: a full buffer starts again
DropRestarts(t) ==
  /\ charBufferSize' = [charBufferSize EXCEPT ![t] = 0]
  /\ charBufferWIndex' = [charBufferWIndex EXCEPT ![t] = charBufferRIndex[t]]
  /\ UNCHANGED <<charBuffer, typed>>

Drop(t) == UNCHANGED <<charBuffer, charBufferWIndex, charBufferSize, typed>>

\* pushC: the character goes to the terminal t of the keyboard, if there is
\* room; current_tty is t for as long as it takes.
PushC(t) ==
  /\ keys < MaxKeys /\ keys' = keys + 1
  /\ IF charBufferSize[t] <= Full
     THEN /\ charBuffer' = [charBuffer EXCEPT ![t][charBufferWIndex[t]] = keys + 1]
          /\ charBufferWIndex' = [charBufferWIndex EXCEPT ![t] = NextSlot(@)]
          /\ charBufferSize' = [charBufferSize EXCEPT ![t] = @ + 1]
          /\ typed' = [typed EXCEPT ![t] = Append(@, keys + 1)]
     ELSE Drop(t)
  /\ Unlock(t)
  /\ UNCHANGED <<cpu, charBufferRIndex, ctrl, calling, taken>>

\* The digit of terminal t, where the context of the process that runs has
\* Ctrl down.
Switch(t) ==
  /\ ctrl[current_tty] # {}
  /\ current_tty' = t /\ kb_tty' = t
  /\ Unlock(t)
  /\ UNCHANGED <<running, ring, ctrl, calling, logs>>

\* controlKey tells the context of the process that runs, which need not be
\* the same when a key goes down and when it comes up.
Press(k) ==
  /\ ctrl' = [ctrl EXCEPT ![current_tty] = @ \cup {k}]
  /\ UNCHANGED <<cpu, ring, read_pblocks, calling, asleep, logs>>

Release(k) ==
  /\ ctrl' = [ctrl EXCEPT ![current_tty] = @ \ {k}]
  /\ UNCHANGED <<cpu, ring, read_pblocks, calling, asleep, logs>>

-----------------------------------------------------------------------------
(* Readers *)

Call(p) ==
  /\ running = p /\ p \notin calling /\ calling' = calling \cup {p}
  /\ UNCHANGED <<cpu, ring, read_pblocks, ctrl, asleep, logs>>

\* tty_read, whose stub repeats it as long as it blocks.  It blocks in the
\* queue of current_tty: the caller's, unless Ctrl-N came since the think.
ReadBlocks(p) ==
  /\ running = p /\ p \in calling \ asleep
  /\ charBufferSize[current_tty] = 0 \/ current_tty # TtyOf[p]
  /\ asleep' = asleep \cup {p}
  /\ read_pblocks' = [read_pblocks EXCEPT ![current_tty] = Enqueued(@, p)]
  /\ UNCHANGED <<cpu, ring, ctrl, calling, logs>>

\* ... or takes a character of its terminal, on screen or not.
ReadsChar(p) ==
  LET t == current_tty IN
  /\ running = p /\ p \in calling \ asleep
  /\ charBufferSize[t] # 0 /\ t = TtyOf[p]
  /\ taken' = [taken EXCEPT ![t] = Append(@, charBuffer[t][charBufferRIndex[t]])]
  /\ charBufferRIndex' = [charBufferRIndex EXCEPT ![t] = NextSlot(@)]
  /\ charBufferSize' = [charBufferSize EXCEPT ![t] = @ - 1]
  /\ calling' = calling \ {p}
  /\ UNCHANGED <<cpu, charBuffer, charBufferWIndex, read_pblocks, ctrl,
                 asleep, keys, typed>>

TtyRead(p) == ReadBlocks(p) \/ ReadsChar(p)

\* scheduler_tick counts down the sleep of the process that had the slot of p
\* before it, and wakes p.
WokenByTick(p) ==
  /\ p \in asleep /\ asleep' = asleep \ {p}
  /\ UNCHANGED <<cpu, ring, read_pblocks, ctrl, calling, logs>>

Next ==
  \/ PushC(kb_tty)
  \/ \E t \in Ttys : Switch(t) \/ ThinkOther(t)
  \/ \E k \in CtrlKeys : Press(k) \/ Release(k)
  \/ \E p \in Procs : Think(p) \/ Call(p) \/ TtyRead(p) \/ WokenByTick(p)

Spec == Init /\ [][Next]_vars

\* A ready process gets the CPU (ReadyRuns of Scheduler).  One that is
\* preempted goes on where it was, so its call comes, be it in many slices.
FairSpec ==
  Spec /\ \A p \in Procs : WF_vars(Think(p)) /\ SF_vars(TtyRead(p))

-----------------------------------------------------------------------------
\* The types of the variables.
TypeOK ==
  /\ running \in Procs \cup {Other} /\ current_tty \in Ttys /\ kb_tty \in Ttys
  /\ charBuffer \in [Ttys -> [Slots -> Keys]]
  /\ charBufferSize \in [Ttys -> 0 .. BUFFER_SIZE]
  /\ charBufferRIndex \in [Ttys -> Slots]
  /\ charBufferWIndex \in [Ttys -> Slots]
  /\ read_pblocks \in [Ttys -> Seq(Procs)]
  /\ ctrl \in [Ttys -> SUBSET CtrlKeys]
  /\ calling \subseteq Procs /\ asleep \subseteq calling
  /\ keys \in Keys
  /\ typed \in [Ttys -> Seq(Keys)] /\ taken \in [Ttys -> Seq(Keys)]

\* The i-th slot after the reading index.
At(t, i) == IF charBufferRIndex[t] + i < BUFFER_SIZE THEN charBufferRIndex[t] + i
            ELSE charBufferRIndex[t] + i - BUFFER_SIZE
Waiting(t) == [i \in 1 .. charBufferSize[t] |-> charBuffer[t][At(t, i - 1)]]

(* Whoever runs when a key comes, whoever reads, and however often the      *)
(* screen moves: the characters that pushC took for a terminal are read by  *)
(* programs of that terminal, each once and in order.                       *)
KeysInOrder == \A t \in Ttys : taken[t] \o Waiting(t) = typed[t]

(* A reader that tty_read blocked will be found by some unlock_contexts,    *)
(* and in the queue of its own terminal it has really nothing to read.      *)
AsleepForCause ==
  \A p \in asleep :
    /\ \E t \in Ttys : p \in Range(read_pblocks[t])
    /\ p \in Range(read_pblocks[TtyOf[p]]) => charBufferSize[TtyOf[p]] = 0

\* p sleeps where the keys of its own terminal do not wake it.
Stray(p) == p \in asleep /\ p \notin Range(read_pblocks[TtyOf[p]])

(* A reader goes astray to one place only: the terminal that Ctrl-N has     *)
(* just put on screen, where the next key the user types wakes it.          *)
StraysToScreen ==
  [][\A p \in Procs :
       Stray(p)' /\ ~ Stray(p) => p \in Range(read_pblocks'[kb_tty])]_vars

(* A character typed on a terminal is read, if a reader was there and is    *)
(* not sent astray: by that reader, or by another one.                      *)
KeyIsRead ==
  \A p \in Procs :
    LET t == TtyOf[p] IN
      (p \in calling /\ charBufferSize[t] > 0 /\ ~ Stray(p))
      ~> (p \notin calling \/ charBufferSize[t] = 0 \/ Stray(p))
=============================================================================
