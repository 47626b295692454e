------------------------------- MODULE Input -------------------------------
(***************************************************************************)
(* handle_input (shell/shell.c): the keys that the user types go through   *)
(* getch, the arrow hack and the vterm's output buffer into a non-blocking *)
(* pseudo-terminal, where bash reads them at its own pace. The vterm puts  *)
(* its answers to the program's queries into the same buffer.              *)
(*                                                                         *)
(* A byte is a record of what it is and of the key it stems from; keys are *)
(* numbered as they are typed, and 0 is the number of what nobody typed.   *)
(***************************************************************************)
EXTENDS Integers, Sequences

CONSTANTS
  Kinds,     \* bytes that the user types, "esc", "[" and "A" (an arrow) among them
  Lead,      \* second byte of an arrow in the vterm's mode: "[" or "O"
  BufCap,    \* bytes of the vterm's output buffer
  PtyCap,    \* bytes of input that the pty holds for bash
  MaxKeys, MaxExtras  \* bounds on the keys, and on resizes and answers

ASSUME InputAssumption ==
  /\ BufCap \in Nat \ {0} /\ PtyCap \in Nat \ {0}
  /\ MaxKeys \in Nat /\ MaxExtras \in Nat

VARIABLES
  tty,     \* bytes typed and not read yet
  ungot,   \* KEY_RESIZE that ncurses has pushed back: getch returns these first
  typed,   \* keys typed so far
  extras,  \* resizes and answers so far
  pc,      \* "poll", "getch", "arrow", "bracket", "flush"
  chars,   \* chars of handle_arrows
  buf,     \* output buffer of the vterm
  sent,    \* bytes that the pty has accepted
  unread,  \* how many of them bash has not read
  spoilt   \* history: "overflow" of buf, or a "short write" to the pty

vars == <<tty, ungot, typed, extras, pc, chars, buf, sent, unread, spoilt>>

Byte(kind, key) == [kind |-> kind, key |-> key]
NoKey == Byte("junk", 0)   \* the -1 of getch, taken for a character

Init ==
  /\ tty = <<>> /\ ungot = 0 /\ typed = 0 /\ extras = 0
  /\ pc = "poll" /\ chars = <<>> /\ buf = <<>>
  /\ sent = <<>> /\ unread = 0 /\ spoilt = {}
-----------------------------------------------------------------------------
(* The vterm's output buffer: what does not fit is dropped, or cut off.    *)

Room == BufCap - Len(buf)

Push(bytes) ==
  IF Len(bytes) <= Room
    THEN buf' = buf \o bytes /\ UNCHANGED spoilt
    ELSE /\ buf' \in {buf, buf \o SubSeq(bytes, 1, Room)}
         /\ spoilt' = spoilt \cup {"overflow"}
-----------------------------------------------------------------------------
(* handle_input and handle_arrows.                                         *)

\* poll has seen a key; KEY_RESIZE alone does not wake it.
Poll ==
  /\ pc = "poll" /\ tty # <<>>
  /\ pc' = "getch"
  /\ UNCHANGED <<tty, ungot, typed, extras, chars, buf, sent, unread, spoilt>>

\* Nothing left to read, or no room: on to the second loop.
GetchEnds ==
  /\ pc = "getch" /\ (Room = 0 \/ tty = <<>>)
  /\ ungot' = IF Room = 0 THEN ungot ELSE 0
  /\ pc' = "flush"
  /\ UNCHANGED <<tty, typed, extras, chars, buf, sent, unread, spoilt>>

\* The first key after any KEY_RESIZE.
Getch ==
  /\ pc = "getch" /\ Room > 0 /\ tty # <<>>
  /\ ungot' = 0
  /\ tty' = Tail(tty)
  /\ IF Head(tty).kind = "esc"
       THEN pc' = "arrow" /\ chars' = <<Head(tty)>> /\ UNCHANGED <<buf, spoilt>>
       ELSE Push(<<Head(tty)>>) /\ UNCHANGED <<pc, chars>>
  /\ UNCHANGED <<typed, extras, sent, unread>>

\* getch does not wait: the next byte, or -1. No KEY_RESIZE is left here.
Next1 == IF tty = <<>> THEN NoKey ELSE Head(tty)
Rest1 == IF tty = <<>> THEN <<>> ELSE Tail(tty)

\* Faulty variant: an escape that begins no arrow is swallowed.
ArrowSwallows ==
  /\ pc = "arrow"
  /\ tty' = Rest1
  /\ IF Next1.kind = "["
       THEN pc' = "bracket" /\ chars' = Append(chars, Next1) /\ UNCHANGED <<buf, spoilt>>
       ELSE pc' = "getch" /\ chars' = <<>> /\ Push(<<Next1>>)
  /\ UNCHANGED <<ungot, typed, extras, sent, unread>>

PushAll(bytes) == pc' = "getch" /\ chars' = <<>> /\ Push(bytes)

Arrow ==
  /\ pc = "arrow"
  /\ tty' = Rest1
  /\ IF Next1.kind = "["
       THEN pc' = "bracket" /\ chars' = Append(chars, Next1) /\ UNCHANGED <<buf, spoilt>>
       ELSE PushAll(Append(chars, Next1))
  /\ UNCHANGED <<ungot, typed, extras, sent, unread>>

\* Faulty variant: it goes on reading until a letter ends the sequence.
BracketReadsOn ==
  /\ pc = "bracket"
  /\ tty' = Rest1
  /\ IF Next1.kind \in {"A", "junk"}
       THEN PushAll(Append(chars, Next1))
       ELSE chars' = Append(chars, Next1) /\ UNCHANGED <<pc, buf, spoilt>>
  /\ UNCHANGED <<ungot, typed, extras, sent, unread>>

\* Faulty variant: an arrow is passed on as a key and as characters.
BracketTwice ==
  /\ pc = "bracket"
  /\ tty' = Rest1
  /\ PushAll(Append(chars, Next1) \o (IF Next1.kind = "A" THEN Append(chars, Next1) ELSE <<>>))
  /\ UNCHANGED <<ungot, typed, extras, sent, unread>>

\* An arrow goes out as the vterm's mode has it; anything else as it came in.
Bracket ==
  /\ pc = "bracket"
  /\ tty' = Rest1
  /\ PushAll(IF Next1.kind = "A"
               THEN <<chars[1], Byte(Lead, chars[2].key), Next1>>
               ELSE Append(chars, Next1))
  /\ UNCHANGED <<ungot, typed, extras, sent, unread>>

\* Faulty variant: the buffer is written only once it is full.
FlushWhenFull ==
  /\ pc = "flush" /\ Room > 0
  /\ pc' = "poll"
  /\ UNCHANGED <<tty, ungot, typed, extras, chars, buf, sent, unread, spoilt>>

\* The whole buffer is read out and written to the pty, which takes what it
\* has room for; the result of write is not looked at.
Flush ==
  /\ pc = "flush"
  /\ LET n == IF Len(buf) <= PtyCap - unread THEN Len(buf) ELSE PtyCap - unread IN
     /\ sent' = sent \o SubSeq(buf, 1, n)
     /\ unread' = unread + n
     /\ spoilt' = IF n < Len(buf) THEN spoilt \cup {"short write"} ELSE spoilt
  /\ buf' = <<>> /\ pc' = "poll"
  /\ UNCHANGED <<tty, ungot, typed, extras, chars>>

HandleInput == Poll \/ GetchEnds \/ Getch \/ Arrow \/ Bracket \/ Flush
-----------------------------------------------------------------------------
(* The user, ncurses, the vterm and bash.                                  *)

Type(k) ==
  /\ typed < MaxKeys
  /\ typed' = typed + 1
  /\ tty' = Append(tty, Byte(k, typed + 1))
  /\ UNCHANGED <<ungot, extras, pc, chars, buf, sent, unread, spoilt>>

\* window_resize makes ncurses push KEY_RESIZE back.
ResizeKey ==
  /\ pc = "poll" /\ extras < MaxExtras
  /\ extras' = extras + 1
  /\ ungot' = ungot + 1
  /\ UNCHANGED <<tty, typed, pc, chars, buf, sent, unread, spoilt>>

\* handle_output: the program asks the terminal something, and the answer lies
\* in the buffer until the next key.
Answer ==
  /\ pc = "poll" /\ extras < MaxExtras
  /\ extras' = extras + 1
  /\ Push(<<Byte("answer", 0)>>)
  /\ UNCHANGED <<tty, ungot, typed, pc, chars, sent, unread>>

BashReads ==
  /\ unread > 0
  /\ unread' = unread - 1
  /\ UNCHANGED <<tty, ungot, typed, extras, pc, chars, buf, sent, spoilt>>

Next ==
  \/ HandleInput \/ ResizeKey \/ Answer \/ BashReads
  \/ \E k \in Kinds : Type(k)

\* The loop never waits. Nothing is assumed of the user or of bash.
Spec == Init /\ [][Next]_vars /\ WF_vars(HandleInput)
-----------------------------------------------------------------------------
Bytes == [kind : Kinds \cup {"junk", "answer", Lead}, key : 0 .. MaxKeys]

Places == {"poll", "getch", "arrow", "bracket", "flush"}
Faults == {"overflow", "short write"}

\* Types, with the bounds of the arrays: chars[3] and the vterm's buffer.
TypeOK ==
  /\ tty \in Seq(Bytes) /\ chars \in Seq(Bytes) /\ buf \in Seq(Bytes) /\ sent \in Seq(Bytes)
  /\ typed \in 0 .. MaxKeys /\ extras \in 0 .. MaxExtras /\ ungot \in 0 .. extras
  /\ pc \in Places /\ spoilt \subseteq Faults
  /\ pc \in {"arrow", "bracket"} => ungot = 0
  /\ Len(chars) < 3 /\ Len(buf) <= BufCap
  /\ unread \in 0 .. PtyCap

\* All that is on its way to bash, what was typed first in front.
OnTheWay == sent \o buf \o chars \o tty

\* Of two bytes that were typed, the one in front was typed first.
Ordered(s) == \A i, j \in 1 .. Len(s) :
  i < j /\ s[i].key # 0 /\ s[j].key # 0 => s[i].key < s[j].key

KeysOf(s) == {s[i].key : i \in 1 .. Len(s)}

\* Bytes reach bash in the order in which they were typed and none twice, also
\* when an arrow is cut off, keys are dropped on the way, or KEY_RESIZE and the
\* vterm's answers come in between (shell.c:35-100).
KeysInOrder == Ordered(OnTheWay)

\* A key is lost only because the vterm's buffer or the pty was full
\* (shell.c:71, 97): not by a resize, an escape, or an arrow typed slowly.
LostOnlyIfFull == spoilt = {} => 1 .. typed \subseteq KeysOf(OnTheWay)

\* A key that was typed is passed on, without a further one to push it.
KeysPassedOn == \A k \in 1 .. MaxKeys :
  typed >= k ~> k \in KeysOf(sent) \/ spoilt # {}
=============================================================================
