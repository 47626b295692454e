-------------------------- MODULE FilesystemProofs --------------------------
(***************************************************************************)
(* Machine-checked proofs about Filesystem, for any limits of errm that    *)
(* leave room for its functions, any directories and any number of calls.  *)
(***************************************************************************)
EXTENDS Filesystem, SequenceTheorems, TLAPS

(***************************************************************************)
(* The functions: the places in each of them, and which one is called at   *)
(* each place that waits for a value. "none" is the place of the program.  *)
(***************************************************************************)
InEmalloc    == {"emalloc", "emalloc ends"}
InExpand     == {"expand", "first word", "copy", "expand ends"}
InRelative   == {"relative", "join", "print"}
InOpenDir    == {"open_dir", "to open", "opendir", "open_dir ends"}
InAbsPath    == {"abs_path", "expanded", "from relative", "abs_path ends"}
InDirContent == {"dir_content", "opened", "new array", "readdir", "grow", "new name",
                 "memfail", "free names", "dir_content ends"}

Labels == InEmalloc \cup InExpand \cup InRelative \cup InOpenDir \cup InAbsPath \cup InDirContent

\* The array is not in order there.
Adding == {"new name", "memfail", "free names"}

\* They wait for a value there.
Calling == {"copy", "print", "expanded", "to open", "abs_path ends", "opened"}

Within(c) ==
  CASE c = "none"                    -> InAbsPath \cup InDirContent
    [] c \in {"copy", "print"}       -> InEmalloc
    [] c \in {"expanded", "to open"} -> InExpand
    [] c = "abs_path ends"           -> InRelative
    [] c = "opened"                  -> InOpenDir
    [] OTHER                         -> {}

\* How deep a function can be on the stack.
Rank(l) ==
  CASE l \in InEmalloc              -> 4
    [] l \in InExpand               -> 3
    [] l \in InOpenDir \cup InRelative -> 2
    [] OTHER                        -> 1

\* The block that the function called at c returns, if it succeeds.
Brings(c) ==
  CASE c \in {"copy", "expanded", "to open"} -> "path"
    [] c \in {"print", "abs_path ends"}      -> "abs"
    [] c = "opened"                          -> "dir"
    [] OTHER                                 -> NULL

\* What the functions that wait have allocated when the one at c calls.
Below(c) ==
  CASE c = "copy"          -> {"words"}
    [] c = "abs_path ends" -> {"path"}
    [] c = "print"         -> {"path", "cwd"}
    [] OTHER               -> {}

\* What the defer of a function releases that has come to l, v being the value.
Kept(l, v) ==
  CASE l \in {"first word", "copy"} -> {"words"}
    [] l = "print"                  -> {"cwd"}
    [] l \in {"from relative", "abs_path ends", "opendir", "open_dir ends"} -> {"path"}
    [] l \in {"grow", "new name", "memfail", "free names", "dir_content ends"} -> {"dir"}
    [] l \in {"join", "new array", "readdir"} -> {v}
    [] OTHER                        -> {}

\* What else it has in hand: the value it was given, and the array.
InHand(l, v) ==
  CASE l \in Calling \cup Ends -> {v}
    [] l \in {"readdir", "grow", "new name", "memfail", "free names"} -> {"names"}
    [] OTHER -> {}

\* What the value can be there.
Vals(c, l) ==
  CASE l \in Calling        -> {Brings(l), NULL}
    [] l = "emalloc ends"   -> {Brings(c), NULL}
    [] l = "join"           -> {"cwd", NULL}
    [] l \in {"open_dir ends", "new array", "readdir"}      -> {"dir", NULL}
    [] l \in {"grow", "new name", "memfail"}                -> {"dir"}
    [] l \in {"expand ends", "free names", "dir_content ends"} -> {NULL}
    [] OTHER -> Blocks \cup {NULL}

\* What a function at l returns, called at c.
Results(c, l) ==
  IF c # "none" THEN {Brings(c), NULL}
  ELSE IF l \in InAbsPath THEN {"path", "abs", NULL} ELSE {"names", NULL}
-----------------------------------------------------------------------------
(* The inductive invariant. Types first, with the shape of the frames: no   *)
(* function here registers more than one defer.                            *)

Entry == [num : Nat, at : {0}, size : {WordexpSize}]
Slots == [stat : {<<>>} \cup {<<e>> : e \in Entry}, dyn : {<<>>} \cup {<<n>> : n \in Nat},
          used : {0, WordexpSize}, busy : SUBSET Entry]

Failures == {"malloc", "wordexp", "wordexp nospace", "no word", "getcwd", "opendir",
             "opendir silently",
             "dga_new", "dga_grow"}

Arrays == [len : 0 .. MaxNames, holds : 0 .. MaxNames, live : SUBSET (1 .. MaxNames)]

States ==
  [at : Seq(Labels), val : Blocks \cup {NULL}, arg : Seq(Blocks \cup {NULL}),
   heap : SUBSET Blocks, lost : SUBSET Blocks, array : Arrays, calls : 0 .. MaxCalls,
   failed : SUBSET Failures, fault : {"none"} \cup {c[1] : c \in Causes}]

Types ==
  /\ fs \in States
  /\ curr = Len(fs.at) - 1
  /\ count = Len(fs.arg)
  /\ frame \in [E!Depths -> Slots]
  /\ phase \in [E!Depths -> E!Phases]
  /\ err \in Nat
  /\ ~aborted
  /\ fs.fault = "none" \/ \E c \in fs.failed : <<fs.fault, c>> \in Causes

\* The stack: each function was called by the one below it, which waits in its
\* body with its defer registered; the frames above are empty.
Caller(i) == IF i = 1 THEN "none" ELSE fs.at[i - 1]

Holds(f, arg, S) ==
  \/ f.stat = <<>> /\ f.dyn = <<>> /\ S = {}
  \/ \E n \in 0 .. Len(arg) - 1 :
       /\ S = {arg[n + 1]}
       /\ \/ f.dyn = <<>> /\ \E e \in Entry : f.stat = <<e>> /\ e.num = n
          \/ f.stat = <<>> /\ f.dyn = <<n>>

Shape == \A i \in 1 .. Len(fs.at) : fs.at[i] \in Within(Caller(i)) /\ i <= Rank(fs.at[i])

Waits == \A i \in 1 .. Len(fs.at) - 1 :
  /\ phase[i - 1] = "body" /\ Holds(frame[i - 1], fs.arg, Kept(fs.at[i], NULL))
  /\ fs.at[i] # "copy" => frame[i - 1].used = 0

Unused == \A d \in E!Depths : d > curr =>
  frame[d].stat = <<>> /\ frame[d].dyn = <<>> /\ frame[d].used = 0

\* The heap consists of what is accounted for, but for an array whose dga_new
\* failed.
Accounts(X) ==
  /\ fs.heap \ {"names"} = X \ {"names", NULL}
  /\ "names" \in fs.heap => "names" \in X
  /\ "names" \in X \ fs.heap => "dga_new" \in fs.failed

\* A value comes without error and NULL with one, but for opendir's errno.
Told(silent) ==
  /\ fs.val # NULL => err = 0
  /\ fs.val = NULL => err # 0 \/ (silent /\ "opendir silently" \in fs.failed)

\* The innermost function at l, called at c, in its body ...
InBody(c, l) ==
  /\ fs.val \in Vals(c, l)
  /\ Holds(frame[curr], fs.arg, Kept(l, fs.val))
  /\ l \notin {"first word", "copy"} => frame[curr].used = 0
  /\ Accounts(Below(c) \cup Kept(l, fs.val) \cup InHand(l, fs.val))
  /\ IF l \in Calling \cup Ends \cup {"free names"}
       THEN Told(l \in {"opened", "open_dir ends"})
       ELSE err = 0
  /\ l = "join" /\ fs.val = NULL => "getcwd" \in fs.failed
  /\ l \in {"new array", "readdir"} /\ fs.val = NULL => "opendir silently" \in fs.failed

\* ... and after it, when its defer runs.
InEnd(c, l) ==
  /\ fs.val \in Results(c, l)
  /\ Told(l \in InOpenDir)
  /\ phase[curr] \in {"dyn", "in_dyn"} => frame[curr].stat = <<>> /\ frame[curr].used = 0
  /\ \E S \in SUBSET ((Blocks \ {"names"}) \cup {NULL}) :
       /\ Holds(frame[curr], fs.arg, S)
       /\ Accounts(Below(c) \cup S \cup {fs.val})
       /\ S \cap (Below(c) \cup {fs.val}) \subseteq {NULL}

Inner ==
  LET c == Caller(Len(fs.at)) l == fs.at[Len(fs.at)] IN
  IF fs.at = <<>> THEN fs.val \in {"path", "abs", "names", NULL} /\ Accounts({fs.val})
  ELSE IF phase[curr] = "body" THEN InBody(c, l) ELSE InEnd(c, l)

\* The array is in order but while an entry is added to it.
Place == IF fs.at # <<>> /\ phase[curr] = "body" THEN fs.at[Len(fs.at)] ELSE "none"

NamesOK ==
  LET a == fs.array IN
  /\ "names" \notin fs.heap =>
       a.live = {} /\ Place \notin Adding
  /\ "names" \in fs.heap =>
       CASE Place = "new name" -> a.len = a.holds /\ a.len >= 1 /\ a.live = 1 .. a.len - 1
         [] Place \in {"memfail", "free names"} ->
              a.len = a.holds + 1 /\ a.live = 1 .. a.holds /\ "dga_grow" \in fs.failed
         [] OTHER -> a.len = a.holds /\ a.live = 1 .. a.len
  /\ Place = "grow" => a.len < MaxNames

Inv == Types /\ (fs.fault = "none" => Shape /\ Waits /\ Unused /\ Inner /\ NamesOK)
-----------------------------------------------------------------------------
(* The stack of functions, and the one defer of a frame.                   *)

\* The place of the innermost function is the last of the stack.
LEMMA Top ==
  ASSUME NEW s \in Seq(Labels), s # <<>>
  PROVE  Len(s) \in Nat \ {0} /\ Last(s) = s[Len(s)] /\ s[Len(s)] \in Labels
<1>1. Len(s) \in Nat \ {0}
  BY EmptySeq
<1>2. Len(s) \in 1 .. Len(s)
  BY <1>1
<1> QED BY <1>1, <1>2, ElementOfSeq DEF Last

\* The innermost function moves to l, calls another one that starts at m, or is
\* popped: what the stack is then (the wrapper of errm.h:84).
LEMMA StackOps ==
  ASSUME NEW s \in Seq(Labels), s # <<>>, NEW l \in Labels, NEW m \in Labels
  PROVE  LET n == Len(s)
             t == Append(Front(s), l)
             u == t \o <<m>> IN
         /\ n \in Nat \ {0} /\ Last(s) = s[n] /\ \A i \in 1 .. n : s[i] \in Labels
         /\ Front(s) \in Seq(Labels) /\ Len(Front(s)) = n - 1
         /\ \A i \in 1 .. n - 1 : Front(s)[i] = s[i]
         /\ t \in Seq(Labels) /\ Len(t) = n /\ t # <<>> /\ t[n] = l
         /\ \A i \in 1 .. n - 1 : t[i] = s[i]
         /\ u \in Seq(Labels) /\ Len(u) = n + 1 /\ u # <<>> /\ u[n + 1] = m /\ u[n] = l
         /\ \A i \in 1 .. n - 1 : u[i] = s[i]
<1> DEFINE n == Len(s)
           t == Append(Front(s), l)
           u == t \o <<m>>
<1>1. n \in Nat \ {0} /\ Last(s) = s[n] /\ \A i \in 1 .. n : s[i] \in Labels
  BY EmptySeq, ElementOfSeq DEF Last
<1>2. /\ Front(s) \in Seq(Labels) /\ Len(Front(s)) = n - 1
      /\ \A i \in 1 .. n - 1 : Front(s)[i] = s[i]
  <2>1. 1 \in Int /\ n - 1 \in Int /\ \A i \in 1 .. n - 1 : s[i] \in Labels
    BY <1>1
  <2>2. /\ SubSeq(s, 1, n - 1) \in Seq(Labels)
        /\ Len(SubSeq(s, 1, n - 1)) = IF 1 <= n - 1 THEN n - 1 - 1 + 1 ELSE 0
        /\ \A i \in 1 .. n - 1 - 1 + 1 : SubSeq(s, 1, n - 1)[i] = s[1 + i - 1]
    BY <2>1, SubSeqProperties
  <2>3. Front(s) = SubSeq(s, 1, n - 1)
    BY DEF Front
  <2> HIDE DEF n
  <2>4. n - 1 - 1 + 1 = n - 1 /\ (IF 1 <= n - 1 THEN n - 1 - 1 + 1 ELSE 0) = n - 1
    BY <1>1
  <2>5. \A i \in 1 .. n - 1 : 1 + i - 1 = i
    BY <1>1
  <2> QED BY <2>2, <2>3, <2>4, <2>5
<1>3. /\ t \in Seq(Labels) /\ Len(t) = n /\ t[n] = l
      /\ \A i \in 1 .. n - 1 : t[i] = s[i]
  <2>1. /\ t \in Seq(Labels) /\ Len(t) = Len(Front(s)) + 1 /\ t[Len(Front(s)) + 1] = l
        /\ \A i \in 1 .. Len(Front(s)) : t[i] = Front(s)[i]
    BY <1>2, AppendProperties
  <2> HIDE DEF t
  <2> QED BY <1>1, <1>2, <2>1
<1> HIDE DEF t
<1>4. /\ u \in Seq(Labels) /\ Len(u) = n + 1 /\ u[n + 1] = m /\ u[n] = l
      /\ \A i \in 1 .. n - 1 : u[i] = s[i]
  <2>1. <<m>> \in Seq(Labels) /\ Len(<<m>>) = 1 /\ <<m>>[1] = m
    OBVIOUS
  <2>2. /\ u \in Seq(Labels) /\ Len(u) = Len(t) + Len(<<m>>)
        /\ \A i \in 1 .. Len(t) + Len(<<m>>) :
             u[i] = IF i <= Len(t) THEN t[i] ELSE <<m>>[i - Len(t)]
    BY <1>3, <2>1, ConcatProperties
  <2> HIDE DEF n, u
  <2>3. Len(t) = n /\ n \in Nat \ {0}
    BY <1>1, <1>3
  <2>4. \A i \in 1 .. n + 1 : u[i] = IF i <= n THEN t[i] ELSE <<m>>[i - n]
    BY <2>1, <2>2, <2>3
  <2>5. u[n + 1] = m
    <3>1. n + 1 \in 1 .. n + 1 /\ ~(n + 1 <= n) /\ n + 1 - n = 1
      BY <2>3
    <3> QED BY <2>1, <2>3, <2>4, <3>1
  <2>6. \A i \in 1 .. n : u[i] = t[i]
    BY <2>3, <2>4
  <2>7. n \in 1 .. n /\ \A i \in 1 .. n - 1 : i \in 1 .. n
    BY <2>3
  <2>8. u[n] = l /\ \A i \in 1 .. n - 1 : u[i] = s[i]
    BY <1>3, <2>6, <2>7, Zenon
  <2> QED BY <2>1, <2>2, <2>3, <2>5, <2>8
<1>5. t # <<>> /\ u # <<>>
  BY <1>1, <1>3, <1>4, EmptySeq
<1> HIDE DEF n, u
<1> QED BY <1>1, <1>2, <1>3, <1>4, <1>5, Zenon DEF n, t, u

\* The stack when the innermost function waits at l for the one that starts at m.
Called(s, l, m) == Append(Front(s), l) \o <<m>>

\* Stack u is one place deeper than s: it ends with l and m, and is s below.
Deeper(u, s, l, m) ==
  /\ u \in Seq(Labels) /\ Len(u) = Len(s) + 1 /\ u # <<>> /\ u[Len(s) + 1] = m /\ u[Len(s)] = l
  /\ \A i \in 1 .. Len(s) - 1 : u[i] = s[i]

\* A call leaves the places below as they were (errm.h:84).
LEMMA CallStack ==
  ASSUME NEW s \in Seq(Labels), s # <<>>, NEW l \in Labels, NEW m \in Labels
  PROVE  Deeper(Called(s, l, m), s, l, m)
<1> DEFINE n == Len(s)
           t == Append(Front(s), l)
           u == t \o <<m>>
<1>1. /\ u \in Seq(Labels) /\ Len(u) = n + 1 /\ u # <<>> /\ u[n + 1] = m /\ u[n] = l
      /\ \A i \in 1 .. n - 1 : u[i] = s[i]
  BY StackOps
<1>2. Called(s, l, m) = u
  BY DEF Called
<1> HIDE DEF u
<1> QED BY <1>1, <1>2 DEF Deeper

\* A defer that is registered by another function, or this one's own one.
LEMMA HoldsGrow ==
  ASSUME NEW arg \in Seq(Blocks \cup {NULL}), NEW b \in Blocks \cup {NULL}
  PROVE  /\ Append(arg, b) \in Seq(Blocks \cup {NULL}) /\ Len(Append(arg, b)) = Len(arg) + 1
         /\ \A f, S : Holds(f, arg, S) => Holds(f, Append(arg, b), S)
         /\ \A f : f.stat = <<>> /\ f.dyn = <<Len(arg)>> => Holds(f, Append(arg, b), {b})
         /\ \A f, e : f.stat = <<e>> /\ f.dyn = <<>> /\ e \in Entry /\ e.num = Len(arg)
                        => Holds(f, Append(arg, b), {b})
<1> DEFINE new == Append(arg, b)
<1>1. /\ new \in Seq(Blocks \cup {NULL}) /\ Len(new) = Len(arg) + 1 /\ Len(arg) \in Nat
      /\ new[Len(arg) + 1] = b /\ \A i \in 1 .. Len(arg) : new[i] = arg[i]
  BY AppendProperties, LenProperties
<1> HIDE DEF new
<1>2. \A n \in 0 .. Len(arg) - 1 : n \in 0 .. Len(new) - 1 /\ new[n + 1] = arg[n + 1]
  BY <1>1
<1>3. Len(arg) \in 0 .. Len(new) - 1
  BY <1>1
<1>4. \A f, S : Holds(f, arg, S) => Holds(f, new, S)
  BY <1>2 DEF Holds
<1>5. \A f : f.stat = <<>> /\ f.dyn = <<Len(arg)>> => Holds(f, new, {b})
  BY <1>1, <1>3 DEF Holds
<1>6. \A f, e : f.stat = <<e>> /\ f.dyn = <<>> /\ e \in Entry /\ e.num = Len(arg)
                   => Holds(f, new, {b})
  BY <1>1, <1>3 DEF Holds
<1> QED BY <1>1, <1>4, <1>5, <1>6 DEF new

\* A function that keeps nothing has no defers.
LEMMA HoldsNothing == \A f, arg : Holds(f, arg, {}) <=> f.stat = <<>> /\ f.dyn = <<>>
BY DEF Holds

\* Only its two lists of defers say what a frame holds.
LEMMA HoldsSame ==
  ASSUME NEW f, NEW g, g.stat = f.stat, g.dyn = f.dyn, NEW arg, NEW S, Holds(f, arg, S)
  PROVE  Holds(g, arg, S)
BY DEF Holds

\* Sequences of one element.
LEMMA OneElement ==
  ASSUME NEW e
  PROVE  /\ Append(<<>>, e) = <<e>> /\ Last(<<e>>) = e /\ Front(<<e>>) = <<>> /\ <<e>> # <<>>
         /\ Len(<<>>) = 0
<1>1. Append(<<>>, e) = <<e>> /\ Len(<<e>>) = 1 /\ <<e>>[1] = e /\ <<e>> # <<>> /\ Len(<<>>) = 0
  OBVIOUS
<1>2. SubSeq(<<e>>, 1, Len(<<e>>) - 1) = <<>>
  BY <1>1, SubSeqEmpty
<1> QED BY <1>1, <1>2 DEF Last, Front
-----------------------------------------------------------------------------
(* Steps within a body.                                                    *)

\* Where a place can be called from.
LEMMA Callers ==
  ASSUME NEW c, NEW l, l \in Within(c)
  PROVE  /\ l \in InEmalloc => c \in {"copy", "print"}
         /\ l \in InExpand => c \in {"expanded", "to open"}
         /\ l \in InRelative => c = "abs_path ends"
         /\ l \in InOpenDir => c = "opened"
         /\ l \in InAbsPath \cup InDirContent => c = "none"
BY DEF Within, InEmalloc, InExpand, InRelative, InOpenDir, InAbsPath, InDirContent

\* What is known where the innermost function is at l.
LEMMA Here ==
  ASSUME Inv, NEW l, At(l)
  PROVE  /\ Len(fs.at) \in 1 .. 4 /\ curr = Len(fs.at) - 1 /\ curr \in E!Depths
         /\ fs.at \in Seq(Labels) /\ fs.at # <<>> /\ fs.at[Len(fs.at)] = l /\ l \in Labels
         /\ phase[curr] = "body" /\ Place = l /\ fs.fault = "none"
         /\ l \in Within(Caller(Len(fs.at))) /\ InBody(Caller(Len(fs.at)), l)
         /\ Shape /\ Waits /\ Unused /\ NamesOK
<1>1. Types /\ Shape /\ Waits /\ Unused /\ Inner /\ NamesOK
  BY DEF Inv, At
<1>2. fs.at \in Seq(Labels) /\ fs.at # <<>> /\ Last(fs.at) = l /\ fs.fault = "none"
  BY <1>1 DEF Types, States, At
<1>3. Len(fs.at) \in Nat \ {0} /\ fs.at[Len(fs.at)] = l /\ l \in Labels
  BY <1>2, Top
<1>4. phase[curr] = "body"
  BY DEF At, E!Running
<1>5. l \in Within(Caller(Len(fs.at))) /\ Len(fs.at) <= Rank(l)
  BY <1>1, <1>3 DEF Shape
<1>6. Len(fs.at) \in 1 .. 4 /\ curr = Len(fs.at) - 1 /\ curr \in E!Depths
  <2>1. Rank(l) \in 1 .. 4
    BY DEF Rank
  <2>2. curr = Len(fs.at) - 1 /\ StackSize \in Nat /\ StackSize >= 4
    BY <1>1, FilesystemAssumption DEF Types, FilesystemAssumption
  <2> DEFINE n == Len(fs.at)
             r == Rank(l)
  <2>3. n \in Nat \ {0} /\ n <= r /\ r \in 1 .. 4 /\ curr = n - 1
    BY <1>3, <1>5, <2>1, <2>2
  <2>4. StackSize \in Nat /\ StackSize >= 4
    BY <2>2
  <2> HIDE DEF n, r
  <2>5. n \in 1 .. 4 /\ curr = n - 1 /\ curr \in E!Depths
    BY <2>3, <2>4 DEF E!Depths
  <2> QED BY <2>5 DEF n
<1>7. InBody(Caller(Len(fs.at)), l)
  BY <1>1, <1>2, <1>3, <1>4 DEF Inner
<1> QED BY <1>1, <1>2, <1>3, <1>4, <1>5, <1>6, <1>7 DEF Place

\* The innermost function moves on to m, and no frame changes.
Together(l, m) ==
  \/ {l, m} \subseteq InEmalloc \/ {l, m} \subseteq InExpand \/ {l, m} \subseteq InRelative
  \/ {l, m} \subseteq InOpenDir \/ {l, m} \subseteq InAbsPath \/ {l, m} \subseteq InDirContent

\* Places of one function have the same callers and the same depth.
LEMMA SameFunction ==
  ASSUME NEW l, NEW m, Together(l, m)
  PROVE  /\ l \in Labels /\ m \in Labels /\ Rank(m) = Rank(l)
         /\ \A c : l \in Within(c) => m \in Within(c)
<1>1. l \in Labels /\ m \in Labels
  BY DEF Together, Labels
<1>2. Rank(m) = Rank(l)
  BY DEF Together, Rank, InEmalloc, InExpand, InRelative, InOpenDir, InAbsPath, InDirContent
<1>3. ASSUME NEW c, l \in Within(c) PROVE m \in Within(c)
  BY <1>3 DEF Together, Within, InEmalloc, InExpand, InRelative, InOpenDir, InAbsPath, InDirContent
<1> QED BY <1>1, <1>2, <1>3

\* A step within the innermost function, at l, takes it to m and leaves errm's
\* stack alone: Inv holds again if what InBody and NamesOK say of m does.
LEMMA Moves ==
  ASSUME Inv, NEW l, At(l), NEW m, Together(l, m),
         NEW c, c = Caller(Len(fs.at)),
         fs'.at = To(m), fs'.arg = fs.arg, UNCHANGED <<curr, frame, phase, aborted, count>>,
         fs' \in States, fs'.fault = "none", err' \in Nat
  PROVE  /\ Place' = m
         /\ InBody(c, m)' /\ NamesOK' => Inv'
<1> DEFINE n == Len(fs.at)
<1>0. m \in Labels /\ (l \in Within(c) => m \in Within(c)) /\ Rank(m) = Rank(l)
  BY SameFunction
<1>1. /\ n \in 1 .. 4 /\ curr = n - 1 /\ fs.at \in Seq(Labels) /\ fs.at # <<>>
      /\ fs.at[n] = l /\ phase[curr] = "body" /\ l \in Within(c) /\ Shape /\ Waits /\ Unused
  BY Here
<1>2. /\ fs'.at \in Seq(Labels) /\ Len(fs'.at) = n /\ fs'.at # <<>> /\ fs'.at[n] = m
      /\ \A i \in 1 .. n - 1 : fs'.at[i] = fs.at[i]
  <2> DEFINE t == Append(Front(fs.at), m)
  <2>1. t \in Seq(Labels) /\ Len(t) = n /\ t # <<>> /\ t[n] = m /\ \A i \in 1 .. n - 1 : t[i] = fs.at[i]
    BY <1>0, <1>1, StackOps
  <2>2. fs'.at = t
    BY DEF To
  <2> HIDE DEF t, n
  <2> QED BY <2>1, <2>2
<1> HIDE DEF n
<1>3. \A i \in 1 .. n : Caller(i)' = Caller(i)
  BY <1>1, <1>2 DEF Caller
<1>4. Shape'
  <2>1. c = Caller(n) /\ n \in 1 .. n /\ \A i \in 1 .. n : i = n \/ i \in 1 .. n - 1
    BY <1>1 DEF n
  <2>2. \A i \in 1 .. n : fs.at[i] \in Within(Caller(i)) /\ i <= Rank(fs.at[i])
    BY <1>1, Zenon DEF Shape, n
  <2>3. ASSUME NEW i \in 1 .. n
        PROVE  fs'.at[i] \in Within(Caller(i)') /\ i <= Rank(fs'.at[i])
    <3>1. Caller(i)' = Caller(i)
      BY <1>3
    <3>2. CASE i = n
      <4>1. fs.at[i] = l /\ fs'.at[i] = m /\ l \in Within(Caller(i))
        BY <1>1, <1>2, <2>1, <3>2
      <4>2. m \in Within(Caller(i)) /\ i <= Rank(m)
        BY <1>0, <2>1, <2>2, <3>2, <4>1
      <4> QED BY <3>1, <4>1, <4>2
    <3>3. CASE i \in 1 .. n - 1
      <4>1. fs'.at[i] = fs.at[i]
        BY <1>2, <3>3
      <4>2. fs.at[i] \in Within(Caller(i)) /\ i <= Rank(fs.at[i])
        BY <2>2
      <4> QED BY <3>1, <4>1, <4>2
    <3> QED BY <2>1, <3>2, <3>3
  <2> QED BY <1>2, <2>3 DEF Shape
<1>5. Waits'
  <2>1. \A i \in 1 .. n - 1 : fs'.at[i] = fs.at[i]
    BY <1>2
  <2>2. \A i \in 1 .. n - 1 :
          /\ phase[i - 1] = "body" /\ Holds(frame[i - 1], fs.arg, Kept(fs.at[i], NULL))
          /\ fs.at[i] # "copy" => frame[i - 1].used = 0
    BY <1>1, Zenon DEF Waits, n
  <2>3. \A i \in 1 .. n - 1 :
          /\ phase'[i - 1] = "body" /\ Holds(frame'[i - 1], fs'.arg, Kept(fs'.at[i], NULL))
          /\ fs'.at[i] # "copy" => frame'[i - 1].used = 0
    BY <2>1, <2>2, Zenon
  <2> QED BY <1>2, <2>3, Zenon DEF Waits
<1>6. Unused' /\ Place' = m
  BY <1>1, <1>2 DEF Unused, Place, n
<1>7. InBody(c, m)' => Inner'
  <2>1. c = IF n = 1 THEN "none" ELSE fs'.at[n - 1]
    <3>1. c = IF n = 1 THEN "none" ELSE fs.at[n - 1]
      BY DEF Caller, n
    <3>2. CASE n = 1
      BY <3>1, <3>2
    <3>3. CASE n # 1
      <4>1. n - 1 \in 1 .. n - 1
        BY <1>1, <3>3
      <4>2. fs'.at[n - 1] = fs.at[n - 1]
        BY <1>2, <4>1
      <4> QED BY <3>1, <3>3, <4>2
    <3> QED BY <3>2, <3>3
  <2>2. Caller(Len(fs.at))' = c /\ fs'.at[Len(fs'.at)] = m
    BY <1>2, <2>1 DEF Caller
  <2>3. fs'.at # <<>> /\ phase'[curr'] = "body"
    BY <1>1, <1>2
  <2> QED BY <2>2, <2>3 DEF Inner, InBody, Accounts, Told
<1>8. Types'
  <2>1. Len(fs'.at) = Len(fs.at)
    BY <1>2 DEF n
  <2> QED BY <2>1 DEF Inv, Types
<1> QED BY <1>4, <1>5, <1>6, <1>7, <1>8 DEF Inv

\* The stack after a move.
LEMMA ToLabels ==
  ASSUME Inv, NEW l, At(l), NEW m, Together(l, m)
  PROVE  To(m) \in Seq(Labels)
BY Here, SameFunction, StackOps DEF To

\* An external call that fails leaves NULL, one that succeeds its block.
LEMMA FailsFields ==
  ASSUME fs \in States, NEW what \in Failures, NEW m, To(m) \in Seq(Labels), Fails(what, m)
  PROVE  /\ fs' \in States /\ fs'.at = To(m) /\ fs'.val = NULL /\ fs'.arg = fs.arg
         /\ fs'.heap = fs.heap /\ fs'.array = fs.array /\ fs'.fault = fs.fault
         /\ fs'.failed = fs.failed \cup {what}
BY DEF Fails, States

\* The same, when it succeeds.
LEMMA AllocatesFields ==
  ASSUME fs \in States, NEW b \in Blocks, NEW m, To(m) \in Seq(Labels), Allocates(b, m)
  PROVE  /\ fs' \in States /\ fs'.at = To(m) /\ fs'.val = b /\ fs'.arg = fs.arg
         /\ fs'.heap = fs.heap \cup {b} /\ fs'.array = fs.array /\ fs'.fault = fs.fault
         /\ fs'.failed = fs.failed
BY DEF Allocates, States

\* The errors that are set here are not 0.
LEMMA ErrorNumbers ==
  NOT_ENOUGH_MEMORY \in Nat \ {0} /\ PARSING_ERROR \in Nat \ {0}
BY DEF NOT_ENOUGH_MEMORY, PARSING_ERROR

\* They are all that changes when one is set.
LEMMA SetErrorFields ==
  ASSUME NEW e \in Nat \ {0}, E!SetError(e)
  PROVE  err' \in Nat \ {0} /\ UNCHANGED <<curr, frame, phase, aborted, count>>
BY DEF E!SetError, E!Says

\* The innermost function returns: its defers are run next.
LEMMA Returns ==
  ASSUME Inv, NEW l, At(l), NEW v \in Blocks \cup {NULL}, Return(v),
         NEW c, c = Caller(Len(fs.at))
  PROVE  /\ fs'.at = fs.at /\ fs'.arg = fs.arg /\ fs'.heap = fs.heap /\ fs'.val = v
         /\ fs'.array = fs.array /\ fs'.failed = fs.failed
         /\ UNCHANGED <<err, curr, frame>> /\ phase'[curr] = "static" /\ Place' = "none"
         /\ InEnd(c, l)' /\ NamesOK' => Inv'
<1> DEFINE n == Len(fs.at)
<1>1. /\ n \in 1 .. 4 /\ curr = n - 1 /\ fs.at \in Seq(Labels) /\ fs.at # <<>> /\ curr \in E!Depths
      /\ fs.at[n] = l /\ phase[curr] = "body" /\ l \in Within(c) /\ Shape /\ Waits /\ Unused
      /\ fs.fault = "none"
  BY Here
<1>2. Types
  BY DEF Inv
<1>3. /\ fs' \in States /\ fs'.at = fs.at /\ fs'.arg = fs.arg /\ fs'.heap = fs.heap /\ fs'.val = v
      /\ fs'.array = fs.array /\ fs'.failed = fs.failed /\ fs'.fault = fs.fault
  BY <1>2 DEF Return, Types, States
<1>4. /\ UNCHANGED <<err, curr, frame, aborted, count>>
      /\ phase' = [phase EXCEPT ![curr] = "static"]
  BY DEF Return, E!Return
<1>5. phase' \in [E!Depths -> E!Phases] /\ phase'[curr] = "static"
  BY <1>1, <1>2, <1>4 DEF Types, E!Phases
<1>6. Types'
  BY <1>2, <1>3, <1>4, <1>5 DEF Types
<1>7. \A i \in 1 .. n : Caller(i)' = Caller(i)
  BY <1>3 DEF Caller
<1>8. Shape' /\ Unused'
  BY <1>1, <1>3, <1>4 DEF Shape, Unused, Caller
<1>9. Waits'
  <2> HIDE DEF n
  <2>1. \A i \in 1 .. n - 1 : phase'[i - 1] = phase[i - 1]
    BY <1>1, <1>2, <1>4 DEF Types
  <2> QED BY <1>1, <1>3, <1>4, <2>1 DEF Waits, n
<1>10. Place' = "none" /\ (InEnd(c, l)' => Inner')
  <2>1. fs'.at # <<>> /\ phase'[curr'] # "body" /\ fs'.at[Len(fs'.at)] = l
    BY <1>1, <1>3, <1>4, <1>5
  <2>2. c = Caller(Len(fs.at))'
    BY <1>3 DEF Caller
  <2> QED BY <2>1, <2>2 DEF Place, Inner
<1> QED BY <1>1, <1>3, <1>4, <1>5, <1>6, <1>8, <1>9, <1>10 DEF Inv

\* A return that leaves only what the caller expects preserves Inv (errm.h:95).
LEMMA ReturnsInv ==
  ASSUME Inv, NEW l, At(l), l \notin Adding,
         NEW c, c = Caller(Len(fs.at)),
         NEW v \in Results(c, l), Return(v),
         NEW S \in SUBSET ((Blocks \ {"names"}) \cup {NULL}), Holds(frame[curr], fs.arg, S),
         Accounts(Below(c) \cup S \cup {v}), S \cap (Below(c) \cup {v}) \subseteq {NULL},
         v # NULL => err = 0,
         v = NULL => err # 0 \/ (l \in InOpenDir /\ "opendir silently" \in fs.failed)
  PROVE  Inv'
<1>1. v \in Blocks \cup {NULL}
  BY DEF Results, Brings, Blocks
<1>2. /\ fs'.at = fs.at /\ fs'.arg = fs.arg /\ fs'.heap = fs.heap /\ fs'.val = v
      /\ fs'.array = fs.array /\ fs'.failed = fs.failed
      /\ UNCHANGED <<err, curr, frame>> /\ phase'[curr] = "static" /\ Place' = "none"
      /\ InEnd(c, l)' /\ NamesOK' => Inv'
  BY <1>1, Returns
<1>3. Told(l \in InOpenDir)'
  BY <1>2 DEF Told
<1>4. Holds(frame[curr], fs.arg, S)' /\ Accounts(Below(c) \cup S \cup {fs.val})'
  BY <1>2 DEF Accounts
<1>5. S \cap (Below(c) \cup {fs'.val}) \subseteq {NULL} /\ fs'.val \in Results(c, l)
  BY <1>2
<1>6. ~(phase[curr] \in {"dyn", "in_dyn"})'
  BY <1>2
<1>7. InEnd(c, l)'
  BY <1>3, <1>4, <1>5, <1>6 DEF InEnd
<1>8. Place = l /\ NamesOK
  BY Here
<1>9. NamesOK'
  BY <1>2, <1>8 DEF NamesOK, Adding
<1> QED BY <1>2, <1>7, <1>9

\* The innermost function registers a defer for block b and moves on to m.
LEMMA Registers ==
  ASSUME Inv, NEW l, At(l), NEW m, Together(l, m),
         NEW c, c = Caller(Len(fs.at)),
         NEW b \in Blocks \cup {NULL}, fs'.at = To(m), fs'.arg = Append(fs.arg, b),
         NEW g \in Slots, frame' = [frame EXCEPT ![curr] = g], count' = count + 1,
         UNCHANGED <<err, curr, phase, aborted>>, fs' \in States, fs'.fault = "none"
  PROVE  /\ Place' = m /\ frame'[curr] = g
         /\ InBody(c, m)' /\ NamesOK' => Inv'
<1> DEFINE n == Len(fs.at)
<1>0. m \in Labels /\ (l \in Within(c) => m \in Within(c)) /\ Rank(m) = Rank(l)
  BY SameFunction
<1>1. /\ n \in 1 .. 4 /\ curr = n - 1 /\ fs.at \in Seq(Labels) /\ fs.at # <<>> /\ curr \in E!Depths
      /\ fs.at[n] = l /\ phase[curr] = "body" /\ l \in Within(c) /\ Shape /\ Waits /\ Unused
  BY Here
<1>2. /\ fs'.at \in Seq(Labels) /\ Len(fs'.at) = n /\ fs'.at # <<>> /\ fs'.at[n] = m
      /\ \A i \in 1 .. n - 1 : fs'.at[i] = fs.at[i]
  <2> DEFINE t == Append(Front(fs.at), m)
  <2>1. t \in Seq(Labels) /\ Len(t) = n /\ t # <<>> /\ t[n] = m /\ \A i \in 1 .. n - 1 : t[i] = fs.at[i]
    BY <1>0, <1>1, StackOps
  <2>2. fs'.at = t
    BY DEF To
  <2> HIDE DEF t, n
  <2> QED BY <2>1, <2>2
<1>3. Types
  BY DEF Inv
<1>4. /\ frame' \in [E!Depths -> Slots] /\ frame'[curr] = g
      /\ \A d \in E!Depths : d # curr => frame'[d] = frame[d]
  BY <1>1, <1>3 DEF Types
<1>5. fs.arg \in Seq(Blocks \cup {NULL}) /\ count = Len(fs.arg)
  BY <1>3 DEF Types, States
<1>6. Len(fs'.arg) = count + 1 /\ \A f, S : Holds(f, fs.arg, S) => Holds(f, fs'.arg, S)
  BY <1>5, HoldsGrow
<1>7. Types'
  <2>1. Len(fs'.at) = Len(fs.at)
    BY <1>2 DEF n
  <2> QED BY <1>3, <1>4, <1>6, <2>1 DEF Types
<1> HIDE DEF n
<1>8. \A i \in 1 .. n : Caller(i)' = Caller(i)
  BY <1>1, <1>2 DEF Caller
<1>9. Shape'
  <2>1. c = Caller(n) /\ n \in 1 .. n /\ \A i \in 1 .. n : i = n \/ i \in 1 .. n - 1
    BY <1>1 DEF n
  <2>2. \A i \in 1 .. n : fs.at[i] \in Within(Caller(i)) /\ i <= Rank(fs.at[i])
    BY <1>1, Zenon DEF Shape, n
  <2>3. ASSUME NEW i \in 1 .. n
        PROVE  fs'.at[i] \in Within(Caller(i)') /\ i <= Rank(fs'.at[i])
    <3>1. Caller(i)' = Caller(i)
      BY <1>8
    <3>2. CASE i = n
      <4>1. fs.at[i] = l /\ fs'.at[i] = m /\ l \in Within(Caller(i))
        BY <1>1, <1>2, <2>1, <3>2
      <4>2. m \in Within(Caller(i)) /\ i <= Rank(m)
        BY <1>0, <2>1, <2>2, <3>2, <4>1
      <4> QED BY <3>1, <4>1, <4>2
    <3>3. CASE i \in 1 .. n - 1
      <4>1. fs'.at[i] = fs.at[i]
        BY <1>2, <3>3
      <4>2. fs.at[i] \in Within(Caller(i)) /\ i <= Rank(fs.at[i])
        BY <2>2
      <4> QED BY <3>1, <4>1, <4>2
    <3> QED BY <2>1, <3>2, <3>3
  <2> QED BY <1>2, <2>3 DEF Shape
<1>10. Waits'
  <2>1. \A i \in 1 .. n - 1 : i - 1 \in E!Depths /\ i - 1 # curr
    BY <1>1, FilesystemAssumption DEF FilesystemAssumption, E!Depths
  <2>2. \A i \in 1 .. n - 1 : frame'[i - 1] = frame[i - 1]
    BY <1>4, <2>1
  <2>3. \A i \in 1 .. n - 1 :
          /\ phase[i - 1] = "body" /\ Holds(frame[i - 1], fs.arg, Kept(fs.at[i], NULL))
          /\ fs.at[i] # "copy" => frame[i - 1].used = 0
    BY <1>1, Zenon DEF Waits, n
  <2>4. \A i \in 1 .. n - 1 :
          /\ phase'[i - 1] = "body" /\ Holds(frame'[i - 1], fs'.arg, Kept(fs'.at[i], NULL))
          /\ fs'.at[i] # "copy" => frame'[i - 1].used = 0
    BY <1>2, <1>6, <2>2, <2>3, Zenon
  <2> QED BY <1>2, <2>4, Zenon DEF Waits
<1>11. Unused' /\ Place' = m
  BY <1>1, <1>2, <1>4 DEF Unused, Place, n, E!Depths
<1>12. InBody(c, m)' => Inner'
  <2>1. c = IF n = 1 THEN "none" ELSE fs'.at[n - 1]
    <3>1. c = IF n = 1 THEN "none" ELSE fs.at[n - 1]
      BY DEF Caller, n
    <3>2. CASE n = 1
      BY <3>1, <3>2
    <3>3. CASE n # 1
      <4>1. n - 1 \in 1 .. n - 1
        BY <1>1, <3>3
      <4>2. fs'.at[n - 1] = fs.at[n - 1]
        BY <1>2, <4>1
      <4> QED BY <3>1, <3>3, <4>2
    <3> QED BY <3>2, <3>3
  <2>2. Caller(Len(fs.at))' = c /\ fs'.at[Len(fs'.at)] = m
    BY <1>2, <2>1 DEF Caller
  <2>3. fs'.at # <<>> /\ phase'[curr'] = "body"
    BY <1>1, <1>2
  <2> QED BY <2>2, <2>3 DEF Inner, InBody, Accounts, Told
<1> QED BY <1>4, <1>7, <1>9, <1>10, <1>11, <1>12 DEF Inv

\* A dynamic defer of a function that has none.
LEMMA DeferSlot ==
  ASSUME Types, curr \in E!Depths, E!Defer(curr), Holds(frame[curr], fs.arg, {}),
         frame[curr].used = 0
  PROVE  \E g \in Slots :
           /\ g.stat = <<>> /\ g.dyn = <<Len(fs.arg)>> /\ g.used = 0
           /\ frame' = [frame EXCEPT ![curr] = g] /\ count' = count + 1
           /\ UNCHANGED <<err, curr, phase, aborted>>
<1> DEFINE f == frame[curr]
           g == [f EXCEPT !.dyn = Append(@, count)]
<1>1. f \in Slots /\ f.stat = <<>> /\ f.dyn = <<>> /\ count = Len(fs.arg) /\ count \in Nat
  BY HoldsNothing DEF Types, States
<1>2. g.stat = <<>> /\ g.dyn = <<count>> /\ g.used = 0 /\ g.busy = f.busy /\ g \in Slots
  <2>1. g = [stat |-> f.stat, dyn |-> Append(f.dyn, count), used |-> f.used, busy |-> f.busy]
    BY <1>1 DEF Slots
  <2>2. Append(f.dyn, count) = <<count>>
    BY <1>1, OneElement
  <2> QED BY <1>1, <2>1, <2>2 DEF Slots
<1>3. ~E!DynFull(f)
  <2>1. MaxDyn \in Nat \ {0} /\ Len(f.dyn) = 0
    BY <1>1, OneElement, FilesystemAssumption DEF FilesystemAssumption
  <2> HIDE DEF f
  <2> QED BY <2>1 DEF E!DynFull
<1>4. /\ frame' = [frame EXCEPT ![curr] = E!AddDyn(@)] /\ count' = count + 1
      /\ UNCHANGED <<err, curr, phase, aborted>>
  BY <1>3 DEF E!Defer
<1>5. frame' = [frame EXCEPT ![curr] = g]
  BY <1>4 DEF E!AddDyn
<1> QED BY <1>1, <1>2, <1>4, <1>5

\* defer() (errm.c:109) in a function that has none, which goes on at m.
LEMMA DeferMoves ==
  ASSUME Inv, NEW l, At(l), NEW m, Together(l, m),
         NEW c, c = Caller(Len(fs.at)),
         NEW b \in Blocks \cup {NULL}, fs'.at = To(m), fs'.arg = Append(fs.arg, b),
         fs' \in States, fs'.fault = "none",
         E!Defer(curr), Holds(frame[curr], fs.arg, {}), frame[curr].used = 0
  PROVE  /\ Place' = m /\ err' = err
         /\ Holds(frame[curr], fs.arg, {b})' /\ (frame[curr].used = 0)'
         /\ InBody(c, m)' /\ NamesOK' => Inv'
<1>1. Types /\ curr \in E!Depths
  BY Here DEF Inv
<1>2. PICK g \in Slots :
           /\ g.stat = <<>> /\ g.dyn = <<Len(fs.arg)>> /\ g.used = 0
           /\ frame' = [frame EXCEPT ![curr] = g] /\ count' = count + 1
           /\ UNCHANGED <<err, curr, phase, aborted>>
  BY <1>1, DeferSlot
<1>3. Place' = m /\ frame'[curr] = g /\ (InBody(c, m)' /\ NamesOK' => Inv')
  BY <1>2, Registers
<1>4. fs.arg \in Seq(Blocks \cup {NULL})
  BY <1>1 DEF Types, States
<1>5. Holds(g, fs'.arg, {b})
  BY <1>2, <1>4, HoldsGrow
<1> QED BY <1>2, <1>3, <1>5

\* The static defer of expand fits: its function has no other one.
LEMMA StaticMoves ==
  ASSUME Inv, NEW l, At(l), NEW m, Together(l, m),
         NEW c, c = Caller(Len(fs.at)),
         NEW b \in Blocks \cup {NULL}, fs'.at = To(m), fs'.arg = Append(fs.arg, b),
         fs' \in States, fs'.fault = "none",
         E!StaticDefer(curr, WordexpSize), Holds(frame[curr], fs.arg, {}), frame[curr].used = 0
  PROVE  /\ Place' = m /\ err' = err
         /\ Holds(frame[curr], fs.arg, {b})'
         /\ InBody(c, m)' /\ NamesOK' => Inv'
<1> DEFINE f == frame[curr]
           e == [num |-> count, at |-> 0, size |-> WordexpSize]
           g == [stat |-> <<e>>, dyn |-> <<>>, used |-> WordexpSize, busy |-> f.busy]
<1>1. Types /\ curr \in E!Depths
  BY Here DEF Inv
<1>2. /\ f \in Slots /\ f.stat = <<>> /\ f.dyn = <<>> /\ f.used = 0 /\ count = Len(fs.arg)
      /\ count \in Nat /\ fs.arg \in Seq(Blocks \cup {NULL})
  BY <1>1, HoldsNothing DEF Types, States
<1>3. e \in Entry /\ g \in Slots
  <2>1. e \in Entry
    BY <1>2 DEF Entry
  <2> HIDE DEF e
  <2>2. f.busy \in SUBSET Entry
    BY <1>2 DEF Slots
  <2> QED BY <2>1, <2>2 DEF Slots
<1>4. WordexpSize \in Nat /\ 0 + WordexpSize = WordexpSize /\ WordexpSize <= PoolSize
      /\ MaxStatic \in Nat \ {0} /\ PoolSize \in Nat
  BY FilesystemAssumption DEF FilesystemAssumption
<1>5. ~E!StaticFull(f, WordexpSize)
  <2>1. Len(f.stat) = 0 /\ f.used = 0
    BY <1>2, OneElement
  <2> HIDE DEF f
  <2> QED BY <1>4, <2>1 DEF E!StaticFull
<1>6. /\ frame' = [frame EXCEPT ![curr] = E!AddStatic(@, WordexpSize)] /\ count' = count + 1
      /\ UNCHANGED <<err, curr, phase, aborted>>
  BY <1>5 DEF E!StaticDefer
<1>7. E!AddStatic(f, WordexpSize) = g
  <2>1. Append(f.stat, e) = <<e>>
    BY <1>2, OneElement
  <2> QED BY <1>2, <1>4, <2>1 DEF E!AddStatic
<1>8. frame' = [frame EXCEPT ![curr] = g]
  BY <1>1, <1>6, <1>7 DEF Types
<1> HIDE DEF g
<1>9. Place' = m /\ frame'[curr] = g /\ (InBody(c, m)' /\ NamesOK' => Inv')
  BY <1>3, <1>6, <1>8, Registers
<1>10. g.stat = <<e>> /\ g.dyn = <<>> /\ e.num = Len(fs.arg)
  BY <1>2 DEF g
<1> HIDE DEF e
<1>11. Holds(g, fs'.arg, {b})
  BY <1>2, <1>3, <1>10, HoldsGrow
<1> QED BY <1>6, <1>9, <1>11

\* Where a call enters a function.
LEMMA Entries ==
  ASSUME NEW m \in Calling,
         NEW e \in {"emalloc", "expand", "relative", "open_dir"}, e \in Within(m)
  PROVE  /\ e \in Labels /\ Rank(m) \in 1 .. 3 /\ Rank(e) \in Nat /\ Rank(m) + 1 <= Rank(e)
         /\ \A c, v : Vals(c, e) = Blocks \cup {NULL} /\ Kept(e, v) = {} /\ InHand(e, v) = {}
         /\ e \notin Calling \cup Ends \cup {"free names", "first word", "copy", "join",
                                             "new array", "readdir", "new name", "memfail", "grow"}
<1>1. e \in Labels
  BY DEF Labels, InEmalloc, InExpand, InRelative, InOpenDir
<1>2. Rank(m) \in 1 .. 3 /\ Rank(e) \in Nat /\ Rank(m) + 1 <= Rank(e)
  <2> USE DEF InEmalloc, InExpand, InRelative, InOpenDir
  <2>1. CASE m = "copy"
    <3>1. e = "emalloc"
      BY <2>1 DEF Within
    <3>2. Rank(e) = 4 /\ Rank(m) = 3
      BY <2>1, <3>1 DEF Rank
    <3> QED BY <3>2
  <2>2. CASE m = "print"
    <3>1. e = "emalloc"
      BY <2>2 DEF Within
    <3>2. Rank(e) = 4 /\ Rank(m) = 2
      BY <2>2, <3>1 DEF Rank
    <3> QED BY <3>2
  <2>3. CASE m = "to open"
    <3>1. e = "expand"
      BY <2>3 DEF Within
    <3>2. Rank(e) = 3 /\ Rank(m) = 2
      BY <2>3, <3>1 DEF Rank
    <3> QED BY <3>2
  <2>4. CASE m = "expanded"
    <3>1. e = "expand"
      BY <2>4 DEF Within
    <3>2. Rank(e) = 3 /\ Rank(m) = 1
      BY <2>4, <3>1 DEF Rank
    <3> QED BY <3>2
  <2>5. CASE m = "abs_path ends"
    <3>1. e = "relative"
      BY <2>5 DEF Within
    <3>2. Rank(e) = 2 /\ Rank(m) = 1
      BY <2>5, <3>1 DEF Rank
    <3> QED BY <3>2
  <2>6. CASE m = "opened"
    <3>1. e = "open_dir"
      BY <2>6 DEF Within
    <3>2. Rank(e) = 2 /\ Rank(m) = 1
      BY <2>6, <3>1 DEF Rank
    <3> QED BY <3>2
  <2> QED BY <2>1, <2>2, <2>3, <2>4, <2>5, <2>6 DEF Calling
<1>3. \A c, v : Vals(c, e) = Blocks \cup {NULL} /\ Kept(e, v) = {} /\ InHand(e, v) = {}
  BY DEF Vals, Kept, InHand, Calling, Ends
<1>4. e \notin Calling \cup Ends \cup {"free names", "first word", "copy", "join",
                                       "new array", "readdir", "new name", "memfail", "grow"}
  BY DEF Calling, Ends
<1> QED BY <1>1, <1>2, <1>3, <1>4

\* The innermost function calls the one that starts at e and waits at m.
LEMMA CallsInv ==
  ASSUME Inv, NEW l, At(l), l \notin Adding,
         NEW m \in Calling, Together(l, m),
         NEW e \in {"emalloc", "expand", "relative", "open_dir"}, e \in Within(m),
         Call(e, m), Holds(frame[curr], fs.arg, Kept(m, NULL)), Accounts(Below(m)),
         m # "copy" => frame[curr].used = 0
  PROVE  Inv'
<1>n. PICK n : n = Len(fs.at)
  OBVIOUS
<1>0. m \in Labels /\ Rank(m) = Rank(l) /\ \A c : l \in Within(c) => m \in Within(c)
  BY SameFunction
<1>1. /\ n \in 1 .. 4 /\ curr = n - 1 /\ fs.at \in Seq(Labels) /\ fs.at # <<>> /\ curr \in E!Depths
      /\ fs.at[n] = l /\ phase[curr] = "body" /\ l \in Within(Caller(n)) /\ Shape /\ Waits /\ Unused
      /\ NamesOK /\ Place = l /\ fs.fault = "none"
  BY <1>n, Here
<1>2. /\ e \in Labels /\ Rank(m) \in 1 .. 3 /\ Rank(e) \in Nat /\ Rank(m) + 1 <= Rank(e)
      /\ \A c, v : Vals(c, e) = Blocks \cup {NULL} /\ Kept(e, v) = {} /\ InHand(e, v) = {}
      /\ e \notin Calling \cup Ends \cup {"free names", "first word", "copy", "join",
                                          "new array", "readdir", "new name", "memfail", "grow"}
  BY Entries
<1>3. Types
  BY DEF Inv
<1> DEFINE u == Called(fs.at, m, e)
<1>5. fs' = [fs EXCEPT !.at = u]
  BY DEF Call, To, Called
<1> HIDE DEF u
<1>4. /\ u \in Seq(Labels) /\ Len(u) = n + 1 /\ u # <<>> /\ u[n + 1] = e /\ u[n] = m
      /\ \A i \in 1 .. n - 1 : u[i] = fs.at[i]
  <2>1. m \in Labels /\ e \in Labels /\ fs.at \in Seq(Labels) /\ fs.at # <<>>
    BY <1>0, <1>1, <1>2
  <2>2. Deeper(u, fs.at, m, e)
    BY <2>1, CallStack DEF u
  <2> QED BY <1>n, <2>2 DEF Deeper
<1>6. /\ fs' \in States /\ fs'.at = u /\ fs'.arg = fs.arg /\ fs'.heap = fs.heap
      /\ fs'.val = fs.val /\ fs'.array = fs.array /\ fs'.failed = fs.failed
      /\ fs'.fault = fs.fault
  BY <1>3, <1>4, <1>5 DEF Types, States
<1> DEFINE r == Rank(m)
           q == Rank(e)
<1>r. r \in 1 .. 3 /\ q \in Nat /\ r + 1 <= q
  BY <1>2
<1>s. n <= r
  BY <1>n, <1>0, <1>1 DEF Shape
<1> HIDE DEF r, q
<1>7. n \in 1 .. 3
  BY <1>1, <1>r, <1>s
<1>8. /\ err' = 0 /\ curr' = n /\ phase' = [phase EXCEPT ![n] = "body"]
      /\ UNCHANGED <<frame, aborted, count>>
  <2>1. ~(curr >= StackSize - 1) /\ curr + 1 = n
    BY <1>1, <1>7, FilesystemAssumption DEF FilesystemAssumption
  <2> QED BY <2>1 DEF Call, E!Enter, E!Push
<1>9. n \in E!Depths
  BY <1>7, FilesystemAssumption DEF FilesystemAssumption, E!Depths
<1>10. /\ phase' \in [E!Depths -> E!Phases] /\ phase'[n] = "body"
       /\ \A d \in E!Depths : d # n => phase'[d] = phase[d]
  BY <1>3, <1>8, <1>9 DEF Types, E!Phases
<1>11. Types'
  <2>1. curr' = Len(fs'.at) - 1 /\ err' \in Nat
    BY <1>4, <1>6, <1>7, <1>8
  <2> QED BY <1>3, <1>6, <1>8, <1>10, <2>1 DEF Types
<1>12. (\A i \in 1 .. n : Caller(i)' = Caller(i)) /\ Caller(n + 1)' = m
  <2>1. n + 1 # 1 /\ n + 1 - 1 = n /\ \A i \in 1 .. n : i = 1 \/ i - 1 \in 1 .. n - 1
    BY <1>7
  <2>2. Caller(n + 1)' = m
    BY <1>4, <1>6, <1>7, <2>1 DEF Caller
  <2>3. \A i \in 1 .. n : Caller(i)' = Caller(i)
    BY <1>4, <1>6, <2>1 DEF Caller
  <2> QED BY <2>2, <2>3
<1>13. Shape'
  <2>1. \A i \in 1 .. n - 1 : u[i] \in Within(Caller(i)) /\ i <= Rank(u[i])
    BY <1>n, <1>1, <1>4 DEF Shape
  <2>2. m \in Within(Caller(n)) /\ n <= Rank(m) /\ e \in Within(m) /\ n + 1 <= Rank(e)
    <3>1. n <= r /\ n + 1 <= q
      BY <1>7, <1>r, <1>s
    <3> QED BY <1>0, <1>1, <3>1 DEF r, q
  <2>3. \A i \in 1 .. n + 1 : i \in 1 .. n - 1 \/ i = n \/ i = n + 1
    BY <1>7
  <2>4. ASSUME NEW i \in 1 .. n + 1
        PROVE  u[i] \in Within(Caller(i)') /\ i <= Rank(u[i])
    <3>1. CASE i \in 1 .. n - 1
      <4>1. i \in 1 .. n
        BY <1>7, <3>1
      <4> QED BY <1>12, <2>1, <3>1, <4>1
    <3>2. CASE i = n
      <4>1. n \in 1 .. n
        BY <1>7
      <4> QED BY <1>4, <1>12, <2>2, <3>2, <4>1
    <3>3. CASE i = n + 1
      BY <1>4, <1>12, <2>2, <3>3
    <3> QED BY <2>3, <3>1, <3>2, <3>3
  <2> QED BY <1>4, <1>6, <2>4 DEF Shape
<1>14. Waits'
  <2>1. \A i \in 1 .. n : i - 1 \in E!Depths /\ i - 1 # n
    BY <1>7, FilesystemAssumption DEF FilesystemAssumption, E!Depths
  <2>2. \A i \in 1 .. n : phase'[i - 1] = phase[i - 1]
    BY <1>10, <2>1
  <2>3. \A i \in 1 .. n - 1 : /\ phase[i - 1] = "body"
                              /\ Holds(frame[i - 1], fs.arg, Kept(u[i], NULL))
                              /\ u[i] # "copy" => frame[i - 1].used = 0
    BY <1>n, <1>1, <1>4 DEF Waits
  <2>4. /\ phase[n - 1] = "body" /\ Holds(frame[n - 1], fs.arg, Kept(u[n], NULL))
        /\ u[n] # "copy" => frame[n - 1].used = 0
    BY <1>1, <1>4
  <2>5. \A i \in 1 .. n : i \in 1 .. n - 1 \/ i = n
    BY <1>7
  <2>6. \A i \in 1 .. n : /\ phase'[i - 1] = "body"
                          /\ Holds(frame'[i - 1], fs'.arg, Kept(u[i], NULL))
                          /\ u[i] # "copy" => frame'[i - 1].used = 0
    BY <1>6, <1>8, <2>2, <2>3, <2>4, <2>5
  <2>7. Len(fs'.at) - 1 = n
    BY <1>4, <1>6, <1>7
  <2> QED BY <1>6, <2>6, <2>7 DEF Waits
<1>15. Unused' /\ frame[n].stat = <<>> /\ frame[n].dyn = <<>> /\ frame[n].used = 0
  <2>1. n > curr /\ \A d \in E!Depths : d > n => d > curr
    BY <1>1, <1>7 DEF E!Depths
  <2> QED BY <1>1, <1>8, <1>9, <2>1 DEF Unused
<1>16. Place' = e
  BY <1>4, <1>6, <1>8, <1>10 DEF Place
<1>17. Inner'
  <2>1. Accounts(Below(m))'
    BY <1>6 DEF Accounts
  <2>2. Holds(frame'[n], fs'.arg, {}) /\ frame'[n].used = 0
    BY <1>8, <1>15, HoldsNothing
  <2>3. fs'.val \in Vals(m, e) /\ Kept(e, fs'.val) = {} /\ InHand(e, fs'.val) = {}
    BY <1>2, <1>6 DEF States
  <2>4. Below(m) \cup {} \cup {} = Below(m)
    OBVIOUS
  <2>5. InBody(m, e)'
    BY <1>2, <1>8, <2>1, <2>2, <2>3, <2>4 DEF InBody
  <2>6. fs'.at # <<>> /\ fs'.at[Len(fs'.at)] = e /\ phase'[curr'] = "body"
    BY <1>4, <1>6, <1>8, <1>10
  <2>7. Caller(Len(fs.at))' = m
    <3>1. Len(fs'.at) = n + 1 /\ n + 1 # 1 /\ n + 1 - 1 = n /\ fs'.at[n] = m
      BY <1>4, <1>6, <1>7
    <3> QED BY <1>7, <3>1 DEF Caller
  <2> QED BY <2>5, <2>6, <2>7 DEF Inner
<1>18. NamesOK'
  BY <1>1, <1>2, <1>6, <1>16 DEF NamesOK, Adding
<1> QED BY <1>11, <1>13, <1>14, <1>15, <1>17, <1>18 DEF Inv

\* Nothing is said of the state after undefined behaviour but its cause.
LEMMA FaultsInv ==
  ASSUME Inv, UNCHANGED errm, fs' \in States, Len(fs'.at) = Len(fs.at), fs'.arg = fs.arg,
         fs'.fault # "none", NEW x \in fs'.failed, <<fs'.fault, x>> \in Causes
  PROVE  Inv'
<1>1. Types'
  BY DEF Inv, Types, errm
<1> QED BY <1>1 DEF Inv

\* A defer is registered, and nothing else happens.
LEMMA DefersFields ==
  ASSUME Inv, NEW b \in Blocks \cup {NULL}, NEW m, To(m) \in Seq(Labels), Defers(b, m)
  PROVE  /\ fs' \in States /\ fs'.at = To(m) /\ fs'.arg = Append(fs.arg, b)
         /\ fs'.heap = fs.heap /\ fs'.val = fs.val /\ fs'.array = fs.array
         /\ fs'.failed = fs.failed /\ fs'.fault = fs.fault
<1> DEFINE new == Append(fs.arg, b)
<1>1. fs \in States
  BY DEF Inv, Types
<1>2. new \in Seq(Blocks \cup {NULL})
  BY <1>1, HoldsGrow DEF States
<1>3. fs' = [fs EXCEPT !.arg = new, !.at = To(m)]
  BY DEF Defers
<1> HIDE DEF new
<1>4. /\ fs' \in States /\ fs'.at = To(m) /\ fs'.arg = new
      /\ fs'.heap = fs.heap /\ fs'.val = fs.val /\ fs'.array = fs.array
      /\ fs'.failed = fs.failed /\ fs'.fault = fs.fault
  BY <1>1, <1>2, <1>3 DEF States
<1> QED BY <1>4 DEF new

\* No errno that errm knows is mapped to 0.
LEMMA FromErrnoFields ==
  ASSUME NEW e \in DOMAIN E!Codes, E!SetFromErrno(e)
  PROVE  err' \in Nat \ {0} /\ UNCHANGED <<curr, frame, phase, aborted, count>>
<1>1. E!Codes[e] \in Nat \ {0}
  BY DEF E!Codes
<1> QED BY <1>1 DEF E!SetFromErrno, E!Says

\* emalloc (filesystem.c:22): memory and no error, or NULL and an error.
LEMMA MallocInv == ASSUME Inv, Malloc PROVE Inv'
<1> USE DEF NULL
<1> DEFINE n == Len(fs.at)
           m == "emalloc ends"
<1>0. PICK c : c = Caller(Len(fs.at))
  OBVIOUS
<1>1. /\ At("emalloc") /\ n \in 1 .. 4 /\ fs.at \in Seq(Labels) /\ fs.at # <<>>
      /\ "emalloc" \in Within(c) /\ InBody(c, "emalloc") /\ NamesOK
      /\ phase[curr] = "body" /\ Place = "emalloc" /\ fs.fault = "none"
  BY <1>0, Here DEF Malloc
<1>2. c \in {"copy", "print"}
  BY <1>1, Callers DEF InEmalloc
<1>3. fs \in States /\ err \in Nat /\ To(m) \in Seq(Labels)
  BY <1>1, ToLabels DEF Inv, Types, Together, InEmalloc
<1>4. fs.at[n - 1] = c
  BY <1>0, <1>2 DEF Caller
<1>5. /\ Brings(c) \in {"path", "abs"} /\ Brings(c) \notin Below(c) /\ NULL \notin Below(c)
      /\ Vals(c, m) = {Brings(c), NULL} /\ "names" \notin Below(c)
      /\ \A v : Kept("emalloc", v) = {} /\ InHand("emalloc", v) = {}
                /\ Kept(m, v) = {} /\ InHand(m, v) = {v}
  BY <1>2 DEF Brings, Below, Vals, Kept, InHand, Ends, Calling, NULL
<1>6. /\ Holds(frame[curr], fs.arg, {}) /\ frame[curr].used = 0 /\ Accounts(Below(c)) /\ err = 0
  BY <1>1, <1>5 DEF InBody, Ends, Calling
<1>7. CASE Allocates(Brings(c), m) /\ UNCHANGED errm
  <2>1. /\ fs' \in States
        /\ fs'.at = To(m) /\ fs'.arg = fs.arg /\ fs'.heap = fs.heap \cup {fs'.val}
        /\ fs'.val = Brings(c) /\ fs'.array = fs.array /\ fs'.failed = fs.failed
        /\ fs'.fault = "none" /\ UNCHANGED <<err, curr, frame, phase, aborted, count>>
    BY <1>1, <1>3, <1>5, <1>7, AllocatesFields DEF errm, Blocks
  <2>2. Place' = m /\ (InBody(c, m)' /\ NamesOK' => Inv')
    BY <1>0, <1>1, <1>3, <2>1, Moves DEF Together, InEmalloc
  <2>3. InBody(c, m)'
    <3>1. Accounts(Below(c) \cup {fs.val})'
      BY <1>5, <1>6, <2>1 DEF Accounts
    <3>2. Holds(frame[curr], fs.arg, {})' /\ (frame[curr].used = 0)' /\ Told(m \in {"opened", "open_dir ends"})'
      BY <1>5, <1>6, <2>1 DEF Told
    <3>3. fs'.val \in Vals(c, m) /\ Below(c) \cup {} \cup {fs'.val} = Below(c) \cup {fs'.val}
      BY <1>5, <2>1
    <3> QED BY <1>5, <3>1, <3>2, <3>3 DEF InBody, Calling, Ends
  <2>4. NamesOK'
    BY <1>1, <1>5, <2>1, <2>2 DEF NamesOK, Adding
  <2> QED BY <2>2, <2>3, <2>4
<1>8. CASE Fails("malloc", m) /\ E!SetError(NOT_ENOUGH_MEMORY)
  <2>1. /\ fs' \in States
        /\ fs'.at = To(m) /\ fs'.arg = fs.arg /\ fs'.heap = fs.heap
        /\ fs'.val = NULL /\ fs'.array = fs.array /\ fs'.failed = fs.failed \cup {"malloc"}
        /\ fs'.fault = "none"
    BY <1>1, <1>3, <1>8, FailsFields DEF Failures
  <2>2. err' \in Nat \ {0} /\ UNCHANGED <<curr, frame, phase, aborted, count>>
    BY <1>8, SetErrorFields, ErrorNumbers
  <2>3. Place' = m /\ (InBody(c, m)' /\ NamesOK' => Inv')
    BY <1>0, <1>1, <1>3, <2>1, <2>2, Moves DEF Together, InEmalloc
  <2>4. InBody(c, m)'
    <3>1. Accounts(Below(c) \cup {fs.val})'
      BY <1>5, <1>6, <2>1 DEF Accounts
    <3>2. Holds(frame[curr], fs.arg, {})' /\ (frame[curr].used = 0)'
      BY <1>6, <2>1, <2>2
    <3>4. Told(m \in {"opened", "open_dir ends"})'
      BY <2>1, <2>2 DEF Told
    <3>3. fs'.val \in Vals(c, m) /\ Below(c) \cup {} \cup {fs'.val} = Below(c) \cup {fs'.val}
      BY <1>5, <2>1
    <3> QED BY <1>5, <3>1, <3>2, <3>3, <3>4 DEF InBody, Calling, Ends
  <2>5. NamesOK'
    BY <1>1, <2>1, <2>3 DEF NamesOK, Adding
  <2> QED BY <2>3, <2>4, <2>5
<1> QED BY <1>1, <1>2, <1>4, <1>7, <1>8 DEF Malloc, Brings

\* The last return of a function hands on the value it has (filesystem.c:26, 51, 83, 101, 144).
LEMMA LeaveInv == ASSUME Inv, Leave PROVE Inv'
<1> USE DEF NULL
<1>0. PICK c : c = Caller(Len(fs.at))
  OBVIOUS
<1>1. PICK l : l \in Ends /\ At(l) /\ Return(fs.val)
  BY DEF Leave
<1>2. l \in Within(c) /\ InBody(c, l)
  BY <1>0, <1>1, Here
<1>3. /\ fs.val \in Vals(c, l) /\ Holds(frame[curr], fs.arg, Kept(l, fs.val))
      /\ Accounts(Below(c) \cup Kept(l, fs.val) \cup InHand(l, fs.val))
      /\ Told(l \in {"opened", "open_dir ends"})
  BY <1>1, <1>2 DEF InBody
<1>4. /\ l \notin Adding /\ l # "opened"
      /\ l \in {"opened", "open_dir ends"} <=> l \in InOpenDir
  BY <1>1 DEF Ends, InOpenDir, Adding
<1>5. InHand(l, fs.val) = {fs.val}
  BY <1>1 DEF InHand, Ends
<1>6. CASE l = "emalloc ends"
  <2>1. c \in {"copy", "print"}
    BY <1>2, <1>6, Callers DEF InEmalloc
  <2>2. Kept(l, fs.val) = {}
    BY <1>6 DEF Kept
  <2>3. Vals(c, l) \subseteq {Brings(c), NULL}
    BY <1>6 DEF Vals, Calling
  <2>4. Results(c, l) = {Brings(c), NULL}
    BY <2>1 DEF Results
  <2> QED BY <1>0, <1>1, <1>3, <1>4, <1>5, <2>2, <2>3, <2>4, ReturnsInv DEF Told
<1>7. CASE l = "expand ends"
  <2>1. c \in {"expanded", "to open"}
    BY <1>2, <1>7, Callers DEF InExpand
  <2>2. Kept(l, fs.val) = {}
    BY <1>7 DEF Kept
  <2>3. Vals(c, l) \subseteq {Brings(c), NULL}
    BY <1>7 DEF Vals, Calling
  <2>4. Results(c, l) = {Brings(c), NULL}
    BY <2>1 DEF Results
  <2> QED BY <1>0, <1>1, <1>3, <1>4, <1>5, <2>2, <2>3, <2>4, ReturnsInv DEF Told
<1>8. CASE l = "abs_path ends"
  <2>1. c = "none"
    BY <1>2, <1>8, Callers DEF InAbsPath
  <2>2. Kept(l, fs.val) = {"path"} /\ fs.val \in {"abs", NULL} /\ Below(c) = {}
    BY <1>3, <1>8, <2>1 DEF Kept, Vals, Calling, Brings, Below
  <2>3. fs.val \in Results(c, l) /\ {"path"} \in SUBSET ((Blocks \ {"names"}) \cup {NULL})
        /\ {"path"} \cap (Below(c) \cup {fs.val}) \subseteq {NULL}
    BY <1>8, <2>1, <2>2 DEF Results, InAbsPath, Blocks
  <2>4. (fs.val # NULL => err = 0) /\ (fs.val = NULL => err # 0)
    BY <1>3, <1>4, <1>8 DEF Told
  <2>5. Accounts(Below(c) \cup {"path"} \cup {fs.val}) /\ Holds(frame[curr], fs.arg, {"path"})
    BY <1>3, <1>5, <2>2
  <2> QED BY <1>0, <1>1, <1>4, <2>2, <2>3, <2>4, <2>5, ReturnsInv
<1>9. CASE l = "open_dir ends"
  <2>1. c = "opened"
    BY <1>2, <1>9, Callers DEF InOpenDir
  <2>2. Kept(l, fs.val) = {"path"} /\ fs.val \in {"dir", NULL} /\ Below(c) = {}
    BY <1>3, <1>9, <2>1 DEF Kept, Vals, Calling, Below
  <2>3. Results(c, l) = {"dir", NULL}
    BY <2>1 DEF Results, Brings
  <2>4. /\ {"path"} \in SUBSET ((Blocks \ {"names"}) \cup {NULL})
        /\ {"path"} \cap (Below(c) \cup {fs.val}) \subseteq {NULL}
    BY <2>2 DEF Blocks
  <2>5. /\ fs.val # NULL => err = 0
        /\ fs.val = NULL => err # 0 \/ (l \in InOpenDir /\ "opendir silently" \in fs.failed)
    BY <1>3, <1>4 DEF Told
  <2>6. Accounts(Below(c) \cup {"path"} \cup {fs.val}) /\ Holds(frame[curr], fs.arg, {"path"})
    BY <1>3, <1>5, <2>2
  <2> QED BY <1>0, <1>1, <1>4, <2>2, <2>3, <2>4, <2>5, <2>6, ReturnsInv
<1>10. CASE l = "dir_content ends"
  <2>1. c = "none"
    BY <1>2, <1>10, Callers DEF InDirContent
  <2>2. Kept(l, fs.val) = {"dir"} /\ fs.val = NULL /\ Below(c) = {}
    BY <1>3, <1>10, <2>1 DEF Kept, Vals, Calling, Below
  <2>3. fs.val \in Results(c, l) /\ {"dir"} \in SUBSET ((Blocks \ {"names"}) \cup {NULL})
        /\ {"dir"} \cap (Below(c) \cup {fs.val}) \subseteq {NULL}
    BY <1>10, <2>1, <2>2 DEF Results, InAbsPath, Blocks
  <2>4. (fs.val # NULL => err = 0) /\ (fs.val = NULL => err # 0)
    BY <1>3, <1>4, <1>10 DEF Told
  <2>5. Accounts(Below(c) \cup {"dir"} \cup {fs.val}) /\ Holds(frame[curr], fs.arg, {"dir"})
    BY <1>3, <1>5, <2>2
  <2> QED BY <1>0, <1>1, <1>4, <2>2, <2>3, <2>4, <2>5, ReturnsInv
<1> QED BY <1>1, <1>6, <1>7, <1>8, <1>9, <1>10 DEF Ends

\* expand's wordexp (filesystem.c:43): its result is freed by a static defer.
LEMMA ExpandInv == ASSUME Inv, Expand PROVE Inv'
<1> USE DEF NULL
<1> DEFINE l == "expand"
<1>0. PICK c : c = Caller(Len(fs.at))
  OBVIOUS
<1>1. /\ At(l) /\ l \in Within(c) /\ InBody(c, l) /\ NamesOK /\ Place = l /\ fs.fault = "none"
  BY <1>0, Here DEF Expand
<1>2. c \in {"expanded", "to open"}
  BY <1>1, Callers DEF InExpand
<1>3. fs \in States /\ err \in Nat
  BY DEF Inv, Types
<1>4. Below(c) = {} /\ Kept(l, fs.val) = {} /\ InHand(l, fs.val) = {}
  BY <1>2 DEF Below, Kept, InHand, Calling, Ends
<1>5. /\ Holds(frame[curr], fs.arg, {}) /\ frame[curr].used = 0 /\ Accounts({}) /\ err = 0
  BY <1>1, <1>4 DEF InBody, Ends, Calling
<1>6. CASE /\ E!StaticDefer(curr, WordexpSize)
           /\ fs' = [fs EXCEPT !.heap = @ \cup {"words"}, !.arg = Append(@, "words"),
                               !.at = To("first word")]
  <2> DEFINE m == "first word"
  <2>0. To(m) \in Seq(Labels) /\ Together(l, m)
    BY <1>1, ToLabels DEF Together, InExpand
  <2>1. /\ fs' \in States /\ fs'.at = To(m) /\ fs'.arg = Append(fs.arg, "words")
        /\ fs'.heap = fs.heap \cup {"words"} /\ fs'.val = fs.val /\ fs'.array = fs.array
        /\ fs'.failed = fs.failed /\ fs'.fault = "none"
    <3>1. Append(fs.arg, "words") \in Seq(Blocks \cup {NULL})
      BY <1>3, HoldsGrow DEF States, Blocks
    <3> DEFINE new == Append(fs.arg, "words")
               to == To(m)
    <3>2. fs' = [fs EXCEPT !.heap = @ \cup {"words"}, !.arg = new, !.at = to]
      BY <1>6
    <3>3. new \in Seq(Blocks \cup {NULL}) /\ to \in Seq(Labels)
      BY <2>0, <3>1
    <3> HIDE DEF new, to
    <3>4. /\ fs' \in States /\ fs'.at = to /\ fs'.arg = new
          /\ fs'.heap = fs.heap \cup {"words"} /\ fs'.val = fs.val /\ fs'.array = fs.array
          /\ fs'.failed = fs.failed /\ fs'.fault = fs.fault
      BY <1>3, <3>2, <3>3 DEF States, Blocks
    <3> QED BY <1>1, <3>4 DEF new, to
  <2>2. Place' = m /\ err' = err /\ Holds(frame[curr], fs.arg, {"words"})'
        /\ (InBody(c, m)' /\ NamesOK' => Inv')
    BY <1>0, <1>1, <1>5, <1>6, <2>0, <2>1, StaticMoves DEF Blocks
  <2>3. Accounts({"words"})'
    BY <1>5, <2>1 DEF Accounts
  <2>4. /\ Kept(m, fs'.val) = {"words"} /\ InHand(m, fs'.val) = {} /\ Vals(c, m) = Blocks \cup {NULL}
    BY DEF Kept, InHand, Vals, Calling, Ends
  <2>5. InBody(c, m)'
    <3>1. Below(c) \cup {"words"} \cup {} = {"words"} /\ fs'.val \in Vals(c, m)
      BY <1>3, <1>4, <2>1, <2>4 DEF States
    <3> QED BY <1>5, <2>2, <2>3, <2>4, <3>1 DEF InBody, Calling, Ends
  <2>6. NamesOK'
    BY <1>1, <2>1, <2>2 DEF NamesOK, Adding
  <2> QED BY <2>2, <2>5, <2>6
<1>7. CASE Fails("wordexp", "expand ends") /\ E!SetError(PARSING_ERROR)
  <2> DEFINE m == "expand ends"
  <2>0. To(m) \in Seq(Labels) /\ Together(l, m)
    BY <1>1, ToLabels DEF Together, InExpand
  <2>1. /\ fs' \in States
        /\ fs'.at = To(m) /\ fs'.arg = fs.arg /\ fs'.heap = fs.heap
        /\ fs'.val = NULL /\ fs'.array = fs.array /\ fs'.failed = fs.failed \cup {"wordexp"}
        /\ fs'.fault = "none"
    BY <1>1, <1>3, <1>7, <2>0, FailsFields DEF Failures
  <2>2. err' \in Nat \ {0} /\ UNCHANGED <<curr, frame, phase, aborted, count>>
    BY <1>7, SetErrorFields, ErrorNumbers
  <2>3. Place' = m /\ (InBody(c, m)' /\ NamesOK' => Inv')
    BY <1>0, <1>1, <1>3, <2>0, <2>1, <2>2, Moves
  <2>4. /\ Kept(m, fs'.val) = {} /\ InHand(m, fs'.val) = {NULL} /\ Vals(c, m) = {NULL}
    BY <2>1 DEF Kept, InHand, Vals, Calling, Ends
  <2>5. InBody(c, m)'
    <3>1. Accounts({NULL})'
      BY <1>5, <2>1 DEF Accounts
    <3>2. Holds(frame[curr], fs.arg, {})' /\ (frame[curr].used = 0)'
      BY <1>5, <2>1, <2>2
    <3>3. Told(m \in {"opened", "open_dir ends"})'
      BY <2>1, <2>2 DEF Told
    <3>4. Below(c) \cup {} \cup {NULL} = {NULL} /\ fs'.val \in Vals(c, m)
      BY <1>4, <2>1, <2>4
    <3> QED BY <2>4, <3>1, <3>2, <3>3, <3>4 DEF InBody, Calling, Ends
  <2>6. NamesOK'
    BY <1>1, <2>1, <2>3 DEF NamesOK, Adding
  <2> QED BY <2>3, <2>5, <2>6
<1>8. CASE /\ fs' = [fs EXCEPT !.failed = @ \cup {"wordexp nospace"}, !.val = NULL,
                                !.lost = @ \cup {"words"}, !.at = To("expand ends")]
           /\ E!SetError(PARSING_ERROR)
  <2> DEFINE m == "expand ends"
  <2>0. To(m) \in Seq(Labels) /\ Together(l, m)
    BY <1>1, ToLabels DEF Together, InExpand
  <2>1. /\ fs' \in States
        /\ fs'.at = To(m) /\ fs'.arg = fs.arg /\ fs'.heap = fs.heap
        /\ fs'.val = NULL /\ fs'.array = fs.array /\ fs'.failed = fs.failed \cup {"wordexp nospace"}
        /\ fs'.fault = "none"
    BY <1>1, <1>3, <1>8, <2>0 DEF States, Failures, Blocks
  <2>2. err' \in Nat \ {0} /\ UNCHANGED <<curr, frame, phase, aborted, count>>
    BY <1>8, SetErrorFields, ErrorNumbers
  <2>3. Place' = m /\ (InBody(c, m)' /\ NamesOK' => Inv')
    BY <1>0, <1>1, <1>3, <2>0, <2>1, <2>2, Moves
  <2>4. /\ Kept(m, fs'.val) = {} /\ InHand(m, fs'.val) = {NULL} /\ Vals(c, m) = {NULL}
    BY <2>1 DEF Kept, InHand, Vals, Calling, Ends
  <2>5. InBody(c, m)'
    <3>1. Accounts({NULL})'
      BY <1>5, <2>1 DEF Accounts
    <3>2. Holds(frame[curr], fs.arg, {})' /\ (frame[curr].used = 0)'
      BY <1>5, <2>1, <2>2
    <3>3. Told(m \in {"opened", "open_dir ends"})'
      BY <2>1, <2>2 DEF Told
    <3>4. Below(c) \cup {} \cup {NULL} = {NULL} /\ fs'.val \in Vals(c, m)
      BY <1>4, <2>1, <2>4
    <3> QED BY <2>4, <3>1, <3>2, <3>3, <3>4 DEF InBody, Calling, Ends
  <2>6. NamesOK'
    BY <1>1, <2>1, <2>3 DEF NamesOK, Adding
  <2> QED BY <2>3, <2>5, <2>6
<1> QED BY <1>6, <1>7, <1>8 DEF Expand, WordexpFails

\* expand's first word (filesystem.c:53), which need not exist.
LEMMA FirstWordInv == ASSUME Inv, FirstWord PROVE Inv'
<1> DEFINE l == "first word"
<1>0. PICK c : c = Caller(Len(fs.at))
  OBVIOUS
<1>1. At(l) /\ l \in Within(c) /\ InBody(c, l) /\ fs.fault = "none"
  BY <1>0, Here DEF FirstWord
<1>2. fs \in States
  BY DEF Inv, Types
<1>3. CASE Call("emalloc", "copy")
  <2>1. c \in {"expanded", "to open"}
    BY <1>1, Callers DEF InExpand
  <2>2. Below(c) = {} /\ Kept(l, fs.val) = {"words"} /\ InHand(l, fs.val) = {}
    BY <2>1 DEF Below, Kept, InHand, Calling, Ends
  <2>3. Holds(frame[curr], fs.arg, {"words"}) /\ Accounts({"words"})
    BY <1>1, <2>2 DEF InBody
  <2>4. Kept("copy", NULL) = {"words"} /\ Below("copy") = {"words"}
    BY DEF Kept, Below
  <2>5. "copy" \in Calling /\ Together(l, "copy") /\ "emalloc" \in Within("copy") /\ l \notin Adding
    BY DEF Calling, Together, InExpand, InEmalloc, Within, Adding
  <2> QED BY <1>1, <1>3, <2>3, <2>4, <2>5, CallsInv
<1>4. CASE /\ UNCHANGED errm
           /\ fs' = [fs EXCEPT !.failed = @ \cup {"no word"}, !.fault = "NULL word"]
  <2>1. /\ fs' \in States /\ fs'.at = fs.at /\ fs'.arg = fs.arg
        /\ fs'.failed = fs.failed \cup {"no word"} /\ fs'.fault = "NULL word"
    BY <1>2, <1>4 DEF States, Failures, Causes
  <2>2. <<"NULL word", "no word">> \in Causes
    BY DEF Causes
  <2> QED BY <1>4, <2>1, <2>2, FaultsInv
<1> QED BY <1>3, <1>4 DEF FirstWord

\* abs_path calls expand with no defer of its own yet (filesystem.c:76).
LEMMA AbsPathInv == ASSUME Inv, AbsPath PROVE Inv'
<1> DEFINE l == "abs_path"
           m == "expanded"
<1>0. PICK c : c = Caller(Len(fs.at))
  OBVIOUS
<1>1. At(l) /\ l \in Within(c) /\ InBody(c, l) /\ Call("expand", m)
  BY <1>0, Here DEF AbsPath
<1>2. c = "none"
  BY <1>1, Callers DEF InAbsPath
<1>3. Below(c) = {} /\ Kept(l, fs.val) = {} /\ InHand(l, fs.val) = {} /\ Kept(m, NULL) = {}
      /\ Below(m) = {}
  BY <1>2 DEF Below, Kept, InHand, Calling, Ends
<1>4. Holds(frame[curr], fs.arg, {}) /\ Accounts({}) /\ frame[curr].used = 0
  BY <1>1, <1>3 DEF InBody
<1>5. m \in Calling /\ Together(l, m) /\ "expand" \in Within(m) /\ l \notin Adding
  BY DEF Calling, Together, InAbsPath, InExpand, Within, Adding
<1> QED BY <1>1, <1>3, <1>4, <1>5, CallsInv

\* abs_path calls abs_path_from_relative, which it keeps the path for
\* (filesystem.c:82).
LEMMA FromRelativeInv == ASSUME Inv, FromRelative PROVE Inv'
<1> DEFINE l == "from relative"
           m == "abs_path ends"
<1>0. PICK c : c = Caller(Len(fs.at))
  OBVIOUS
<1>1. At(l) /\ l \in Within(c) /\ InBody(c, l) /\ Call("relative", m)
  BY <1>0, Here DEF FromRelative
<1>2. c = "none"
  BY <1>1, Callers DEF InAbsPath
<1>3. Below(c) = {} /\ Kept(l, fs.val) = {"path"} /\ InHand(l, fs.val) = {}
      /\ Kept(m, NULL) = {"path"} /\ Below(m) = {"path"}
  BY <1>2 DEF Below, Kept, InHand, Calling, Ends
<1>4. Holds(frame[curr], fs.arg, {"path"}) /\ Accounts({"path"}) /\ frame[curr].used = 0
  BY <1>1, <1>3 DEF InBody
<1>5. m \in Calling /\ Together(l, m) /\ "relative" \in Within(m) /\ l \notin Adding
  BY DEF Calling, Together, InAbsPath, InRelative, Within, Adding
<1> QED BY <1>1, <1>3, <1>4, <1>5, CallsInv

\* open_dir calls expand with no defer of its own yet (filesystem.c:91).
LEMMA OpenDirInv == ASSUME Inv, OpenDir PROVE Inv'
<1> DEFINE l == "open_dir"
           m == "to open"
<1>0. PICK c : c = Caller(Len(fs.at))
  OBVIOUS
<1>1. At(l) /\ l \in Within(c) /\ InBody(c, l) /\ Call("expand", m)
  BY <1>0, Here DEF OpenDir
<1>2. c = "opened"
  BY <1>1, Callers DEF InOpenDir
<1>3. Below(c) = {} /\ Kept(l, fs.val) = {} /\ InHand(l, fs.val) = {} /\ Kept(m, NULL) = {}
      /\ Below(m) = {}
  BY <1>2 DEF Below, Kept, InHand, Calling, Ends
<1>4. Holds(frame[curr], fs.arg, {}) /\ Accounts({}) /\ frame[curr].used = 0
  BY <1>1, <1>3 DEF InBody
<1>5. m \in Calling /\ Together(l, m) /\ "expand" \in Within(m) /\ l \notin Adding
  BY DEF Calling, Together, InOpenDir, InExpand, Within, Adding
<1> QED BY <1>1, <1>3, <1>4, <1>5, CallsInv

\* dir_content calls open_dir with no defer of its own yet (filesystem.c:115).
LEMMA DirContentInv == ASSUME Inv, DirContent PROVE Inv'
<1> DEFINE l == "dir_content"
           m == "opened"
<1>0. PICK c : c = Caller(Len(fs.at))
  OBVIOUS
<1>1. At(l) /\ l \in Within(c) /\ InBody(c, l) /\ Call("open_dir", m)
  BY <1>0, Here DEF DirContent
<1>2. c = "none"
  BY <1>1, Callers DEF InDirContent
<1>3. Below(c) = {} /\ Kept(l, fs.val) = {} /\ InHand(l, fs.val) = {} /\ Kept(m, NULL) = {}
      /\ Below(m) = {}
  BY <1>2 DEF Below, Kept, InHand, Calling, Ends
<1>4. Holds(frame[curr], fs.arg, {}) /\ Accounts({}) /\ frame[curr].used = 0
  BY <1>1, <1>3 DEF InBody
<1>5. m \in Calling /\ Together(l, m) /\ "open_dir" \in Within(m) /\ l \notin Adding
  BY DEF Calling, Together, InDirContent, InOpenDir, Within, Adding
<1> QED BY <1>1, <1>3, <1>4, <1>5, CallsInv

\* abs_path_from_relative calls emalloc when getcwd succeeded (filesystem.c:66).
LEMMA JoinInv == ASSUME Inv, Join PROVE Inv'
<1> USE DEF NULL
<1> DEFINE l == "join"
           m == "print"
<1>0. PICK c : c = Caller(Len(fs.at))
  OBVIOUS
<1>1. At(l) /\ l \in Within(c) /\ InBody(c, l)
  BY <1>0, Here DEF Join
<1>2. c = "abs_path ends"
  BY <1>1, Callers DEF InRelative
<1>3. Below(c) = {"path"} /\ Kept(l, fs.val) = {fs.val} /\ InHand(l, fs.val) = {}
      /\ Vals(c, l) = {"cwd", NULL}
  BY <1>2 DEF Below, Kept, InHand, Vals, Calling, Ends
<1>4. /\ fs.val \in {"cwd", NULL} /\ Holds(frame[curr], fs.arg, {fs.val})
      /\ Accounts({"path"} \cup {fs.val} \cup {}) /\ frame[curr].used = 0
      /\ fs.val = NULL => "getcwd" \in fs.failed
  BY <1>1, <1>3 DEF InBody
<1>5. CASE fs.val = NULL
  <2>1. Faults("NULL cwd")
    BY <1>5 DEF Join
  <2>2. fs' \in States /\ fs'.at = fs.at /\ fs'.arg = fs.arg /\ fs'.failed = fs.failed
        /\ fs'.fault = "NULL cwd"
    BY <2>1 DEF Inv, Types, States, Faults, Causes
  <2>3. <<"NULL cwd", "getcwd">> \in Causes
    BY DEF Causes
  <2> QED BY <1>4, <1>5, <2>1, <2>2, <2>3, FaultsInv DEF Faults
<1>6. CASE fs.val # NULL
  <2>1. Call("emalloc", m)
    BY <1>6 DEF Join
  <2>2. fs.val = "cwd" /\ {"path"} \cup {"cwd"} \cup {} = {"path", "cwd"}
    BY <1>4, <1>6
  <2>3. Kept(m, NULL) = {"cwd"} /\ Below(m) = {"path", "cwd"}
    BY DEF Kept, Below
  <2>4. m \in Calling /\ Together(l, m) /\ "emalloc" \in Within(m) /\ l \notin Adding
    BY DEF Calling, Together, InRelative, InEmalloc, Within, Adding
  <2>5. Holds(frame[curr], fs.arg, {"cwd"}) /\ Accounts({"path", "cwd"})
    BY <1>4, <2>2
  <2> QED BY <1>1, <1>4, <2>1, <2>3, <2>4, <2>5, CallsInv
<1> QED BY <1>5, <1>6

\* expand fills what emalloc returned, or returns NULL (filesystem.c:53).
LEMMA CopyInv == ASSUME Inv, Copy PROVE Inv'
<1> USE DEF NULL
<1> DEFINE l == "copy"
<1>0. PICK c : c = Caller(Len(fs.at))
  OBVIOUS
<1>1. At(l) /\ l \in Within(c) /\ InBody(c, l)
  BY <1>0, Here DEF Copy
<1>2. c \in {"expanded", "to open"}
  BY <1>1, Callers DEF InExpand
<1>3. /\ Below(c) = {} /\ Kept(l, fs.val) = {"words"} /\ InHand(l, fs.val) = {fs.val}
      /\ Vals(c, l) = {"path", NULL} /\ Results(c, l) = {"path", NULL}
  BY <1>2 DEF Below, Kept, InHand, Vals, Results, Brings, Calling
<1>4. /\ fs.val \in {"path", NULL} /\ Holds(frame[curr], fs.arg, {"words"})
      /\ Accounts(Below(c) \cup {"words"} \cup {fs.val})
  BY <1>1, <1>3 DEF InBody
<1>5. /\ fs.val # NULL => err = 0
      /\ fs.val = NULL => err # 0
  <2>1. Told(l \in {"opened", "open_dir ends"})
    BY <1>1 DEF InBody, Calling
  <2> QED BY <2>1 DEF Told
<1>6. /\ {"words"} \in SUBSET ((Blocks \ {"names"}) \cup {NULL})
      /\ {"words"} \cap (Below(c) \cup {fs.val}) \subseteq {NULL}
  BY <1>3, <1>4 DEF Blocks
<1>7. Return(fs.val)
  <2>1. CASE Errored
    <3>1. fs.val = NULL
      BY <1>5, <2>1 DEF Errored
    <3> QED BY <2>1, <3>1 DEF Copy
  <2>2. CASE ~Errored
    <3>1. fs.val = "path"
      BY <1>4, <1>5, <2>2 DEF Errored
    <3>2. {fs.val, "words"} \subseteq fs.heap
      BY <1>3, <1>4, <3>1 DEF Accounts
    <3> QED BY <2>2, <3>2 DEF Copy, Fill
  <2> QED BY <2>1, <2>2
<1>8. fs.val \in Results(c, l) /\ l \notin Adding
  BY <1>3, <1>4 DEF Adding
<1> QED BY <1>0, <1>1, <1>4, <1>5, <1>6, <1>7, <1>8, ReturnsInv

\* abs_path_from_relative does the same (filesystem.c:69).
LEMMA PrintPathInv == ASSUME Inv, PrintPath PROVE Inv'
<1> USE DEF NULL
<1> DEFINE l == "print"
<1>0. PICK c : c = Caller(Len(fs.at))
  OBVIOUS
<1>1. At(l) /\ l \in Within(c) /\ InBody(c, l)
  BY <1>0, Here DEF PrintPath
<1>2. c = "abs_path ends"
  BY <1>1, Callers DEF InRelative
<1>3. /\ Below(c) = {"path"} /\ Kept(l, fs.val) = {"cwd"} /\ InHand(l, fs.val) = {fs.val}
      /\ Vals(c, l) = {"abs", NULL} /\ Results(c, l) = {"abs", NULL}
  BY <1>2 DEF Below, Kept, InHand, Vals, Results, Brings, Calling
<1>4. /\ fs.val \in {"abs", NULL} /\ Holds(frame[curr], fs.arg, {"cwd"})
      /\ Accounts(Below(c) \cup {"cwd"} \cup {fs.val})
  BY <1>1, <1>3 DEF InBody
<1>5. /\ fs.val # NULL => err = 0
      /\ fs.val = NULL => err # 0
  <2>1. Told(l \in {"opened", "open_dir ends"})
    BY <1>1 DEF InBody, Calling
  <2> QED BY <2>1 DEF Told
<1>6. /\ {"cwd"} \in SUBSET ((Blocks \ {"names"}) \cup {NULL})
      /\ {"cwd"} \cap (Below(c) \cup {fs.val}) \subseteq {NULL}
  BY <1>3, <1>4 DEF Blocks
<1>7. Return(fs.val)
  <2>1. CASE Errored
    <3>1. fs.val = NULL
      BY <1>5, <2>1 DEF Errored
    <3> QED BY <2>1, <3>1 DEF PrintPath
  <2>2. CASE ~Errored
    <3>1. fs.val = "abs"
      BY <1>4, <1>5, <2>2 DEF Errored
    <3>2. {fs.val, "cwd"} \subseteq fs.heap
      BY <1>3, <1>4, <3>1 DEF Accounts
    <3> QED BY <2>2, <3>2 DEF PrintPath, Fill
  <2> QED BY <2>1, <2>2
<1>8. fs.val \in Results(c, l) /\ l \notin Adding
  BY <1>3, <1>4 DEF Adding
<1> QED BY <1>0, <1>1, <1>4, <1>5, <1>6, <1>7, <1>8, ReturnsInv

\* abs_path returns NULL, or the absolute path it was given, or frees the
\* relative one at its end (filesystem.c:78).
LEMMA ExpandedInv == ASSUME Inv, Expanded PROVE Inv'
<1> USE DEF NULL
<1> DEFINE l == "expanded"
           m == "from relative"
<1>0. PICK c : c = Caller(Len(fs.at))
  OBVIOUS
<1>1. At(l) /\ l \in Within(c) /\ InBody(c, l) /\ NamesOK /\ Place = l /\ fs.fault = "none"
  BY <1>0, Here DEF Expanded
<1>2. c = "none"
  BY <1>1, Callers DEF InAbsPath
<1>3. /\ Below(c) = {} /\ Kept(l, fs.val) = {} /\ InHand(l, fs.val) = {fs.val}
      /\ Vals(c, l) = {"path", NULL} /\ Results(c, l) = {"path", "abs", NULL}
  BY <1>2 DEF Below, Kept, InHand, Vals, Results, Brings, Calling, InAbsPath
<1>4. /\ fs.val \in {"path", NULL} /\ Holds(frame[curr], fs.arg, {}) /\ frame[curr].used = 0
      /\ Accounts({fs.val})
  BY <1>1, <1>3 DEF InBody
<1>5. /\ fs.val # NULL => err = 0
      /\ fs.val = NULL => err # 0
  <2>1. Told(l \in {"opened", "open_dir ends"})
    BY <1>1 DEF InBody, Calling
  <2> QED BY <2>1 DEF Told
<1>6. CASE Return(fs.val)
  <2>1. Accounts(Below(c) \cup {} \cup {fs.val}) /\ {} \cap (Below(c) \cup {fs.val}) \subseteq {NULL}
    BY <1>3, <1>4
  <2>2. fs.val \in Results(c, l) /\ l \notin Adding
    BY <1>3, <1>4 DEF Adding
  <2> QED BY <1>0, <1>1, <1>4, <1>5, <1>6, <2>1, <2>2, ReturnsInv
<1>7. CASE ~Errored /\ Defers(fs.val, m)
  <2>0. To(m) \in Seq(Labels) /\ Together(l, m)
    BY <1>1, ToLabels DEF Together, InAbsPath
  <2>1. err = 0 /\ fs.val = "path"
    BY <1>4, <1>5, <1>7 DEF Errored
  <2>2. /\ fs' \in States /\ fs'.at = To(m) /\ fs'.arg = Append(fs.arg, "path")
        /\ fs'.heap = fs.heap /\ fs'.val = fs.val /\ fs'.array = fs.array
        /\ fs'.failed = fs.failed /\ fs'.fault = "none"
    BY <1>1, <1>7, <2>0, <2>1, DefersFields DEF Blocks
  <2>3. Place' = m /\ err' = err /\ Holds(frame[curr], fs.arg, {"path"})' /\ (frame[curr].used = 0)'
        /\ (InBody(c, m)' /\ NamesOK' => Inv')
    BY <1>0, <1>1, <1>4, <1>7, <2>0, <2>2, DeferMoves DEF Blocks, Defers
  <2>4. /\ Kept(m, fs'.val) = {"path"} /\ InHand(m, fs'.val) = {} /\ Vals(c, m) = Blocks \cup {NULL}
    BY DEF Kept, InHand, Vals, Calling, Ends
  <2>5. InBody(c, m)'
    <3>1. Accounts({"path"})'
      BY <1>4, <2>1, <2>2 DEF Accounts
    <3>2. Below(c) \cup {"path"} \cup {} = {"path"} /\ fs'.val \in Vals(c, m)
      BY <1>3, <2>1, <2>2, <2>4 DEF Blocks
    <3> QED BY <2>1, <2>3, <2>4, <3>1, <3>2 DEF InBody, Calling, Ends
  <2>6. NamesOK'
    BY <1>1, <2>2, <2>3 DEF NamesOK, Adding
  <2> QED BY <2>3, <2>5, <2>6
<1>8. Errored /\ Return(NULL) => Return(fs.val)
  BY <1>5 DEF Errored
<1> QED BY <1>6, <1>7, <1>8 DEF Expanded

\* open_dir returns NULL or frees the path at its end (filesystem.c:93).
LEMMA ToOpenInv == ASSUME Inv, ToOpen PROVE Inv'
<1> USE DEF NULL
<1> DEFINE l == "to open"
           m == "opendir"
<1>0. PICK c : c = Caller(Len(fs.at))
  OBVIOUS
<1>1. At(l) /\ l \in Within(c) /\ InBody(c, l) /\ NamesOK /\ Place = l /\ fs.fault = "none"
  BY <1>0, Here DEF ToOpen
<1>2. c = "opened"
  BY <1>1, Callers DEF InOpenDir
<1>3. /\ Below(c) = {} /\ Kept(l, fs.val) = {} /\ InHand(l, fs.val) = {fs.val}
      /\ Vals(c, l) = {"path", NULL} /\ Results(c, l) = {"dir", NULL}
  BY <1>2 DEF Below, Kept, InHand, Vals, Results, Brings, Calling
<1>4. /\ fs.val \in {"path", NULL} /\ Holds(frame[curr], fs.arg, {}) /\ frame[curr].used = 0
      /\ Accounts({fs.val})
  BY <1>1, <1>3 DEF InBody
<1>5. /\ fs.val # NULL => err = 0
      /\ fs.val = NULL => err # 0
  <2>1. Told(l \in {"opened", "open_dir ends"})
    BY <1>1 DEF InBody, Calling
  <2> QED BY <2>1 DEF Told
<1>6. CASE Errored
  <2>1. fs.val = NULL /\ Return(fs.val)
    BY <1>5, <1>6 DEF Errored, ToOpen
  <2>2. Accounts(Below(c) \cup {} \cup {fs.val}) /\ {} \cap (Below(c) \cup {fs.val}) \subseteq {NULL}
    BY <1>3, <1>4
  <2>3. fs.val \in Results(c, l) /\ l \notin Adding
    BY <1>3, <2>1 DEF Adding
  <2> QED BY <1>0, <1>1, <1>4, <1>5, <2>1, <2>2, <2>3, ReturnsInv
<1>7. CASE ~Errored
  <2>0. To(m) \in Seq(Labels) /\ Together(l, m)
    BY <1>1, ToLabels DEF Together, InOpenDir
  <2>1. err = 0 /\ fs.val = "path" /\ Defers("path", m)
    BY <1>4, <1>5, <1>7 DEF Errored, ToOpen
  <2>2. /\ fs' \in States /\ fs'.at = To(m) /\ fs'.arg = Append(fs.arg, "path")
        /\ fs'.heap = fs.heap /\ fs'.val = fs.val /\ fs'.array = fs.array
        /\ fs'.failed = fs.failed /\ fs'.fault = "none"
    BY <1>1, <2>0, <2>1, DefersFields DEF Blocks
  <2>3. Place' = m /\ err' = err /\ Holds(frame[curr], fs.arg, {"path"})' /\ (frame[curr].used = 0)'
        /\ (InBody(c, m)' /\ NamesOK' => Inv')
    BY <1>0, <1>1, <1>4, <2>0, <2>1, <2>2, DeferMoves DEF Blocks, Defers
  <2>4. /\ Kept(m, fs'.val) = {"path"} /\ InHand(m, fs'.val) = {} /\ Vals(c, m) = Blocks \cup {NULL}
    BY DEF Kept, InHand, Vals, Calling, Ends
  <2>5. InBody(c, m)'
    <3>1. Accounts({"path"})'
      BY <1>4, <2>1, <2>2 DEF Accounts
    <3>2. Below(c) \cup {"path"} \cup {} = {"path"} /\ fs'.val \in Vals(c, m)
      BY <1>3, <2>1, <2>2, <2>4 DEF Blocks
    <3> QED BY <2>1, <2>3, <2>4, <3>1, <3>2 DEF InBody, Calling, Ends
  <2>6. NamesOK'
    BY <1>1, <2>2, <2>3 DEF NamesOK, Adding
  <2> QED BY <2>3, <2>5, <2>6
<1> QED BY <1>6, <1>7

\* abs_path_from_relative frees what getcwd returned at its end, NULL too
\* (filesystem.c:61).
LEMMA GetcwdInv == ASSUME Inv, Getcwd PROVE Inv'
<1> USE DEF NULL
<1> DEFINE l == "relative"
           m == "join"
<1>0. PICK c : c = Caller(Len(fs.at))
  OBVIOUS
<1>1. At(l) /\ l \in Within(c) /\ InBody(c, l) /\ NamesOK /\ Place = l /\ fs.fault = "none"
  BY <1>0, Here DEF Getcwd
<1>2. c = "abs_path ends"
  BY <1>1, Callers DEF InRelative
<1>3. fs \in States /\ To(m) \in Seq(Labels) /\ Together(l, m)
  BY <1>1, ToLabels DEF Inv, Types, Together, InRelative
<1>4. Below(c) = {"path"} /\ Kept(l, fs.val) = {} /\ InHand(l, fs.val) = {}
  BY <1>2 DEF Below, Kept, InHand, Calling, Ends
<1>5. /\ Holds(frame[curr], fs.arg, {}) /\ frame[curr].used = 0 /\ Accounts({"path"}) /\ err = 0
  BY <1>1, <1>4 DEF InBody, Ends, Calling
<1>6. PICK cwd \in {"cwd", NULL} :
        fs' = [fs EXCEPT !.arg = Append(@, cwd), !.val = cwd, !.at = To(m),
                         !.heap = @ \cup ({cwd} \ {NULL}),
                         !.failed = @ \cup (IF cwd = NULL THEN {"getcwd"} ELSE {})]
  BY DEF Getcwd
<1>7. cwd \in Blocks \cup {NULL}
  BY DEF Blocks
<1> DEFINE new == Append(fs.arg, cwd)
           got == {cwd} \ {NULL}
           lost == IF cwd = NULL THEN {"getcwd"} ELSE {}
<1>8. new \in Seq(Blocks \cup {NULL}) /\ got \subseteq Blocks /\ lost \subseteq Failures
  BY <1>3, <1>7, HoldsGrow DEF States, Blocks, Failures
<1>9. fs' = [fs EXCEPT !.arg = new, !.val = cwd, !.at = To(m), !.heap = @ \cup got,
                       !.failed = @ \cup lost]
  BY <1>6
<1> HIDE DEF new, got, lost
<1>10. /\ fs' \in States /\ fs'.at = To(m) /\ fs'.arg = new /\ fs'.heap = fs.heap \cup got
       /\ fs'.val = cwd /\ fs'.array = fs.array /\ fs'.failed = fs.failed \cup lost
       /\ fs'.fault = "none"
  BY <1>1, <1>3, <1>7, <1>8, <1>9 DEF States
<1>11. /\ Place' = m /\ err' = err
       /\ Holds(frame[curr], fs.arg, {cwd})' /\ (frame[curr].used = 0)'
       /\ InBody(c, m)' /\ NamesOK' => Inv'
  BY <1>0, <1>1, <1>3, <1>5, <1>7, <1>10, DeferMoves DEF Getcwd, new
<1>12. /\ Kept(m, fs'.val) = {fs'.val} /\ InHand(m, fs'.val) = {} /\ Vals(c, m) = {"cwd", NULL}
  BY DEF Kept, InHand, Vals, Calling, Ends
<1>13. InBody(c, m)'
  <2>1. Accounts({"path"} \cup {fs.val} \cup {})'
    BY <1>5, <1>6, <1>10 DEF Accounts, got
  <2>2. fs'.val = NULL => "getcwd" \in fs'.failed
    BY <1>10 DEF lost
  <2> QED BY <1>4, <1>5, <1>10, <1>11, <1>12, <2>1, <2>2 DEF InBody, Calling, Ends
<1>14. NamesOK'
  BY <1>1, <1>6, <1>10, <1>11 DEF NamesOK, Adding, got
<1> QED BY <1>11, <1>13, <1>14

\* open_dir's opendir: a directory, or NULL and an error if errm knows the errno
\* (filesystem.c:96).
LEMMA OpendirInv == ASSUME Inv, Opendir PROVE Inv'
<1> USE DEF NULL
<1> DEFINE l == "opendir"
           m == "open_dir ends"
<1>0. PICK c : c = Caller(Len(fs.at))
  OBVIOUS
<1>1. At(l) /\ l \in Within(c) /\ InBody(c, l) /\ NamesOK /\ Place = l /\ fs.fault = "none"
  BY <1>0, Here DEF Opendir
<1>2. c = "opened"
  BY <1>1, Callers DEF InOpenDir
<1>3. fs \in States /\ To(m) \in Seq(Labels) /\ Together(l, m) /\ err \in Nat
  BY <1>1, ToLabels DEF Inv, Types, Together, InOpenDir
<1>4. /\ Below(c) = {} /\ Kept(l, fs.val) = {"path"} /\ InHand(l, fs.val) = {}
      /\ Vals(c, m) = {"dir", NULL} /\ \A v : Kept(m, v) = {"path"} /\ InHand(m, v) = {v}
  BY <1>2 DEF Below, Kept, InHand, Vals, Calling, Ends
<1>5. /\ Holds(frame[curr], fs.arg, {"path"}) /\ frame[curr].used = 0
      /\ Accounts({"path"}) /\ err = 0
  BY <1>1, <1>4 DEF InBody, Ends, Calling
<1>6. ASSUME fs' \in States, fs'.at = To(m), fs'.arg = fs.arg, fs'.array = fs.array,
             fs'.fault = fs.fault, fs'.val \in {"dir", NULL},
             fs'.heap = fs.heap \cup ({fs'.val} \ {NULL}), fs.failed \subseteq fs'.failed,
             err' \in Nat, UNCHANGED <<curr, frame, phase, aborted, count>>,
             fs'.val # NULL => err' = 0,
             fs'.val = NULL => err' # 0 \/ "opendir silently" \in fs'.failed
      PROVE  Inv'
  <2>1. Place' = m /\ (InBody(c, m)' /\ NamesOK' => Inv')
    BY <1>0, <1>1, <1>3, <1>6, Moves
  <2>2. Accounts({} \cup {"path"} \cup {fs.val})'
    BY <1>5, <1>6 DEF Accounts
  <2>3. Holds(frame[curr], fs.arg, {"path"})' /\ (frame[curr].used = 0)'
    BY <1>5, <1>6
  <2>4. Told(m \in {"opened", "open_dir ends"})'
    BY <1>6 DEF Told
  <2>5. InBody(c, m)'
    BY <1>4, <1>6, <2>2, <2>3, <2>4 DEF InBody, Calling, Ends
  <2>6. NamesOK'
    BY <1>1, <1>6, <2>1 DEF NamesOK, Adding
  <2> QED BY <2>1, <2>5, <2>6
<1>7. CASE Allocates("dir", m) /\ UNCHANGED errm
  <2>1. /\ fs' \in States /\ fs'.at = To(m) /\ fs'.val = "dir" /\ fs'.arg = fs.arg
        /\ fs'.heap = fs.heap \cup {"dir"} /\ fs'.array = fs.array /\ fs'.fault = fs.fault
        /\ fs'.failed = fs.failed
    BY <1>3, <1>7, AllocatesFields DEF Blocks
  <2>2. fs'.heap = fs.heap \cup ({fs'.val} \ {NULL})
    BY <2>1
  <2> QED BY <1>3, <1>5, <1>6, <1>7, <2>1, <2>2 DEF errm
<1>8. CASE \E e \in Errnos \cap DOMAIN E!Codes : Fails("opendir", m) /\ E!SetFromErrno(e)
  <2>1. /\ fs' \in States /\ fs'.at = To(m) /\ fs'.val = NULL /\ fs'.arg = fs.arg
        /\ fs'.heap = fs.heap /\ fs'.array = fs.array /\ fs'.fault = fs.fault
        /\ fs'.failed = fs.failed \cup {"opendir"}
    BY <1>3, <1>8, FailsFields DEF Failures
  <2>2. err' \in Nat \ {0} /\ UNCHANGED <<curr, frame, phase, aborted, count>>
    BY <1>8, FromErrnoFields
  <2>3. fs'.heap = fs.heap \cup ({fs'.val} \ {NULL})
    BY <2>1
  <2> QED BY <1>6, <2>1, <2>2, <2>3
<1>9. CASE Fails("opendir silently", m) /\ UNCHANGED errm
  <2>1. /\ fs' \in States /\ fs'.at = To(m) /\ fs'.val = NULL /\ fs'.arg = fs.arg
        /\ fs'.heap = fs.heap /\ fs'.array = fs.array /\ fs'.fault = fs.fault
        /\ fs'.failed = fs.failed \cup {"opendir silently"}
    BY <1>3, <1>9, FailsFields DEF Failures
  <2>2. fs'.heap = fs.heap \cup ({fs'.val} \ {NULL})
    BY <2>1
  <2> QED BY <1>3, <1>6, <1>9, <2>1, <2>2 DEF errm
<1> QED BY <1>7, <1>8, <1>9 DEF Opendir

\* dir_content returns NULL on an error, or closes the directory at its end, which
\* is NULL when opendir's errno was unknown (filesystem.c:117).
LEMMA OpenedInv == ASSUME Inv, Opened PROVE Inv'
<1> USE DEF NULL
<1> DEFINE l == "opened"
           m == "new array"
<1>0. PICK c : c = Caller(Len(fs.at))
  OBVIOUS
<1>1. At(l) /\ l \in Within(c) /\ InBody(c, l) /\ NamesOK /\ Place = l /\ fs.fault = "none"
  BY <1>0, Here DEF Opened
<1>2. c = "none"
  BY <1>1, Callers DEF InDirContent
<1>3. /\ Below(c) = {} /\ Kept(l, fs.val) = {} /\ InHand(l, fs.val) = {fs.val}
      /\ Vals(c, l) = {"dir", NULL} /\ Results(c, l) = {"names", NULL}
  BY <1>2 DEF Below, Kept, InHand, Vals, Results, Brings, Calling, InAbsPath
<1>4. /\ fs.val \in {"dir", NULL} /\ Holds(frame[curr], fs.arg, {}) /\ frame[curr].used = 0
      /\ Accounts({fs.val})
  BY <1>1, <1>3 DEF InBody
<1>5. /\ fs.val # NULL => err = 0
      /\ fs.val = NULL => err # 0 \/ "opendir silently" \in fs.failed
  <2>1. Told(l \in {"opened", "open_dir ends"})
    BY <1>1 DEF InBody, Calling
  <2> QED BY <2>1 DEF Told
<1>6. CASE Errored
  <2>1. fs.val = NULL /\ err # 0 /\ Return(fs.val)
    BY <1>5, <1>6 DEF Errored, Opened
  <2>2. Accounts(Below(c) \cup {} \cup {fs.val}) /\ {} \cap (Below(c) \cup {fs.val}) \subseteq {NULL}
    BY <1>3, <1>4
  <2>3. fs.val \in Results(c, l) /\ l \notin Adding
    BY <1>3, <2>1 DEF Adding
  <2> QED BY <1>0, <1>1, <1>4, <1>5, <2>1, <2>2, <2>3, ReturnsInv
<1>7. CASE ~Errored
  <2>0. To(m) \in Seq(Labels) /\ Together(l, m)
    BY <1>1, ToLabels DEF Together, InDirContent
  <2>1. err = 0 /\ Defers(fs.val, m) /\ fs.val \in Blocks \cup {NULL}
    BY <1>4, <1>7 DEF Errored, Opened, Blocks
  <2>2. /\ fs' \in States /\ fs'.at = To(m) /\ fs'.arg = Append(fs.arg, fs.val)
        /\ fs'.heap = fs.heap /\ fs'.val = fs.val /\ fs'.array = fs.array
        /\ fs'.failed = fs.failed /\ fs'.fault = "none"
    BY <1>1, <2>0, <2>1, DefersFields
  <2>3. PICK b : b = fs.val
    OBVIOUS
  <2>4. Place' = m /\ err' = err /\ Holds(frame[curr], fs.arg, {b})' /\ (frame[curr].used = 0)'
        /\ (InBody(c, m)' /\ NamesOK' => Inv')
    BY <1>0, <1>1, <1>4, <2>0, <2>1, <2>2, <2>3, DeferMoves DEF Defers
  <2>5. /\ Kept(m, fs'.val) = {fs'.val} /\ InHand(m, fs'.val) = {} /\ Vals(c, m) = {"dir", NULL}
    BY DEF Kept, InHand, Vals, Calling, Ends
  <2>6. InBody(c, m)'
    <3>1. Accounts({} \cup {fs.val} \cup {})'
      BY <1>4, <2>2 DEF Accounts
    <3>2. fs'.val = b /\ fs'.val \in {"dir", NULL} /\ err' = 0
      BY <1>4, <2>1, <2>2, <2>3, <2>4
    <3>3. fs'.val = NULL => "opendir silently" \in fs'.failed
      BY <1>5, <2>1, <2>2
    <3> QED BY <1>3, <2>4, <2>5, <3>1, <3>2, <3>3 DEF InBody, Calling, Ends
  <2>7. NamesOK'
    BY <1>1, <2>2, <2>4 DEF NamesOK, Adding
  <2> QED BY <2>4, <2>6, <2>7
<1> QED BY <1>6, <1>7

\* dir_content's empty array, or a failed dga_new (dga.c:3).
LEMMA NewArrayInv == ASSUME Inv, NewArray PROVE Inv'
<1> USE DEF NULL
<1> DEFINE l == "new array"
           m == "readdir"
<1>0. PICK c : c = Caller(Len(fs.at))
  OBVIOUS
<1>1. At(l) /\ l \in Within(c) /\ InBody(c, l) /\ NamesOK /\ Place = l /\ fs.fault = "none"
  BY <1>0, Here DEF NewArray
<1>2. c = "none"
  BY <1>1, Callers DEF InDirContent
<1>3. fs \in States /\ To(m) \in Seq(Labels) /\ Together(l, m) /\ err \in Nat
  BY <1>1, ToLabels DEF Inv, Types, Together, InDirContent
<1>4. /\ Below(c) = {} /\ Vals(c, l) = {"dir", NULL} /\ Vals(c, m) = {"dir", NULL}
      /\ \A v : Kept(l, v) = {v} /\ InHand(l, v) = {} /\ Kept(m, v) = {v} /\ InHand(m, v) = {"names"}
  BY <1>2 DEF Below, Kept, InHand, Vals, Calling, Ends
<1>5. /\ fs.val \in {"dir", NULL} /\ Holds(frame[curr], fs.arg, {fs.val}) /\ frame[curr].used = 0
      /\ Accounts({fs.val}) /\ err = 0
      /\ fs.val = NULL => "opendir silently" \in fs.failed
  BY <1>1, <1>4 DEF InBody, Ends, Calling
<1>6. "names" \notin fs.heap
  BY <1>5 DEF Accounts
<1>7. NoNames \in Arrays /\ NoNames.len = 0 /\ NoNames.holds = 0 /\ NoNames.live = {}
  BY FilesystemAssumption DEF FilesystemAssumption, NoNames, Arrays
<1>8. PICK got \in {{}, {"names"}}, lost \in {{}, {"dga_new"}} :
        /\ got = {} => lost = {"dga_new"}
        /\ fs' = [fs EXCEPT !.heap = @ \cup got, !.failed = @ \cup lost, !.array = NoNames,
                            !.at = To(m)]
  <2>1. CASE fs' = [fs EXCEPT !.heap = @ \cup {"names"}, !.array = NoNames, !.at = To(m)]
    <3>1. fs.failed \cup {} = fs.failed
      OBVIOUS
    <3>2. fs' = [fs EXCEPT !.heap = @ \cup {"names"}, !.failed = @ \cup {}, !.array = NoNames,
                           !.at = To(m)]
      BY <1>3, <2>1, <3>1 DEF States
    <3> QED BY <3>2
  <2>2. CASE fs' = [fs EXCEPT !.failed = @ \cup {"dga_new"}, !.array = NoNames, !.at = To(m)]
    <3>1. fs.heap \cup {} = fs.heap
      OBVIOUS
    <3>2. fs' = [fs EXCEPT !.heap = @ \cup {}, !.failed = @ \cup {"dga_new"}, !.array = NoNames,
                           !.at = To(m)]
      BY <1>3, <2>2, <3>1 DEF States
    <3> QED BY <3>2
  <2> QED BY <2>1, <2>2 DEF NewArray
<1>9. got \subseteq Blocks /\ lost \subseteq Failures
  BY DEF Blocks, Failures
<1>10. /\ fs' \in States /\ fs'.at = To(m) /\ fs'.arg = fs.arg /\ fs'.heap = fs.heap \cup got
       /\ fs'.val = fs.val /\ fs'.array = NoNames /\ fs'.failed = fs.failed \cup lost
       /\ fs'.fault = "none"
  BY <1>1, <1>3, <1>7, <1>8, <1>9 DEF States
<1>11. UNCHANGED <<err, curr, frame, phase, aborted, count>>
  BY DEF NewArray, errm
<1>12. Place' = m /\ (InBody(c, m)' /\ NamesOK' => Inv')
  BY <1>0, <1>1, <1>3, <1>10, <1>11, Moves
<1>13. InBody(c, m)'
  <2>1. Accounts({} \cup {fs.val} \cup {"names"})'
    BY <1>5, <1>6, <1>8, <1>10 DEF Accounts
  <2>2. Holds(frame[curr], fs.arg, {fs.val})' /\ (frame[curr].used = 0)'
    BY <1>5, <1>10, <1>11
  <2>3. fs'.val = NULL => "opendir silently" \in fs'.failed
    BY <1>5, <1>10
  <2> QED BY <1>4, <1>5, <1>10, <1>11, <2>1, <2>2, <2>3 DEF InBody, Calling, Ends
<1>14. NamesOK'
  <2>1. 1 .. NoNames.len = {}
    BY <1>7
  <2> QED BY <1>7, <1>10, <1>12, <2>1 DEF NamesOK, Adding
<1> QED BY <1>12, <1>13, <1>14

\* What is known while the entries are read.
LEMMA Reading ==
  ASSUME Inv, NEW l \in {"grow", "new name", "memfail", "free names"}, At(l),
         NEW c, c = Caller(Len(fs.at))
  PROVE  /\ c = "none" /\ Below(c) = {} /\ Vals(c, l) \subseteq {"dir", NULL}
         /\ Holds(frame[curr], fs.arg, {"dir"}) /\ frame[curr].used = 0
         /\ Accounts({"dir", "names"}) /\ fs.val \in Vals(c, l)
         /\ l # "free names" => fs.val = "dir" /\ err = 0
         /\ Place = l /\ NamesOK /\ fs.fault = "none" /\ fs \in States /\ err \in Nat
<1> USE DEF NULL
<1>1. l \in Within(c) /\ InBody(c, l) /\ NamesOK /\ Place = l /\ fs.fault = "none"
  BY Here
<1>2. c = "none"
  BY <1>1, Callers DEF InDirContent
<1>3. /\ Below(c) = {} /\ Kept(l, fs.val) = {"dir"} /\ InHand(l, fs.val) = {"names"}
      /\ Vals(c, l) \subseteq {"dir", NULL}
      /\ l # "free names" => Vals(c, l) = {"dir"}
  BY <1>2 DEF Below, Kept, InHand, Vals, Calling, Ends
<1>4. {} \cup {"dir"} \cup {"names"} = {"dir", "names"}
  OBVIOUS
<1>5. /\ Holds(frame[curr], fs.arg, {"dir"}) /\ frame[curr].used = 0
      /\ Accounts({"dir", "names"}) /\ fs.val \in Vals(c, l)
      /\ l # "free names" => err = 0
  BY <1>1, <1>3, <1>4 DEF InBody, Ends, Calling
<1>6. fs \in States /\ err \in Nat
  BY DEF Inv, Types
<1> QED BY <1>1, <1>2, <1>3, <1>5, <1>6

\* What there is to show when they go on being read.
LEMMA ReadsOn ==
  ASSUME Inv, NEW l, At(l), NEW m \in {"grow", "new name", "memfail", "readdir"}, Together(l, m),
         NEW c, c = Caller(Len(fs.at)), c = "none",
         fs.val = "dir", Holds(frame[curr], fs.arg, {"dir"}), frame[curr].used = 0, err = 0,
         Accounts({"dir", "names"}),
         fs' \in States, fs'.at = To(m), fs'.arg = fs.arg, fs'.heap = fs.heap, fs'.val = fs.val,
         fs.failed \subseteq fs'.failed, fs'.fault = "none", UNCHANGED errm
  PROVE  Place' = m /\ (NamesOK' => Inv')
<1> USE DEF NULL
<1>1. UNCHANGED <<err, curr, frame, phase, aborted, count>> /\ err \in Nat
  BY DEF errm, Inv, Types
<1>2. Place' = m /\ (InBody(c, m)' /\ NamesOK' => Inv')
  BY <1>1, Moves
<1>3. /\ Below(c) = {} /\ Kept(m, "dir") = {"dir"} /\ InHand(m, "dir") = {"names"}
      /\ "dir" \in Vals(c, m)
  BY DEF Below, Kept, InHand, Vals, Calling, Ends
<1>4. Accounts({} \cup {"dir"} \cup {"names"})'
  BY DEF Accounts
<1>5. Holds(frame[curr], fs.arg, {"dir"})' /\ (frame[curr].used = 0)' /\ err' = 0 /\ fs'.val = "dir"
  BY <1>1
<1>6. m \notin Calling \cup Ends \cup {"free names", "join"}
  BY DEF Calling, Ends
<1>7. InBody(c, m)'
  BY <1>3, <1>4, <1>5, <1>6 DEF InBody
<1> QED BY <1>2, <1>7

\* dir_content reads entries of the directory until there are none, and returns
\* the array (filesystem.c:123).
LEMMA ReaddirInv == ASSUME Inv, Readdir PROVE Inv'
<1> USE DEF NULL
<1> DEFINE l == "readdir"
<1>0. PICK c : c = Caller(Len(fs.at))
  OBVIOUS
<1>1. At(l) /\ l \in Within(c) /\ InBody(c, l) /\ NamesOK /\ Place = l /\ fs.fault = "none"
  BY <1>0, Here DEF Readdir
<1>2. c = "none" /\ fs \in States
  BY <1>1, Callers DEF InDirContent, Inv, Types
<1>3. /\ Below(c) = {} /\ Vals(c, l) = {"dir", NULL} /\ Results(c, l) = {"names", NULL}
      /\ Kept(l, fs.val) = {fs.val} /\ InHand(l, fs.val) = {"names"}
  BY <1>2 DEF Below, Kept, InHand, Vals, Results, Calling, Ends, InAbsPath
<1>4. /\ fs.val \in {"dir", NULL} /\ Holds(frame[curr], fs.arg, {fs.val}) /\ frame[curr].used = 0
      /\ Accounts({} \cup {fs.val} \cup {"names"}) /\ err = 0
      /\ fs.val = NULL => "opendir silently" \in fs.failed
  BY <1>1, <1>3 DEF InBody, Ends, Calling
<1>5. CASE fs.val = NULL /\ Faults("NULL directory")
  <2>1. fs' \in States /\ fs'.at = fs.at /\ fs'.arg = fs.arg /\ fs'.failed = fs.failed
        /\ fs'.fault = "NULL directory"
    BY <1>2, <1>5 DEF States, Faults, Causes
  <2>2. <<"NULL directory", "opendir silently">> \in Causes
    BY DEF Causes
  <2> QED BY <1>4, <1>5, <2>1, <2>2, FaultsInv DEF Faults
<1>6. CASE fs.val = "dir" /\ Return("names")
  <2>1. Accounts(Below(c) \cup {"dir"} \cup {"names"}) /\ Holds(frame[curr], fs.arg, {"dir"})
    BY <1>3, <1>4, <1>6
  <2>2. /\ {"dir"} \in SUBSET ((Blocks \ {"names"}) \cup {NULL})
        /\ {"dir"} \cap (Below(c) \cup {"names"}) \subseteq {NULL}
        /\ "names" \in Results(c, l) /\ l \notin Adding
    BY <1>3 DEF Blocks, Adding
  <2>3. /\ "names" # NULL => err = 0
        /\ "names" = NULL => err # 0 \/ (l \in InOpenDir /\ "opendir silently" \in fs.failed)
    BY <1>4
  <2>4. Return("names")
    BY <1>6
  <2> QED BY <1>0, <1>1, <2>1, <2>2, <2>3, <2>4, ReturnsInv
<1>7. CASE /\ fs.val = "dir" /\ fs.array.len < MaxNames
           /\ UNCHANGED errm /\ fs' = [fs EXCEPT !.at = To("grow")]
  <2> DEFINE m == "grow"
  <2>0. To(m) \in Seq(Labels) /\ Together(l, m)
    BY <1>1, ToLabels DEF Together, InDirContent
  <2>1. /\ fs' \in States /\ fs'.at = To(m) /\ fs'.arg = fs.arg /\ fs'.heap = fs.heap
        /\ fs'.val = fs.val /\ fs'.array = fs.array /\ fs'.failed = fs.failed /\ fs'.fault = "none"
    BY <1>1, <1>2, <1>7, <2>0 DEF States
  <2>2. Accounts({"dir", "names"}) /\ Holds(frame[curr], fs.arg, {"dir"})
    <3>1. {} \cup {"dir"} \cup {"names"} = {"dir", "names"}
      OBVIOUS
    <3> QED BY <1>4, <1>7, <3>1
  <2>3. Place' = m /\ (NamesOK' => Inv')
    BY <1>0, <1>1, <1>2, <1>4, <1>7, <2>0, <2>1, <2>2, ReadsOn
  <2>4. NamesOK'
    BY <1>1, <1>7, <2>1, <2>3 DEF NamesOK, Adding
  <2> QED BY <2>3, <2>4
<1> QED BY <1>5, <1>6, <1>7 DEF Readdir

\* dga_grow by one element (dga.c:21): its length counts it even if there is no
\* memory for it.
LEMMA GrowInv == ASSUME Inv, Grow PROVE Inv'
<1> USE DEF NULL
<1> DEFINE l == "grow"
           a == fs.array
<1>0. PICK c : c = Caller(Len(fs.at))
  OBVIOUS
<1>1. At(l) /\ UNCHANGED errm
  BY DEF Grow
<1>2. /\ c = "none" /\ Holds(frame[curr], fs.arg, {"dir"}) /\ frame[curr].used = 0
      /\ Accounts({"dir", "names"}) /\ fs.val = "dir" /\ err = 0
      /\ Place = l /\ NamesOK /\ fs.fault = "none" /\ fs \in States
  BY <1>0, <1>1, Reading
<1>3. CASE "names" \notin fs.heap
  <2>1. fs' = [fs EXCEPT !.fault = "NULL header"]
    BY <1>3 DEF Grow
  <2>2. fs' \in States /\ fs'.at = fs.at /\ fs'.arg = fs.arg /\ fs'.failed = fs.failed
        /\ fs'.fault = "NULL header"
    BY <1>2, <2>1 DEF States, Causes
  <2>3. <<"NULL header", "dga_new">> \in Causes /\ "dga_new" \in fs.failed
    BY <1>2, <1>3 DEF Causes, Accounts
  <2> QED BY <1>1, <2>2, <2>3, FaultsInv
<1>4. CASE "names" \in fs.heap
  <2>1. /\ a \in Arrays /\ a.len = a.holds /\ a.live = 1 .. a.len /\ a.len < MaxNames
        /\ a.len \in Nat /\ MaxNames \in Nat
    BY <1>2, <1>4, FilesystemAssumption DEF States, NamesOK, FilesystemAssumption, Arrays
  <2>2. CASE fs' = [fs EXCEPT !.array = Resized(@), !.at = To("new name")]
    <3> DEFINE m == "new name"
               b == Resized(a)
    <3>0. To(m) \in Seq(Labels) /\ Together(l, m)
      BY <1>1, ToLabels DEF Together, InDirContent
    <3>1. b \in Arrays /\ b.len = a.len + 1 /\ b.holds = a.len + 1 /\ b.live = a.live
      <4>1. b = [a EXCEPT !.len = @ + 1, !.holds = a.len + 1]
        BY DEF Resized
      <4> HIDE DEF a, b
      <4>2. a.len + 1 \in 0 .. MaxNames
        BY <2>1
      <4> QED BY <2>1, <4>1, <4>2 DEF Arrays
    <3> HIDE DEF b
    <3>2. fs' = [fs EXCEPT !.array = b, !.at = To(m)]
      BY <2>2 DEF b
    <3>3. /\ fs' \in States /\ fs'.at = To(m) /\ fs'.arg = fs.arg /\ fs'.heap = fs.heap
          /\ fs'.val = fs.val /\ fs'.array = b /\ fs'.failed = fs.failed /\ fs'.fault = "none"
      BY <1>2, <3>0, <3>1, <3>2 DEF States
    <3>4. Place' = m /\ (NamesOK' => Inv')
      BY <1>0, <1>1, <1>2, <3>0, <3>3, ReadsOn
    <3>5. fs'.array.len = fs'.array.holds /\ fs'.array.len >= 1
          /\ fs'.array.live = 1 .. fs'.array.len - 1
      <4>1. a.len + 1 >= 1 /\ a.len + 1 - 1 = a.len
        BY <2>1
      <4>2. b.len >= 1 /\ b.live = 1 .. b.len - 1
        BY <2>1, <3>1, <4>1
      <4> QED BY <3>1, <3>3, <4>2
    <3>6. NamesOK'
      BY <1>4, <3>3, <3>4, <3>5 DEF NamesOK
    <3> QED BY <3>4, <3>6
  <2>3. CASE fs' = [fs EXCEPT !.array.len = @ + 1, !.failed = @ \cup {"dga_grow"},
                              !.at = To("memfail")]
    <3> DEFINE m == "memfail"
               b == [a EXCEPT !.len = @ + 1]
    <3>0. To(m) \in Seq(Labels) /\ Together(l, m)
      BY <1>1, ToLabels DEF Together, InDirContent
    <3>1. b \in Arrays /\ b.len = a.len + 1 /\ b.holds = a.len /\ b.live = a.live
      BY <2>1 DEF Arrays
    <3>2. fs' = [fs EXCEPT !.array = b, !.failed = @ \cup {"dga_grow"}, !.at = To(m)]
      BY <2>3
    <3> HIDE DEF b
    <3>3. /\ fs' \in States /\ fs'.at = To(m) /\ fs'.arg = fs.arg /\ fs'.heap = fs.heap
          /\ fs'.val = fs.val /\ fs'.array = b /\ fs'.failed = fs.failed \cup {"dga_grow"}
          /\ fs'.fault = "none"
      BY <1>2, <3>0, <3>1, <3>2 DEF States, Failures
    <3>4. Place' = m /\ (NamesOK' => Inv')
      BY <1>0, <1>1, <1>2, <3>0, <3>3, ReadsOn
    <3>5. fs'.array.len = fs'.array.holds + 1 /\ fs'.array.live = 1 .. fs'.array.holds
      BY <2>1, <3>1, <3>3
    <3>6. NamesOK'
      BY <1>4, <3>3, <3>4, <3>5 DEF NamesOK, Adding
    <3> QED BY <3>4, <3>6
  <2> QED BY <1>4, <2>2, <2>3 DEF Grow
<1> QED BY <1>3, <1>4

\* dir_content's copy of the name is the new element (filesystem.c:130).
LEMMA NewNameInv == ASSUME Inv, NewName PROVE Inv'
<1> USE DEF NULL
<1> DEFINE l == "new name"
           a == fs.array
<1>0. PICK c : c = Caller(Len(fs.at))
  OBVIOUS
<1>1. At(l) /\ UNCHANGED errm
  BY DEF NewName
<1>2. /\ c = "none" /\ Holds(frame[curr], fs.arg, {"dir"}) /\ frame[curr].used = 0
      /\ Accounts({"dir", "names"}) /\ fs.val = "dir" /\ err = 0
      /\ Place = l /\ NamesOK /\ fs.fault = "none" /\ fs \in States
  BY <1>0, <1>1, Reading
<1>3. /\ "names" \in fs.heap /\ a \in Arrays /\ a.len = a.holds /\ a.len >= 1
      /\ a.live = 1 .. a.len - 1 /\ a.len \in 0 .. MaxNames /\ MaxNames \in Nat
  BY <1>2, FilesystemAssumption DEF States, NamesOK, FilesystemAssumption, Arrays, Adding
<1>4. CASE fs' = [fs EXCEPT !.array.live = @ \cup {fs.array.len}, !.at = To("readdir")]
  <2> DEFINE m == "readdir"
             b == [a EXCEPT !.live = @ \cup {a.len}]
  <2>0. To(m) \in Seq(Labels) /\ Together(l, m)
    BY <1>1, ToLabels DEF Together, InDirContent
  <2>1. (1 .. a.len - 1) \cup {a.len} = 1 .. a.len /\ 1 .. a.len \subseteq 1 .. MaxNames
    BY <1>3
  <2>2. b \in Arrays /\ b.len = a.len /\ b.holds = a.len /\ b.live = 1 .. a.len
    BY <1>3, <2>1 DEF Arrays
  <2>3. fs' = [fs EXCEPT !.array = b, !.at = To(m)]
    BY <1>4
  <2> HIDE DEF b
  <2>4. /\ fs' \in States /\ fs'.at = To(m) /\ fs'.arg = fs.arg /\ fs'.heap = fs.heap
        /\ fs'.val = fs.val /\ fs'.array = b /\ fs'.failed = fs.failed /\ fs'.fault = "none"
    BY <1>2, <2>0, <2>2, <2>3 DEF States
  <2>5. Place' = m /\ (NamesOK' => Inv')
    BY <1>0, <1>1, <1>2, <2>0, <2>4, ReadsOn
  <2>6. fs'.array.len = fs'.array.holds /\ fs'.array.live = 1 .. fs'.array.len
    BY <2>2, <2>4
  <2>7. NamesOK'
    BY <1>3, <2>4, <2>5, <2>6 DEF NamesOK, Adding
  <2> QED BY <2>5, <2>7
<1>5. CASE fs' = [fs EXCEPT !.failed = @ \cup {"dga_new"}, !.fault = "NULL header"]
  <2>1. fs' \in States /\ fs'.at = fs.at /\ fs'.arg = fs.arg /\ fs'.failed = fs.failed \cup {"dga_new"}
        /\ fs'.fault = "NULL header"
    BY <1>2, <1>5 DEF States, Causes, Failures
  <2>2. <<"NULL header", "dga_new">> \in Causes
    BY DEF Causes
  <2> QED BY <1>1, <2>1, <2>2, FaultsInv
<1> QED BY <1>4, <1>5 DEF NewName

\* dir_content's cleanup begins with the error (filesystem.c:141).
LEMMA MemfailInv == ASSUME Inv, Memfail PROVE Inv'
<1> USE DEF NULL
<1> DEFINE l == "memfail"
           m == "free names"
<1>0. PICK c : c = Caller(Len(fs.at))
  OBVIOUS
<1>1. At(l) /\ Fails("dga_grow", m) /\ E!SetError(NOT_ENOUGH_MEMORY)
  BY DEF Memfail
<1>2. /\ c = "none" /\ Below(c) = {} /\ Holds(frame[curr], fs.arg, {"dir"}) /\ frame[curr].used = 0
      /\ Accounts({"dir", "names"})
      /\ Place = l /\ NamesOK /\ fs.fault = "none" /\ fs \in States
  BY <1>0, <1>1, Reading
<1>3. To(m) \in Seq(Labels) /\ Together(l, m)
  BY <1>1, ToLabels DEF Together, InDirContent
<1>4. /\ fs' \in States /\ fs'.at = To(m) /\ fs'.val = NULL /\ fs'.arg = fs.arg
      /\ fs'.heap = fs.heap /\ fs'.array = fs.array /\ fs'.fault = "none"
      /\ fs'.failed = fs.failed \cup {"dga_grow"}
  BY <1>1, <1>2, <1>3, FailsFields DEF Failures
<1>5. err' \in Nat \ {0} /\ UNCHANGED <<curr, frame, phase, aborted, count>>
  BY <1>1, SetErrorFields, ErrorNumbers
<1>6. Place' = m /\ (InBody(c, m)' /\ NamesOK' => Inv')
  BY <1>0, <1>1, <1>3, <1>4, <1>5, Moves
<1>7. Kept(m, NULL) = {"dir"} /\ InHand(m, NULL) = {"names"} /\ Vals(c, m) = {NULL}
  BY DEF Kept, InHand, Vals, Calling, Ends
<1>8. InBody(c, m)'
  <2>1. Accounts({} \cup {"dir"} \cup {"names"})'
    BY <1>2, <1>4 DEF Accounts
  <2>2. Holds(frame[curr], fs.arg, {"dir"})' /\ (frame[curr].used = 0)'
    BY <1>2, <1>4, <1>5
  <2>3. Told(m \in {"opened", "open_dir ends"})'
    BY <1>4, <1>5 DEF Told
  <2> QED BY <1>2, <1>4, <1>7, <2>1, <2>2, <2>3 DEF InBody
<1>9. NamesOK'
  BY <1>2, <1>4, <1>6 DEF NamesOK, Adding
<1> QED BY <1>6, <1>8, <1>9

\* The length counts an element that the block has no place for.
LEMMA FreeNamesInv == ASSUME Inv, FreeNames PROVE Inv'
<1> DEFINE l == "free names"
           m == "dir_content ends"
           s == [fs EXCEPT !.at = To(m)]
<1>0. PICK c : c = Caller(Len(fs.at))
  OBVIOUS
<1>1. At(l) /\ UNCHANGED errm /\ fs' = FreeDirContent(s)
  BY DEF FreeNames
<1>2. Place = l /\ NamesOK /\ fs \in States
  BY <1>0, <1>1, Reading
<1>3. /\ "names" \in fs.heap /\ fs.array.len = fs.array.holds + 1 /\ "dga_grow" \in fs.failed
      /\ fs.array.len > fs.array.holds
  <2>1. /\ "names" \in fs.heap /\ fs.array.len = fs.array.holds + 1 /\ "dga_grow" \in fs.failed
    BY <1>2 DEF NamesOK, Adding
  <2>2. fs.array \in Arrays
    BY <1>2 DEF States
  <2>3. fs.array.holds \in 0 .. MaxNames
    BY <2>2 DEF Arrays
  <2> DEFINE h == fs.array.holds
  <2>4. h \in Nat
    BY <2>3, FilesystemAssumption DEF FilesystemAssumption
  <2> HIDE DEF h
  <2>5. h + 1 > h
    BY <2>4
  <2> QED BY <2>1, <2>5 DEF h
<1>4. To(m) \in Seq(Labels) /\ Len(To(m)) = Len(fs.at)
  <2>1. fs.at \in Seq(Labels) /\ fs.at # <<>> /\ m \in Labels
    BY <1>1, Here, SameFunction DEF Together, InDirContent
  <2>2. Len(Append(Front(fs.at), m)) = Len(fs.at) /\ Append(Front(fs.at), m) \in Seq(Labels)
    BY <2>1, StackOps
  <2> QED BY <2>2 DEF To
<1>5. /\ s \in States /\ s.at = To(m) /\ s.arg = fs.arg /\ s.heap = fs.heap
      /\ s.array = fs.array /\ s.failed = fs.failed
  BY <1>2, <1>4 DEF States
<1> HIDE DEF s
<1>6. fs' = [s EXCEPT !.fault = "past the end"]
  BY <1>1, <1>3, <1>5 DEF FreeDirContent
<1>7. /\ fs' \in States /\ fs'.at = To(m) /\ fs'.arg = fs.arg /\ fs'.failed = fs.failed
      /\ fs'.fault = "past the end"
  BY <1>5, <1>6 DEF States, Causes
<1>8. <<"past the end", "dga_grow">> \in Causes
  BY DEF Causes
<1> QED BY <1>1, <1>3, <1>4, <1>7, <1>8, FaultsInv

-----------------------------------------------------------------------------
(* The end of a function.                                                  *)

\* What is known of a function that has returned and runs its defers (errm.h:96).
LEMMA Ending ==
  ASSUME Inv, fs.fault = "none", fs.at # <<>>, curr \in E!Depths => phase[curr] # "body",
         NEW c, c = Caller(Len(fs.at)), NEW l, l = fs.at[Len(fs.at)]
  PROVE  /\ Types /\ fs \in States /\ err \in Nat /\ frame[curr] \in Slots
         /\ Len(fs.at) \in 1 .. 4 /\ curr = Len(fs.at) - 1 /\ curr \in E!Depths
         /\ l \in Labels /\ l \in Within(c) /\ InEnd(c, l) /\ Place = "none"
         /\ Shape /\ Waits /\ Unused /\ NamesOK
<1>1. Types /\ Shape /\ Waits /\ Unused /\ Inner /\ NamesOK
  BY DEF Inv
<1>2. fs \in States /\ err \in Nat /\ curr = Len(fs.at) - 1
  BY <1>1 DEF Types
<1>3. Len(fs.at) \in Nat \ {0} /\ l \in Labels
  BY <1>2, Top DEF States
<1>4. l \in Within(c) /\ Len(fs.at) <= Rank(l)
  BY <1>1, <1>3 DEF Shape
<1>5. Len(fs.at) \in 1 .. 4 /\ curr \in E!Depths
  <2>1. Rank(l) \in 1 .. 4
    BY DEF Rank
  <2>2. StackSize \in Nat /\ StackSize >= 4
    BY FilesystemAssumption DEF FilesystemAssumption
  <2> DEFINE n == Len(fs.at)
             r == Rank(l)
  <2>3. n \in Nat \ {0} /\ n <= r /\ r \in 1 .. 4 /\ curr = n - 1
    BY <1>2, <1>3, <1>4, <2>1
  <2> HIDE DEF n, r
  <2>4. n \in 1 .. 4 /\ curr \in E!Depths
    BY <2>2, <2>3 DEF E!Depths
  <2> QED BY <2>4 DEF n
<1>6. phase[curr] # "body"
  BY <1>5
<1>7. InEnd(c, l) /\ Place = "none"
  BY <1>1, <1>6 DEF Inner, Place
<1>8. frame[curr] \in Slots
  BY <1>1, <1>5 DEF Types
<1> QED BY <1>1, <1>2, <1>3, <1>4, <1>5, <1>7, <1>8

\* One step of its defers: its frame becomes g and its phase p.
LEMMA Unwinds ==
  ASSUME Inv, fs.fault = "none", fs.at # <<>>, curr \in E!Depths => phase[curr] # "body",
         NEW c, c = Caller(Len(fs.at)), NEW l, l = fs.at[Len(fs.at)],
         NEW g \in Slots, frame' = [frame EXCEPT ![curr] = g],
         NEW p \in {"static", "in_static", "dyn", "in_dyn"}, phase' = [phase EXCEPT ![curr] = p],
         UNCHANGED <<err, curr, aborted, count>>, fs' \in States, fs'.at = fs.at,
         fs'.arg = fs.arg, fs'.val = fs.val, fs'.array = fs.array, fs'.failed = fs.failed,
         fs'.fault = "none", "names" \in fs'.heap <=> "names" \in fs.heap,
         p \in {"dyn", "in_dyn"} => g.stat = <<>> /\ g.used = 0,
         NEW S \in SUBSET ((Blocks \ {"names"}) \cup {NULL}), Holds(g, fs.arg, S),
         Accounts(Below(c) \cup S \cup {fs.val})', S \cap (Below(c) \cup {fs.val}) \subseteq {NULL}
  PROVE  Inv'
<1>n. PICK n : n = Len(fs.at)
  OBVIOUS
<1>1. /\ Types /\ n \in 1 .. 4 /\ curr = n - 1 /\ curr \in E!Depths
      /\ InEnd(c, l) /\ Place = "none" /\ Shape /\ Waits /\ Unused /\ NamesOK
  BY <1>n, Ending
<1>2. /\ frame' \in [E!Depths -> Slots] /\ frame'[curr] = g
      /\ \A d \in E!Depths : d # curr => frame'[d] = frame[d]
  BY <1>1 DEF Types
<1>3. /\ phase' \in [E!Depths -> E!Phases] /\ phase'[curr] = p
      /\ \A d \in E!Depths : d # curr => phase'[d] = phase[d]
  <2>1. p \in E!Phases
    BY DEF E!Phases
  <2> QED BY <1>1, <2>1 DEF Types
<1>4. Types'
  BY <1>1, <1>2, <1>3 DEF Types
<1>5. Shape'
  BY <1>1 DEF Shape, Caller
<1>6. Waits'
  <2>1. \A i \in 1 .. n - 1 : i - 1 \in E!Depths /\ i - 1 # curr
    BY <1>1, FilesystemAssumption DEF FilesystemAssumption, E!Depths
  <2>2. \A i \in 1 .. n - 1 : frame'[i - 1] = frame[i - 1] /\ phase'[i - 1] = phase[i - 1]
    BY <1>2, <1>3, <2>1
  <2> QED BY <1>n, <1>1, <2>2 DEF Waits
<1>7. Unused'
  BY <1>1, <1>2 DEF Unused, E!Depths
<1>8. Place' = "none" /\ (InEnd(c, l)' => Inner')
  <2>1. fs'.at # <<>> /\ phase'[curr'] # "body" /\ fs'.at[Len(fs'.at)] = l
    BY <1>3
  <2>2. c = Caller(Len(fs.at))'
    BY DEF Caller
  <2> QED BY <2>1, <2>2 DEF Place, Inner
<1>9. NamesOK'
  BY <1>1, <1>8 DEF NamesOK, Adding
<1>10. InEnd(c, l)'
  <2>1. fs'.val \in Results(c, l) /\ Told(l \in InOpenDir)'
    BY <1>1 DEF InEnd, Told
  <2>2. phase'[curr'] \in {"dyn", "in_dyn"} => frame'[curr'].stat = <<>> /\ frame'[curr'].used = 0
    BY <1>2, <1>3
  <2>3. Holds(frame[curr], fs.arg, S)' /\ S \cap (Below(c) \cup {fs'.val}) \subseteq {NULL}
    BY <1>2
  <2> QED BY <2>1, <2>2, <2>3 DEF InEnd
<1> QED BY <1>4, <1>5, <1>6, <1>7, <1>8, <1>9, <1>10 DEF Inv

\* A block that the defer of a frame releases was there.
LEMMA ReleasesFields ==
  ASSUME Inv, fs.fault = "none", fs.at # <<>>, curr \in E!Depths => phase[curr] # "body",
         NEW c, c = Caller(Len(fs.at)),
         NEW n \in 0 .. Len(fs.arg) - 1, NEW b, b = fs.arg[n + 1],
         b \in (Blocks \ {"names"}) \cup {NULL},
         Accounts(Below(c) \cup {b} \cup {fs.val}), {b} \cap (Below(c) \cup {fs.val}) \subseteq {NULL},
         Releases(n)
  PROVE  /\ fs' \in States /\ fs'.at = fs.at /\ fs'.arg = fs.arg /\ fs'.val = fs.val
         /\ fs'.array = fs.array /\ fs'.failed = fs.failed /\ fs'.fault = "none"
         /\ "names" \in fs'.heap <=> "names" \in fs.heap
         /\ Accounts(Below(c) \cup {} \cup {fs.val})'
<1> USE DEF NULL
<1>1. fs \in States
  BY DEF Inv, Types
<1>2. b \in fs.heap \cup {NULL}
  BY DEF Accounts
<1>3. fs' = [fs EXCEPT !.heap = @ \ {b}, !.fault = fs.fault]
  BY <1>2 DEF Releases
<1>4. /\ fs' \in States /\ fs'.at = fs.at /\ fs'.arg = fs.arg /\ fs'.val = fs.val
      /\ fs'.array = fs.array /\ fs'.failed = fs.failed /\ fs'.fault = "none"
      /\ fs'.heap = fs.heap \ {b}
  BY <1>1, <1>3 DEF States
<1>5. b # "names"
  OBVIOUS
<1>6. Accounts(Below(c) \cup {} \cup {fs.val})'
  BY <1>4, <1>5 DEF Accounts
<1> QED BY <1>4, <1>5, <1>6

\* The static defer of a function releases what it was registered for (errm.h:96).
LEMMA RunStaticInv ==
  ASSUME Inv, fs.fault = "none", fs.at # <<>>, E!RunStatic(curr),
         Releases(Last(frame[curr].stat).num)
  PROVE  Inv'
<1> USE DEF NULL
<1> DEFINE f == frame[curr]
<1>0. PICK c, l : c = Caller(Len(fs.at)) /\ l = fs.at[Len(fs.at)]
  OBVIOUS
<1>1. phase[curr] = "static" /\ f.stat # <<>>
  BY DEF E!RunStatic, E!Running
<1>2. curr \in E!Depths => phase[curr] # "body"
  BY <1>1
<1>3. f \in Slots /\ InEnd(c, l) /\ curr \in E!Depths /\ Types
  BY <1>0, <1>2, Ending
<1>4. PICK S \in SUBSET ((Blocks \ {"names"}) \cup {NULL}) :
        /\ Holds(f, fs.arg, S) /\ Accounts(Below(c) \cup S \cup {fs.val})
        /\ S \cap (Below(c) \cup {fs.val}) \subseteq {NULL}
  BY <1>3 DEF InEnd
<1>5. PICK n \in 0 .. Len(fs.arg) - 1, e \in Entry :
        S = {fs.arg[n + 1]} /\ f.dyn = <<>> /\ f.stat = <<e>> /\ e.num = n
  BY <1>1, <1>4 DEF Holds
<1>6. Last(f.stat).num = n /\ Front(f.stat) = <<>> /\ Last(f.stat) = e
  BY <1>5, OneElement
<1> DEFINE g == [stat |-> <<>>, dyn |-> <<>>, used |-> f.used, busy |-> {e}]
<1>7. g \in Slots
  BY <1>3, <1>5 DEF Slots
<1>8. /\ frame' = [frame EXCEPT ![curr] = g] /\ phase' = [phase EXCEPT ![curr] = "in_static"]
      /\ UNCHANGED <<err, curr, aborted, count>>
  <2>1. E!TakeStatic(f) = g
    <3> HIDE DEF f
    <3>1. Front(f.stat) = <<>> /\ f.dyn = <<>> /\ Last(f.stat) = e
      BY <1>5, <1>6
    <3>2. E!Front(f.stat) = <<>> /\ E!Last(f.stat) = e
      BY <3>1 DEF E!Front, E!Last, Front, Last
    <3> QED BY <3>1, <3>2 DEF E!TakeStatic
  <2>2. /\ frame' = [frame EXCEPT ![curr] = E!TakeStatic(@)]
        /\ phase' = [phase EXCEPT ![curr] = "in_static"] /\ UNCHANGED <<err, curr, aborted, count>>
    BY DEF E!RunStatic
  <2> HIDE DEF g
  <2> QED BY <1>3, <2>1, <2>2 DEF Types
<1>9. PICK b : b = fs.arg[n + 1]
  OBVIOUS
<1>10. /\ b \in (Blocks \ {"names"}) \cup {NULL} /\ Accounts(Below(c) \cup {b} \cup {fs.val})
       /\ {b} \cap (Below(c) \cup {fs.val}) \subseteq {NULL} /\ Releases(n)
  BY <1>4, <1>5, <1>6, <1>9
<1>11. /\ fs' \in States /\ fs'.at = fs.at /\ fs'.arg = fs.arg /\ fs'.val = fs.val
       /\ fs'.array = fs.array /\ fs'.failed = fs.failed /\ fs'.fault = "none"
       /\ "names" \in fs'.heap <=> "names" \in fs.heap
       /\ Accounts(Below(c) \cup {} \cup {fs.val})'
  BY <1>0, <1>2, <1>9, <1>10, ReleasesFields
<1>12. g.stat = <<>> /\ g.dyn = <<>>
  OBVIOUS
<1> HIDE DEF g
<1>13. Holds(g, fs.arg, {}) /\ {} \cap (Below(c) \cup {fs.val}) \subseteq {NULL}
  BY <1>12, HoldsNothing
<1> QED BY <1>0, <1>2, <1>7, <1>8, <1>11, <1>13, Unwinds

\* So does the dynamic one (errm.h:96).
LEMMA RunDynamicInv ==
  ASSUME Inv, fs.fault = "none", fs.at # <<>>, E!RunDynamic(curr),
         Releases(Last(frame[curr].dyn))
  PROVE  Inv'
<1> USE DEF NULL
<1> DEFINE f == frame[curr]
<1>0. PICK c, l : c = Caller(Len(fs.at)) /\ l = fs.at[Len(fs.at)]
  OBVIOUS
<1>1. phase[curr] = "dyn" /\ f.dyn # <<>>
  BY DEF E!RunDynamic, E!Running
<1>2. curr \in E!Depths => phase[curr] # "body"
  BY <1>1
<1>3. f \in Slots /\ InEnd(c, l) /\ curr \in E!Depths /\ Types
  BY <1>0, <1>2, Ending
<1>4. PICK S \in SUBSET ((Blocks \ {"names"}) \cup {NULL}) :
        /\ Holds(f, fs.arg, S) /\ Accounts(Below(c) \cup S \cup {fs.val})
        /\ S \cap (Below(c) \cup {fs.val}) \subseteq {NULL}
  BY <1>3 DEF InEnd
<1>5. PICK n \in 0 .. Len(fs.arg) - 1 :
        S = {fs.arg[n + 1]} /\ f.stat = <<>> /\ f.dyn = <<n>>
  BY <1>1, <1>4 DEF Holds
<1>6. Last(f.dyn) = n /\ Front(f.dyn) = <<>> /\ f.used = 0
  BY <1>1, <1>3, <1>5, OneElement DEF InEnd
<1> DEFINE g == [stat |-> <<>>, dyn |-> <<>>, used |-> 0, busy |-> f.busy]
<1>7. g \in Slots
  BY <1>3 DEF Slots
<1>8. /\ frame' = [frame EXCEPT ![curr] = g] /\ phase' = [phase EXCEPT ![curr] = "in_dyn"]
      /\ UNCHANGED <<err, curr, aborted, count>>
  <2>1. E!TakeDyn(f) = g
    <3> HIDE DEF f
    <3>1. PICK st, dy, us, bu : f = [stat |-> st, dyn |-> dy, used |-> us, busy |-> bu]
      BY <1>3 DEF Slots
    <3>2. st = <<>> /\ Front(dy) = <<>> /\ us = 0 /\ bu = f.busy /\ f.dyn = dy
      BY <1>5, <1>6, <3>1
    <3>3. E!Front(dy) = <<>>
      BY <3>2 DEF E!Front, Front
    <3> QED BY <3>1, <3>2, <3>3 DEF E!TakeDyn
  <2>2. /\ frame' = [frame EXCEPT ![curr] = E!TakeDyn(@)]
        /\ phase' = [phase EXCEPT ![curr] = "in_dyn"] /\ UNCHANGED <<err, curr, aborted, count>>
    BY DEF E!RunDynamic
  <2> HIDE DEF g
  <2> QED BY <1>3, <2>1, <2>2 DEF Types
<1>9. PICK b : b = fs.arg[n + 1]
  OBVIOUS
<1>10. /\ b \in (Blocks \ {"names"}) \cup {NULL} /\ Accounts(Below(c) \cup {b} \cup {fs.val})
       /\ {b} \cap (Below(c) \cup {fs.val}) \subseteq {NULL} /\ Releases(n)
  BY <1>4, <1>5, <1>6, <1>9
<1>11. /\ fs' \in States /\ fs'.at = fs.at /\ fs'.arg = fs.arg /\ fs'.val = fs.val
       /\ fs'.array = fs.array /\ fs'.failed = fs.failed /\ fs'.fault = "none"
       /\ "names" \in fs'.heap <=> "names" \in fs.heap
       /\ Accounts(Below(c) \cup {} \cup {fs.val})'
  BY <1>0, <1>2, <1>9, <1>10, ReleasesFields
<1>12. g.stat = <<>> /\ g.dyn = <<>> /\ g.used = 0
  OBVIOUS
<1> HIDE DEF g
<1>13. Holds(g, fs.arg, {}) /\ {} \cap (Below(c) \cup {fs.val}) \subseteq {NULL}
  BY <1>12, HoldsNothing
<1> QED BY <1>0, <1>2, <1>7, <1>8, <1>11, <1>12, <1>13, Unwinds

\* The handler has returned, or there is no static defer left.
LEMMA QuietInv ==
  ASSUME Inv, fs.fault = "none", fs.at # <<>>, E!StaticDone(curr) \/ E!HandlerReturns(curr),
         UNCHANGED fs
  PROVE  Inv'
<1> DEFINE f == frame[curr]
<1>0. PICK c, l : c = Caller(Len(fs.at)) /\ l = fs.at[Len(fs.at)]
  OBVIOUS
<1>1. phase[curr] \in {"static", "in_static", "in_dyn"}
  BY DEF E!StaticDone, E!HandlerReturns, E!Running
<1>2. curr \in E!Depths => phase[curr] # "body"
  BY <1>1
<1>3. f \in Slots /\ InEnd(c, l) /\ curr \in E!Depths /\ Types /\ fs \in States
  BY <1>0, <1>2, Ending
<1>4. PICK S \in SUBSET ((Blocks \ {"names"}) \cup {NULL}) :
        /\ Holds(f, fs.arg, S) /\ Accounts(Below(c) \cup S \cup {fs.val})
        /\ S \cap (Below(c) \cup {fs.val}) \subseteq {NULL}
  BY <1>3 DEF InEnd
<1>5. Accounts(Below(c) \cup S \cup {fs.val})'
  BY <1>4 DEF Accounts
<1>6. CASE E!StaticDone(curr)
  <2> DEFINE g == [f EXCEPT !.used = 0]
  <2>1. f.stat = <<>>
    BY <1>6 DEF E!StaticDone, E!StaticOver
  <2>2. g \in Slots /\ g.stat = f.stat /\ g.dyn = f.dyn /\ g.used = 0
    BY <1>3 DEF Slots
  <2>3. /\ frame' = [frame EXCEPT ![curr] = g] /\ phase' = [phase EXCEPT ![curr] = "dyn"]
        /\ UNCHANGED <<err, curr, aborted, count>>
    BY <1>6 DEF E!StaticDone, E!FreePool
  <2> HIDE DEF g
  <2>4. Holds(g, fs.arg, S)
    <3> HIDE DEF f
    <3> QED BY <1>4, <2>2, HoldsSame
  <2> QED BY <1>0, <1>2, <1>3, <1>4, <1>5, <2>1, <2>2, <2>3, <2>4, Unwinds
<1>7. CASE E!HandlerReturns(curr)
  <2> DEFINE g == [f EXCEPT !.busy = {}]
  <2>0. PICK p : p = IF phase[curr] = "in_static" THEN "static" ELSE "dyn"
    OBVIOUS
  <2>1. phase[curr] \in {"in_static", "in_dyn"} /\ p \in {"static", "in_static", "dyn", "in_dyn"}
    BY <1>7, <2>0 DEF E!HandlerReturns, E!Running
  <2>2. g \in Slots /\ g.stat = f.stat /\ g.dyn = f.dyn /\ g.used = f.used
    BY <1>3 DEF Slots
  <2>3. /\ frame' = [frame EXCEPT ![curr] = g] /\ phase' = [phase EXCEPT ![curr] = p]
        /\ UNCHANGED <<err, curr, aborted, count>>
    BY <1>3, <1>7, <2>0 DEF E!HandlerReturns, E!Rest, Types
  <2> HIDE DEF g
  <2>4. Holds(g, fs.arg, S)
    <3> HIDE DEF f
    <3> QED BY <1>4, <2>2, HoldsSame
  <2>5. p \in {"dyn", "in_dyn"} => g.stat = <<>> /\ g.used = 0
    BY <1>3, <2>0, <2>1, <2>2 DEF InEnd
  <2> QED BY <1>0, <1>2, <1>3, <1>4, <1>5, <2>1, <2>2, <2>3, <2>4, <2>5, Unwinds
<1> QED BY <1>6, <1>7

\* The function that waits at c has the same blocks accounted for.
LEMMA Waited ==
  ASSUME NEW d, NEW c \in Within(d), NEW l \in Within(c), c # "none"
  PROVE  /\ c \in Calling /\ c \notin Adding /\ c \notin {"grow", "join", "new array", "readdir"}
         /\ Vals(d, c) = {Brings(c), NULL} /\ Results(c, l) = {Brings(c), NULL}
         /\ \A v : Kept(c, v) = Kept(c, NULL) /\ InHand(c, v) = {v}
         /\ Below(c) = Below(d) \cup Kept(c, NULL)
         /\ l \in InOpenDir <=> c = "opened"
         /\ c # "open_dir ends"
<1>1. c \in Calling
  BY DEF Within, Calling
<1>2. c \notin Adding /\ c \notin {"grow", "join", "new array", "readdir", "open_dir ends"}
  BY <1>1 DEF Calling, Adding
<1>3. Vals(d, c) = {Brings(c), NULL} /\ Results(c, l) = {Brings(c), NULL}
  <2>1. Vals(d, c) = {Brings(c), NULL}
    BY <1>1 DEF Vals, Calling
  <2>2. Results(c, l) = {Brings(c), NULL}
    BY DEF Results
  <2> QED BY <2>1, <2>2
<1>4. \A v : Kept(c, v) = Kept(c, NULL) /\ InHand(c, v) = {v}
  <2>1. \A v : Kept(c, v) = Kept(c, NULL)
    BY <1>1 DEF Kept, Calling
  <2>2. \A v : InHand(c, v) = {v}
    BY <1>1 DEF InHand, Calling
  <2> QED BY <2>1, <2>2
<1>5. l \in InOpenDir <=> c = "opened"
  <2>1. l \in InOpenDir => c = "opened"
    BY Callers
  <2>2. c = "opened" => l \in InOpenDir
    BY DEF Within
  <2> QED BY <2>1, <2>2
<1>6. Below(c) = Below(d) \cup Kept(c, NULL)
  <2>1. CASE c = "copy"
    <3>1. d \in {"expanded", "to open"}
      BY <2>1, Callers DEF InExpand
    <3>2. Below(d) = {} /\ Below(c) = {"words"} /\ Kept(c, NULL) = {"words"}
      BY <2>1, <3>1 DEF Below, Kept
    <3> QED BY <3>2
  <2>2. CASE c = "print"
    <3>1. d = "abs_path ends"
      BY <2>2, Callers DEF InRelative
    <3>2. Below(d) = {"path"} /\ Below(c) = {"path", "cwd"} /\ Kept(c, NULL) = {"cwd"}
      BY <2>2, <3>1 DEF Below, Kept
    <3> QED BY <3>2
  <2>3. CASE c = "to open"
    <3>1. d = "opened"
      BY <2>3, Callers DEF InOpenDir
    <3>2. Below(d) = {} /\ Below(c) = {} /\ Kept(c, NULL) = {}
      BY <2>3, <3>1 DEF Below, Kept
    <3> QED BY <3>2
  <2>4. CASE c \in {"expanded", "abs_path ends", "opened"}
    <3>1. d = "none"
      BY <2>4, Callers DEF InAbsPath, InDirContent
    <3>2. Below(d) = {} /\ Below(c) = Kept(c, NULL)
      BY <2>4, <3>1 DEF Below, Kept
    <3> QED BY <3>2
  <2> QED BY <1>1, <2>1, <2>2, <2>3, <2>4 DEF Calling
<1> QED BY <1>1, <1>2, <1>3, <1>4, <1>5, <1>6

\* What a function leaves that has run its defers.
LEMMA Spent ==
  ASSUME Inv, fs.fault = "none", fs.at # <<>>, phase[curr] = "dyn", frame[curr].dyn = <<>>,
         NEW c, c = Caller(Len(fs.at)), NEW l, l = fs.at[Len(fs.at)]
  PROVE  /\ frame[curr].stat = <<>> /\ frame[curr].used = 0
         /\ Accounts(Below(c) \cup {fs.val}) /\ fs.val \in Results(c, l) /\ Told(l \in InOpenDir)
<1> DEFINE f == frame[curr]
<1>1. curr \in E!Depths => phase[curr] # "body"
  OBVIOUS
<1>2. f \in Slots /\ InEnd(c, l)
  BY <1>1, Ending
<1>3. f.stat = <<>> /\ f.used = 0 /\ fs.val \in Results(c, l) /\ Told(l \in InOpenDir)
  BY <1>2 DEF InEnd
<1>4. PICK S \in SUBSET ((Blocks \ {"names"}) \cup {NULL}) :
        Holds(f, fs.arg, S) /\ Accounts(Below(c) \cup S \cup {fs.val})
  BY <1>2 DEF InEnd
<1>5. S = {}
  <2>1. \A e : <<e>> # <<>>
    BY OneElement
  <2> QED BY <1>3, <1>4, <2>1 DEF Holds
<1>6. Below(c) \cup {} \cup {fs.val} = Below(c) \cup {fs.val}
  OBVIOUS
<1> QED BY <1>3, <1>4, <1>5, <1>6

\* A function whose defers have run leaves the stack, and the one below it gets its
\* value: whatever it had allocated is released or is that value (errm.h:102).
LEMMA PopInv ==
  ASSUME Inv, fs.fault = "none", fs.at # <<>>, E!Pop(curr), fs' = [fs EXCEPT !.at = Front(@)]
  PROVE  Inv'
<1> USE DEF NULL
<1>n. PICK n : n = Len(fs.at)
  OBVIOUS
<1>0. PICK c, l : c = Caller(n) /\ l = fs.at[n]
  OBVIOUS
<1>1. /\ phase[curr] = "dyn" /\ frame[curr].dyn = <<>> /\ curr' = curr - 1
      /\ UNCHANGED <<err, frame, phase, aborted, count>>
  BY DEF E!Pop, E!Running
<1>2. /\ Types /\ fs \in States /\ n \in 1 .. 4 /\ curr = n - 1 /\ curr \in E!Depths
      /\ l \in Labels /\ l \in Within(c) /\ Place = "none" /\ Shape /\ Waits /\ Unused /\ NamesOK
  BY <1>n, <1>0, <1>1, Ending
<1>3. /\ frame[curr].stat = <<>> /\ frame[curr].used = 0
      /\ Accounts(Below(c) \cup {fs.val}) /\ fs.val \in Results(c, l) /\ Told(l \in InOpenDir)
  BY <1>n, <1>0, <1>1, Spent
<1> DEFINE t == Front(fs.at)
<1>4. /\ t \in Seq(Labels) /\ Len(t) = n - 1 /\ \A i \in 1 .. n - 1 : t[i] = fs.at[i]
  BY <1>n, <1>2, StackOps DEF States
<1> HIDE DEF t
<1>5. /\ fs' \in States /\ fs'.at = t /\ fs'.arg = fs.arg /\ fs'.heap = fs.heap
      /\ fs'.val = fs.val /\ fs'.array = fs.array /\ fs'.failed = fs.failed
      /\ fs'.fault = "none"
  BY <1>2, <1>4 DEF States, t
<1>6. Types'
  <2>1. curr' = Len(fs'.at) - 1
    BY <1>1, <1>2, <1>4, <1>5
  <2> QED BY <1>1, <1>2, <1>5, <2>1 DEF Types
<1>7. \A i \in 1 .. n - 1 : Caller(i)' = Caller(i)
  <2>1. \A i \in 1 .. n - 1 : i = 1 \/ i - 1 \in 1 .. n - 1
    BY <1>2
  <2> QED BY <1>4, <1>5, <2>1 DEF Caller
<1>8. Shape'
  <2>1. \A i \in 1 .. n - 1 : i \in 1 .. n
    BY <1>2
  <2>2. \A i \in 1 .. n - 1 : t[i] \in Within(Caller(i)') /\ i <= Rank(t[i])
    BY <1>n, <1>2, <1>4, <1>7, <2>1 DEF Shape
  <2> QED BY <1>4, <1>5, <2>2 DEF Shape
<1>9. Waits'
  <2>1. \A i \in 1 .. n - 1 - 1 : i \in 1 .. n - 1
    BY <1>2
  <2>2. \A i \in 1 .. n - 1 : /\ phase[i - 1] = "body"
                              /\ Holds(frame[i - 1], fs.arg, Kept(t[i], NULL))
                              /\ t[i] # "copy" => frame[i - 1].used = 0
    BY <1>n, <1>2, <1>4 DEF Waits
  <2> QED BY <1>1, <1>4, <1>5, <2>1, <2>2 DEF Waits
<1>10. Unused'
  <2>1. \A d \in E!Depths : d > curr - 1 => d = curr \/ d > curr
    BY <1>2 DEF E!Depths
  <2> QED BY <1>1, <1>2, <1>3, <2>1 DEF Unused
<1>11. CASE n = 1
  <2>1. fs'.at = <<>>
    BY <1>4, <1>5, <1>11, EmptySeq
  <2>2. c = "none"
    BY <1>0, <1>11 DEF Caller
  <2>3. fs.val \in {"path", "abs", "names", NULL} /\ Below(c) \cup {fs.val} = {fs.val}
    BY <1>3, <2>2 DEF Results, Below
  <2>4. Inner'
    BY <1>3, <1>5, <2>1, <2>3 DEF Inner, Accounts
  <2>5. Place' = "none"
    BY <2>1 DEF Place
  <2>6. NamesOK'
    BY <1>2, <1>5, <2>5 DEF NamesOK, Adding
  <2> QED BY <1>6, <1>8, <1>9, <1>10, <2>4, <2>6 DEF Inv
<1>12. CASE n # 1
  <2>0. n - 1 \in 1 .. n - 1 /\ n - 1 \in 1 .. n /\ n - 1 - 1 = curr - 1
    BY <1>2, <1>12
  <2>1. c = fs.at[n - 1]
    BY <1>0, <1>12 DEF Caller
  <2>2. PICK d : d = Caller(n - 1)
    OBVIOUS
  <2>3. c \in Within(d)
    BY <1>n, <1>2, <2>0, <2>1, <2>2 DEF Shape
  <2>4. c \in Labels
    BY <1>n, <1>2, <2>0, <2>1, ElementOfSeq DEF States
  <2>5. c # "none"
    BY <2>4 DEF Labels, InEmalloc, InExpand, InRelative, InOpenDir, InAbsPath, InDirContent
  <2>6. /\ c \in Calling /\ c \notin Adding /\ c \notin {"grow", "join", "new array", "readdir"}
        /\ Vals(d, c) = {Brings(c), NULL} /\ Results(c, l) = {Brings(c), NULL}
        /\ \A v : Kept(c, v) = Kept(c, NULL) /\ InHand(c, v) = {v}
        /\ Below(c) = Below(d) \cup Kept(c, NULL)
        /\ l \in InOpenDir <=> c = "opened"
        /\ c # "open_dir ends"
    BY <1>2, <2>3, <2>5, Waited
  <2>7. /\ phase[n - 1 - 1] = "body" /\ Holds(frame[n - 1 - 1], fs.arg, Kept(c, NULL))
        /\ c # "copy" => frame[n - 1 - 1].used = 0
    BY <1>n, <1>2, <2>0, <2>1 DEF Waits
  <2>8. fs'.at # <<>> /\ Len(fs'.at) = n - 1 /\ fs'.at[n - 1] = c /\ phase'[curr'] = "body"
        /\ curr' = n - 1 - 1
    BY <1>1, <1>2, <1>4, <1>5, <1>12, <2>0, <2>1, <2>7, EmptySeq
  <2>9. d = Caller(Len(fs.at))'
    <3>1. d = IF n - 1 = 1 THEN "none" ELSE fs.at[n - 1 - 1]
      BY <2>2 DEF Caller
    <3>2. n - 1 # 1 => n - 1 - 1 \in 1 .. n - 1
      BY <1>2, <1>12
    <3>3. n - 1 # 1 => fs'.at[n - 1 - 1] = fs.at[n - 1 - 1]
      BY <1>4, <1>5, <3>2
    <3> QED BY <2>8, <3>1, <3>3 DEF Caller
  <2>10. Place' = c
    BY <2>8 DEF Place
  <2>11. InBody(d, c)'
    <3>1. Accounts(Below(d) \cup Kept(c, fs.val) \cup InHand(c, fs.val))'
      BY <1>3, <1>5, <2>6 DEF Accounts
    <3>2. Holds(frame[curr], fs.arg, Kept(c, fs.val))'
      BY <1>1, <1>5, <2>6, <2>7, <2>8
    <3>3. fs'.val \in Vals(d, c)
      BY <1>3, <1>5, <2>6
    <3>4. Told(c \in {"opened", "open_dir ends"})'
      BY <1>1, <1>3, <1>5, <2>6 DEF Told
    <3>5. c \notin {"first word", "copy"} => frame'[curr'].used = 0
      BY <1>1, <2>7, <2>8
    <3> QED BY <2>6, <3>1, <3>2, <3>3, <3>4, <3>5 DEF InBody
  <2>12. Inner'
    BY <2>8, <2>9, <2>11 DEF Inner
  <2>13. NamesOK'
    BY <1>2, <1>5, <2>6, <2>10 DEF NamesOK, Adding
  <2> QED BY <1>6, <1>8, <1>9, <1>10, <2>12, <2>13 DEF Inv
<1> QED BY <1>11, <1>12
-----------------------------------------------------------------------------
(* The program.                                                            *)

\* The steps of a function's end, each of which is one of errm's (errm.h:96).
LEMMA UnwindInv == ASSUME Inv, Unwind PROVE Inv'
<1>1. fs.fault = "none" /\ fs.at # <<>>
  BY DEF Unwind
<1>2. CASE E!RunStatic(curr) /\ Releases(Last(frame[curr].stat).num)
  BY <1>1, <1>2, RunStaticInv
<1>3. CASE E!RunDynamic(curr) /\ Releases(Last(frame[curr].dyn))
  BY <1>1, <1>3, RunDynamicInv
<1>4. CASE (E!StaticDone(curr) \/ E!HandlerReturns(curr)) /\ UNCHANGED fs
  BY <1>1, <1>4, QuietInv
<1>5. CASE E!Pop(curr) /\ fs' = [fs EXCEPT !.at = Front(@)]
  BY <1>1, <1>5, PopInv
<1> QED BY <1>2, <1>3, <1>4, <1>5 DEF Unwind

\* What holds between two calls.
LEMMA Idling ==
  ASSUME Inv, Idle
  PROVE  /\ Types /\ fs \in States /\ fs.at = <<>> /\ Len(fs.at) = 0 /\ curr = -1
         /\ fs.fault = "none" /\ fs.val \in {"path", "abs", "names", NULL}
         /\ Accounts({fs.val}) /\ Unused /\ NamesOK /\ Place = "none"
<1>1. fs.at = <<>> /\ fs.fault = "none"
  BY DEF Idle
<1>2. Types /\ Unused /\ NamesOK /\ Inner
  BY <1>1 DEF Inv
<1>3. Len(fs.at) = 0
  BY <1>1
<1>4. curr = -1 /\ fs \in States
  BY <1>2, <1>3 DEF Types
<1> QED BY <1>1, <1>2, <1>3, <1>4 DEF Inner, Place

\* The program frees what the last call returned (prom-module.c:65).
LEMMA ReleaseInv == ASSUME Inv, Release PROVE Inv'
<1> USE DEF NULL
<1> DEFINE s == [fs EXCEPT !.val = NULL]
<1>1. /\ Types /\ fs \in States /\ fs.at = <<>> /\ curr = -1
      /\ fs.fault = "none" /\ fs.val \in {"path", "abs", "names", NULL}
      /\ Accounts({fs.val}) /\ Unused /\ NamesOK /\ Place = "none"
  BY Idling DEF Release
<1>2. fs.val # NULL /\ UNCHANGED errm
  BY DEF Release
<1>3. /\ s \in States /\ s.at = fs.at /\ s.arg = fs.arg /\ s.heap = fs.heap /\ s.val = NULL
      /\ s.array = fs.array /\ s.failed = fs.failed /\ s.fault = fs.fault
  BY <1>1 DEF States
<1>4. fs' = IF fs.val = "names" THEN FreeDirContent(s) ELSE [s EXCEPT !.heap = @ \ {fs.val}]
  BY DEF Release
<1> HIDE DEF s
<1>5. ASSUME fs' \in States, fs'.at = fs.at, fs'.arg = fs.arg, fs'.val = NULL,
             fs'.failed = fs.failed, fs'.fault = fs.fault, fs'.heap = {} , fs'.array.live = {}
      PROVE  Inv'
  <2>1. Types'
    BY <1>1, <1>2, <1>5 DEF Types, errm
  <2>2. Len(fs'.at) = 0
    BY <1>1, <1>5
  <2>3. Shape' /\ Waits'
    BY <2>2 DEF Shape, Waits
  <2>4. Unused'
    BY <1>1, <1>2 DEF Unused, errm
  <2>5. Inner'
    BY <1>1, <1>5 DEF Inner, Accounts
  <2>6. Place' = "none"
    BY <1>1, <1>5 DEF Place
  <2>7. NamesOK'
    BY <1>5, <2>6 DEF NamesOK, Adding
  <2> QED BY <2>1, <2>3, <2>4, <2>5, <2>7 DEF Inv
<1>6. CASE fs.val # "names"
  <2>1. fs' = [s EXCEPT !.heap = @ \ {fs.val}]
    BY <1>4, <1>6
  <2>2. /\ fs' \in States /\ fs'.at = s.at /\ fs'.arg = s.arg /\ fs'.val = s.val
        /\ fs'.failed = s.failed /\ fs'.fault = s.fault /\ fs'.array = s.array
        /\ fs'.heap = s.heap \ {fs.val}
    BY <1>3, <2>1 DEF States
  <2>3. "names" \notin fs.heap /\ fs.heap \subseteq {fs.val}
    BY <1>1, <1>6 DEF Accounts
  <2>4. fs.array.live = {}
    BY <1>1, <2>3 DEF NamesOK
  <2> QED BY <1>3, <1>5, <2>2, <2>3, <2>4
<1>7. CASE fs.val = "names" /\ "names" \notin fs.heap
  <2>1. fs' = [s EXCEPT !.fault = "NULL header"]
    BY <1>3, <1>4, <1>7 DEF FreeDirContent
  <2>2. /\ fs' \in States /\ fs'.at = s.at /\ fs'.arg = s.arg
        /\ fs'.failed = s.failed /\ fs'.fault = "NULL header"
    BY <1>3, <2>1 DEF States, Causes
  <2>3. <<"NULL header", "dga_new">> \in Causes /\ "dga_new" \in fs.failed
    BY <1>1, <1>7 DEF Causes, Accounts
  <2> QED BY <1>2, <1>3, <2>2, <2>3, FaultsInv
<1>8. CASE fs.val = "names" /\ "names" \in fs.heap
  <2>1. fs.heap = {"names"} /\ fs.array.len = fs.array.holds /\ fs.array.live = 1 .. fs.array.len
    BY <1>1, <1>8 DEF Accounts, NamesOK, Adding
  <2>2. fs.array \in Arrays
    BY <1>1 DEF States
  <2>3. ~(fs.array.len > fs.array.holds)
    <3>1. fs.array.len \in 0 .. MaxNames
      BY <2>2 DEF Arrays
    <3> DEFINE k == fs.array.len
    <3>2. k \in Nat
      BY <3>1, FilesystemAssumption DEF FilesystemAssumption
    <3> HIDE DEF k
    <3>3. ~(k > k)
      BY <3>2
    <3> QED BY <2>1, <3>3 DEF k
  <2>4. fs' = [s EXCEPT !.array.live = @ \ (1 .. s.array.len), !.heap = @ \ {"names"}]
    BY <1>3, <1>4, <1>8, <2>3 DEF FreeDirContent
  <2> DEFINE b == [s.array EXCEPT !.live = @ \ (1 .. s.array.len)]
  <2>5. b \in Arrays /\ b.live = {}
    BY <1>3, <2>1, <2>2 DEF Arrays
  <2>6. fs' = [s EXCEPT !.array = b, !.heap = @ \ {"names"}]
    BY <2>4
  <2> HIDE DEF b
  <2>7. /\ fs' \in States /\ fs'.at = s.at /\ fs'.arg = s.arg /\ fs'.val = s.val
        /\ fs'.failed = s.failed /\ fs'.fault = s.fault /\ fs'.array = b
        /\ fs'.heap = s.heap \ {"names"}
    BY <1>3, <2>5, <2>6 DEF States
  <2> QED BY <1>3, <1>5, <2>1, <2>5, <2>7
<1> QED BY <1>6, <1>7, <1>8

\* The program calls abs_path or dir_content (prom-module.c:35).
LEMMA StartInv == ASSUME Inv, NEW f \in {"abs_path", "dir_content"}, Start(f) PROVE Inv'
<1> USE DEF NULL
<1>1. /\ Types /\ fs \in States /\ fs.at = <<>> /\ Len(fs.at) = 0 /\ curr = -1
      /\ fs.fault = "none" /\ Accounts({fs.val}) /\ Unused /\ NamesOK /\ Place = "none"
  BY Idling DEF Start
<1>2. fs.val = NULL /\ fs.calls < MaxCalls /\ fs' = [fs EXCEPT !.at = <<f>>, !.calls = @ + 1]
  BY DEF Start
<1>3. f \in Labels /\ f \in Within("none") /\ Rank(f) = 1
  BY DEF Labels, InAbsPath, InDirContent, Within, Rank, InEmalloc, InExpand, InOpenDir, InRelative
<1>4. <<f>> \in Seq(Labels) /\ Len(<<f>>) = 1 /\ <<f>>[1] = f /\ <<f>> # <<>>
  BY <1>3
<1>5. fs.calls + 1 \in 0 .. MaxCalls
  <2>1. fs.calls \in 0 .. MaxCalls /\ MaxCalls \in Nat
    BY <1>1, FilesystemAssumption DEF States, FilesystemAssumption
  <2> DEFINE k == fs.calls
  <2>2. k \in 0 .. MaxCalls /\ k < MaxCalls /\ MaxCalls \in Nat
    BY <1>2, <2>1
  <2> HIDE DEF k
  <2>3. k + 1 \in 0 .. MaxCalls
    BY <2>2
  <2> QED BY <2>3 DEF k
<1>6. /\ fs' \in States /\ fs'.at = <<f>> /\ fs'.arg = fs.arg /\ fs'.heap = fs.heap
      /\ fs'.val = fs.val /\ fs'.array = fs.array /\ fs'.failed = fs.failed
      /\ fs'.fault = fs.fault
  BY <1>1, <1>2, <1>4, <1>5 DEF States
<1>7. 0 \in E!Depths /\ -1 + 1 = 0 /\ ~(-1 >= StackSize - 1)
  BY FilesystemAssumption DEF FilesystemAssumption, E!Depths
<1>8. /\ err' = 0 /\ curr' = 0 /\ phase' = [phase EXCEPT ![0] = "body"]
      /\ UNCHANGED <<frame, aborted, count>>
  BY <1>1, <1>7 DEF Start, E!Enter, E!Push
<1>9. phase' \in [E!Depths -> E!Phases] /\ phase'[0] = "body"
  BY <1>1, <1>7, <1>8 DEF Types, E!Phases
<1>10. Types'
  <2>1. curr' = Len(fs'.at) - 1 /\ err' \in Nat
    BY <1>4, <1>6, <1>8
  <2> QED BY <1>1, <1>6, <1>8, <1>9, <2>1 DEF Types
<1>11. Caller(1)' = "none"
  BY DEF Caller
<1>12. Shape' /\ Waits'
  <2>1. \A i \in 1 .. 1 : i = 1
    OBVIOUS
  <2>2. \A i \in 1 .. 1 : f \in Within(Caller(i)') /\ i <= Rank(f) /\ <<f>>[i] = f
    BY <1>3, <1>4, <1>11, <2>1
  <2>3. Shape'
    BY <1>4, <1>6, <2>2 DEF Shape
  <2>4. 1 .. Len(fs'.at) - 1 = {}
    BY <1>4, <1>6
  <2> QED BY <2>3, <2>4 DEF Waits
<1>13. Unused' /\ frame[0].stat = <<>> /\ frame[0].dyn = <<>> /\ frame[0].used = 0
  <2>1. 0 > -1 /\ \A d \in E!Depths : d > 0 => d > -1
    BY DEF E!Depths
  <2> QED BY <1>1, <1>7, <1>8, <2>1 DEF Unused
<1>14. Place' = f
  BY <1>4, <1>6, <1>8, <1>9 DEF Place
<1>15. /\ Vals("none", f) = Blocks \cup {NULL} /\ Below("none") = {}
       /\ \A v : Kept(f, v) = {} /\ InHand(f, v) = {}
       /\ f \notin Calling \cup Ends \cup {"free names", "first word", "copy", "join",
                                           "new array", "readdir", "new name", "memfail", "grow"}
  BY DEF Vals, Below, Kept, InHand, Calling, Ends
<1>16. InBody("none", f)'
  <2>1. Accounts({} \cup {} \cup {})'
    BY <1>1, <1>2, <1>6 DEF Accounts
  <2>2. Holds(frame[curr], fs.arg, {})' /\ (frame[curr].used = 0)'
    BY <1>8, <1>13, HoldsNothing
  <2>3. fs'.val \in Vals("none", f)
    BY <1>6, <1>15 DEF States
  <2> QED BY <1>8, <1>15, <2>1, <2>2, <2>3 DEF InBody
<1>17. Inner'
  <2>1. fs'.at # <<>> /\ Len(fs'.at) = 1 /\ fs'.at[1] = f /\ phase'[curr'] = "body"
    BY <1>4, <1>6, <1>8, <1>9
  <2> QED BY <1>16, <2>1 DEF Inner, Caller
<1>18. NamesOK'
  BY <1>1, <1>6, <1>14, <1>15 DEF NamesOK, Adding
<1> QED BY <1>10, <1>12, <1>13, <1>17, <1>18 DEF Inv

\* Nothing happens.
LEMMA StutterInv == ASSUME Inv, UNCHANGED vars PROVE Inv'
<1>1. UNCHANGED <<err, curr, frame, phase, aborted, count, fs>>
  BY DEF vars, errm
<1>2. Types' <=> Types
  BY <1>1 DEF Types
<1>3. /\ Shape' <=> Shape
      /\ Waits' <=> Waits
      /\ Unused' <=> Unused
  BY <1>1 DEF Shape, Waits, Unused, Caller
<1>4. Inner' <=> Inner
  BY <1>1 DEF Inner, InBody, InEnd, Accounts, Told, Caller
<1>5. NamesOK' <=> NamesOK
  BY <1>1 DEF NamesOK, Place
<1> QED BY <1>1, <1>2, <1>3, <1>4, <1>5 DEF Inv
-----------------------------------------------------------------------------
(* The invariant and what follows from it.                                 *)

\* It holds of the program that has called nothing yet (errm.c:37).
LEMMA InitInv == Init => Inv
<1> SUFFICES ASSUME Init PROVE Inv
  OBVIOUS
<1> USE DEF NULL
<1>1. /\ fs = [at |-> <<>>, val |-> NULL, arg |-> <<>>, heap |-> {}, lost |-> {},
               array |-> NoNames, calls |-> 0, failed |-> {}, fault |-> "none"]
      /\ err = 0 /\ curr = -1 /\ frame = [d \in E!Depths |-> E!Empty]
      /\ phase = [d \in E!Depths |-> "body"] /\ aborted = FALSE /\ count = 0
  BY DEF Init, E!Init
<1>2. fs \in States
  <2>1. NoNames \in Arrays /\ 0 \in 0 .. MaxCalls
    BY FilesystemAssumption DEF NoNames, Arrays, FilesystemAssumption
  <2>2. <<>> \in Seq(Labels) /\ <<>> \in Seq(Blocks \cup {NULL})
    OBVIOUS
  <2> QED BY <1>1, <2>1, <2>2 DEF States
<1>3. frame \in [E!Depths -> Slots] /\ phase \in [E!Depths -> E!Phases]
  <2>1. E!Empty \in Slots /\ "body" \in E!Phases
    BY DEF E!Empty, Slots, E!Phases
  <2> QED BY <1>1, <2>1
<1>4. Len(fs.at) = 0 /\ Len(fs.arg) = 0 /\ fs.at = <<>> /\ fs.fault = "none"
  BY <1>1
<1>5. Types
  <2>1. curr = Len(fs.at) - 1 /\ count = Len(fs.arg) /\ err \in Nat /\ ~aborted
    BY <1>1, <1>4
  <2> QED BY <1>2, <1>3, <1>4, <2>1 DEF Types
<1>6. Shape /\ Waits
  BY <1>4 DEF Shape, Waits
<1>7. Unused
  BY <1>1 DEF Unused, E!Empty
<1>8. Inner
  BY <1>1 DEF Inner, Accounts
<1>9. NamesOK
  <2>1. Place = "none"
    BY <1>1 DEF Place
  <2> QED BY <1>1, <2>1 DEF NamesOK, NoNames, Adding
<1> QED BY <1>5, <1>6, <1>7, <1>8, <1>9 DEF Inv

\* Every step of every function preserves it.
LEMMA NextInv == Inv /\ [Next]_vars => Inv'
<1> SUFFICES ASSUME Inv, [Next]_vars PROVE Inv'
  OBVIOUS
<1>1. CASE Next
  BY <1>1, MallocInv, LeaveInv, ExpandInv, FirstWordInv, CopyInv, GetcwdInv, JoinInv,
     PrintPathInv, AbsPathInv, ExpandedInv, FromRelativeInv, OpenDirInv, ToOpenInv,
     OpendirInv, DirContentInv, OpenedInv, NewArrayInv, ReaddirInv, GrowInv, NewNameInv,
     MemfailInv, FreeNamesInv, UnwindInv, ReleaseInv, StartInv, StutterInv DEF Next, Over
<1>2. CASE UNCHANGED vars
  BY <1>2, StutterInv
<1> QED BY <1>1, <1>2

\* In every reachable state of filesystem.c's functions, of their frames in errm
\* and of their heap, up to undefined behaviour, Inv holds.
THEOREM Invariance == Spec => []Inv
BY InitInv, NextInv, PTL DEF Spec
\* The types of the history and of the heap; and the stack of edf functions is
\* as deep as errm's (filesystem/filesystem.c, errm.c:86).
THEOREM TypeCorrect == Spec => []TypeOK
<1>1. Inv => TypeOK
  <2> SUFFICES ASSUME Inv PROVE TypeOK
    OBVIOUS
  <2>1. Types /\ fs \in States
    BY DEF Inv, Types
  <2>2. /\ fs.val \in Blocks \cup {NULL} /\ fs.arg \in Seq(Blocks \cup {NULL})
        /\ fs.heap \subseteq Blocks /\ fs.lost \subseteq Blocks
        /\ fs.array \in Arrays /\ fs.calls \in 0 .. MaxCalls
        /\ fs.at \in Seq(Labels)
    BY <2>1 DEF States
  <2>3. Len(fs.at) \in Nat /\ curr = Len(fs.at) - 1 /\ Len(fs.arg) = count
    BY <2>1, <2>2, LenProperties DEF Types
  <2>4. Len(fs.at) = curr + 1
    BY <2>3
  <2> QED BY <2>2, <2>3, <2>4 DEF TypeOK, Arrays
<1> QED BY <1>1, Invariance, PTL

\* Only the five failures that the code does not handle end in undefined
\* behaviour, and only when they have happened; errm never aborts.
THEOREM FailuresSurvived == Spec => []OnlyUnhandledFail
<1>1. Inv => OnlyUnhandledFail
  BY DEF Inv, Types, OnlyUnhandledFail
<1> QED BY <1>1, Invariance, PTL

\* Words are lost only when wordexp has run out of memory (filesystem.c:47-50).
LostKnown == fs.lost # {} => "wordexp nospace" \in fs.failed

LEMMA LostInv == ASSUME Inv, LostKnown, [Next]_vars PROVE LostKnown'
<1>1. fs \in States
  BY DEF Inv, Types
<1>2. fs.lost' = fs.lost /\ fs.failed \subseteq fs'.failed => LostKnown'
  BY DEF LostKnown
<1>3. CASE Malloc
  BY <1>1, <1>2, <1>3 DEF Malloc, Allocates, Fails, States
<1>4. CASE Leave \/ AbsPath \/ Expanded \/ FromRelative \/ OpenDir \/ ToOpen
  BY <1>1, <1>2, <1>4 DEF Leave, AbsPath, Expanded, FromRelative, OpenDir, ToOpen, Return, Call, Defers,
     States
<1>5. CASE Expand
  BY <1>1, <1>5 DEF Expand, WordexpFails, Fails, LostKnown, States
<1>6. CASE FirstWord
  <2>1. CASE Call("emalloc", "copy")
    BY <1>1, <1>2, <2>1 DEF Call, States
  <2>2. CASE fs' = [fs EXCEPT !.failed = @ \cup {"no word"}, !.fault = "NULL word"]
    BY <1>1, <1>2, <2>2 DEF States
  <2> QED BY <1>6, <2>1, <2>2 DEF FirstWord
<1>7. CASE Copy \/ PrintPath
  BY <1>1, <1>2, <1>7 DEF Copy, PrintPath, Fill, Return, Faults, States
<1>8. CASE Getcwd
  BY <1>1, <1>2, <1>8 DEF Getcwd, States
<1>9. CASE Join
  BY <1>1, <1>2, <1>9 DEF Join, Call, Faults, States
<1>10. CASE Opendir
  BY <1>1, <1>2, <1>10 DEF Opendir, Allocates, Fails, States
<1>11. CASE DirContent \/ Opened
  BY <1>1, <1>2, <1>11 DEF DirContent, Opened, Return, Call, Defers, States
<1>12. CASE NewArray \/ Readdir
  BY <1>1, <1>2, <1>12 DEF NewArray, Readdir, Return, Faults, States
<1>13. CASE Grow \/ NewName \/ Memfail
  BY <1>1, <1>2, <1>13 DEF Grow, NewName, Memfail, Fails, States
<1>14. CASE FreeNames \/ Release
  BY <1>1, <1>2, <1>14 DEF FreeNames, Release, FreeDirContent, States
<1>15. CASE Unwind
  BY <1>1, <1>2, <1>15 DEF Unwind, Releases, States
<1>16. CASE \E f \in {"abs_path", "dir_content"} : Start(f)
  BY <1>1, <1>2, <1>16 DEF Start, States
<1>17. CASE Over \/ UNCHANGED vars
  BY <1>1, <1>2, <1>17 DEF Over, vars
<1> QED BY <1>3, <1>4, <1>5, <1>6, <1>7, <1>8, <1>9, <1>10, <1>11, <1>12, <1>13,
           <1>14, <1>15, <1>16, <1>17 DEF Next

\* Between two calls nothing is allocated but what the last one returned, and
\* the words of a wordexp that has run out of memory.
THEOREM NoLeaks == Spec => []NothingLeaks
<1>1. Inv /\ LostKnown => NothingLeaks
  <2> SUFFICES ASSUME Inv, LostKnown, Idle
               PROVE  /\ fs.heap \subseteq {fs.val}
                      /\ fs.heap = {} => fs.val \in {NULL, "names"}
                      /\ fs.lost # {} => "wordexp nospace" \in fs.failed
                      /\ fs.array.live = IF "names" \in fs.heap THEN 1 .. fs.array.len ELSE {}
    BY DEF NothingLeaks
  <2>1. Accounts({fs.val}) /\ NamesOK /\ Place = "none"
    BY Idling
  <2>2. fs.heap \subseteq {fs.val} /\ (fs.heap = {} => fs.val \in {NULL, "names"})
    BY <2>1 DEF Accounts
  <2>3. fs.array.live = IF "names" \in fs.heap THEN 1 .. fs.array.len ELSE {}
    BY <2>1 DEF NamesOK, Adding
  <2> QED BY <2>2, <2>3 DEF LostKnown
<1>2. Init => LostKnown
  BY DEF Init, LostKnown
<1>3. Spec => []LostKnown
  <2>1. Inv /\ LostKnown /\ [Next]_vars => LostKnown'
    BY LostInv
  <2> QED BY <1>2, <2>1, Invariance, PTL DEF Spec
<1> QED BY <1>1, <1>3, Invariance, PTL

\* No step but Pop takes a function off the stack.
LEMMA OnlyPop ==
  ASSUME Inv, Next, fs.at # <<>>, fs'.at = <<>>, Types'
  PROVE  fs.fault = "none" /\ E!Pop(curr)
<1>1. Types
  BY DEF Inv
<1>2. Len(fs.at) \in Nat \ {0} /\ curr = Len(fs.at) - 1
  BY <1>1, Top DEF Types, States
<1>3. curr' = -1
  <2>1. Len(fs'.at) = 0
    OBVIOUS
  <2> QED BY <2>1 DEF Types
<1>4. curr \in Nat
  BY <1>2
<1>5. curr' # curr /\ curr' # curr + 1
  BY <1>3, <1>4
<1>6. /\ ~E!Enter
      /\ ~E!Return(curr) /\ ~E!Defer(curr) /\ ~E!StaticDefer(curr, WordexpSize)
      /\ \A e : ~E!SetError(e) /\ ~E!SetFromErrno(e)
      /\ ~UNCHANGED errm
  BY <1>5 DEF E!Enter, E!Push, E!Abort, E!Return, E!Defer, E!StaticDefer, E!SetError,
              E!SetFromErrno, E!Says, errm
<1>7. ~(Malloc \/ Leave \/ Expand \/ FirstWord \/ Copy \/ Getcwd)
  BY <1>6 DEF Malloc, Leave, Expand, WordexpFails, FirstWord, Copy, Getcwd, Return, Call, Fill, Faults
<1>8. ~(Join \/ PrintPath \/ AbsPath \/ Expanded \/ FromRelative \/ OpenDir \/ ToOpen)
  BY <1>6 DEF Join, PrintPath, AbsPath, Expanded, FromRelative, OpenDir, ToOpen, Return, Call,
              Fill, Faults, Defers
<1>9. ~(Opendir \/ DirContent \/ Opened \/ NewArray \/ Readdir \/ Grow \/ NewName)
  BY <1>6 DEF Opendir, DirContent, Opened, NewArray, Readdir, Grow, NewName, Return, Call,
              Faults, Defers
<1>10. ~(Memfail \/ FreeNames \/ Release \/ Over \/ \E f \in {"abs_path", "dir_content"} : Start(f))
  BY <1>6 DEF Memfail, FreeNames, Release, Over, Start, vars
<1>11. Unwind
  BY <1>7, <1>8, <1>9, <1>10 DEF Next
<1>12. ~(E!RunStatic(curr) \/ E!RunDynamic(curr) \/ E!StaticDone(curr) \/ E!HandlerReturns(curr))
  BY <1>5 DEF E!RunStatic, E!RunDynamic, E!StaticDone, E!HandlerReturns
<1> QED BY <1>11, <1>12 DEF Unwind

\* A call of the program returns NULL if and only if the error code is set,
\* although every function that it calls clears the code (mods.c:110, 151,
\* prom-module.c:36).
THEOREM ErrorsAndValuesAgree == Spec => ErrorMeansNull
<1>1. ASSUME Inv, Inv', Next, fs.at # <<>>, fs'.at = <<>>
      PROVE  fs.val = NULL <=> Errored
  <2>1. Types'
    BY <1>1 DEF Inv
  <2>2. fs.fault = "none" /\ E!Pop(curr)
    BY <1>1, <2>1, OnlyPop
  <2>3. phase[curr] = "dyn" /\ frame[curr].dyn = <<>> /\ curr' = curr - 1
    BY <2>2 DEF E!Pop, E!Running
  <2>4. PICK c, l : c = Caller(Len(fs.at)) /\ l = fs.at[Len(fs.at)]
    OBVIOUS
  <2>5. Told(l \in InOpenDir)
    BY <1>1, <2>2, <2>3, <2>4, Spent
  <2>6. l \in Within(c) /\ Len(fs.at) \in 1 .. 4 /\ curr = Len(fs.at) - 1
    BY <1>1, <2>2, <2>3, <2>4, Ending
  <2>7. Len(fs.at) = 1
    <3>1. Len(fs'.at) = 0
      BY <1>1
    <3>2. curr' = Len(fs'.at) - 1
      BY <2>1 DEF Types
    <3> DEFINE n == Len(fs.at)
    <3>3. n \in 1 .. 4 /\ curr = n - 1 /\ curr' = -1
      BY <2>6, <3>1, <3>2
    <3> HIDE DEF n
    <3>4. n = 1
      BY <2>3, <3>3
    <3> QED BY <3>4 DEF n
  <2>8. c = "none"
    BY <2>4, <2>7 DEF Caller
  <2>9. l \notin InOpenDir
    BY <2>6, <2>8, Callers
  <2> QED BY <2>5, <2>9 DEF Told, Errored
<1>2. Inv /\ Inv' /\ [Next]_vars =>
        [fs.at # <<>> /\ fs'.at = <<>> => (fs.val = NULL <=> Errored)]_vars
  BY <1>1
<1> QED BY <1>2, Invariance, PTL DEF Spec, ErrorMeansNull
=============================================================================
