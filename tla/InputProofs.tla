---------------------------- MODULE InputProofs ----------------------------
(***************************************************************************)
(* Machine-checked proofs about Input, for any bytes, any sizes of the     *)
(* buffers and any number of keys, resizes and answers.                    *)
(***************************************************************************)
EXTENDS Input, SequenceTheorems, TLAPS

\* Every key of K that was typed was typed before every key of L.
Before(K, L) == \A k \in K \ {0}, l \in L \ {0} : k < l

\* What concatenation, cutting off, and taking the head do to the keys of a
\* sequence and to their order.
LEMMA ConcatKeys ==
  ASSUME NEW S, NEW s \in Seq(S), NEW t \in Seq(S)
  PROVE  /\ s \o t \in Seq(S)
         /\ KeysOf(s \o t) = KeysOf(s) \cup KeysOf(t)
         /\ Ordered(s) /\ Ordered(t) /\ Before(KeysOf(s), KeysOf(t)) => Ordered(s \o t)
<1>1. /\ s \o t \in Seq(S) /\ Len(s \o t) = Len(s) + Len(t) /\ Len(s) \in Nat /\ Len(t) \in Nat
      /\ \A i \in 1 .. Len(s) + Len(t) : (s \o t)[i] = IF i <= Len(s) THEN s[i] ELSE t[i - Len(s)]
  BY ConcatProperties
<1>2. ASSUME NEW i \in 1 .. Len(s \o t) PROVE (s \o t)[i].key \in KeysOf(s) \cup KeysOf(t)
  <2>1. CASE i <= Len(s)
    BY <1>1, <2>1 DEF KeysOf
  <2>2. CASE i > Len(s)
    <3>1. i - Len(s) \in 1 .. Len(t) /\ (s \o t)[i] = t[i - Len(s)]
      BY <1>1, <2>2
    <3> QED BY <3>1 DEF KeysOf
  <2> QED BY <1>1, <2>1, <2>2
<1>3. KeysOf(s) \subseteq KeysOf(s \o t)
  BY <1>1 DEF KeysOf
<1>4. KeysOf(t) \subseteq KeysOf(s \o t)
  <2> SUFFICES ASSUME NEW i \in 1 .. Len(t) PROVE t[i].key \in KeysOf(s \o t)
    BY DEF KeysOf
  <2>1. i + Len(s) \in 1 .. Len(s \o t) /\ (s \o t)[i + Len(s)] = t[i]
    BY <1>1
  <2> QED BY <2>1 DEF KeysOf
<1>5. ASSUME Ordered(s), Ordered(t), Before(KeysOf(s), KeysOf(t)),
             NEW i \in 1 .. Len(s \o t), NEW j \in 1 .. Len(s \o t), i < j,
             (s \o t)[i].key # 0, (s \o t)[j].key # 0
      PROVE  (s \o t)[i].key < (s \o t)[j].key
  <2>1. CASE j <= Len(s)
    BY <1>1, <1>5, <2>1 DEF Ordered
  <2>2. CASE i > Len(s)
    <3>1. /\ i - Len(s) \in 1 .. Len(t) /\ j - Len(s) \in 1 .. Len(t) /\ i - Len(s) < j - Len(s)
          /\ (s \o t)[i] = t[i - Len(s)] /\ (s \o t)[j] = t[j - Len(s)]
      BY <1>1, <1>5, <2>2
    <3> QED BY <1>5, <3>1 DEF Ordered
  <2>3. CASE i <= Len(s) /\ j > Len(s)
    BY <1>1, <1>5, <2>3 DEF Before, KeysOf
  <2> QED BY <1>1, <2>1, <2>2, <2>3
<1>6. KeysOf(s \o t) \subseteq KeysOf(s) \cup KeysOf(t)
  BY <1>2 DEF KeysOf
<1> QED BY <1>1, <1>3, <1>4, <1>5, <1>6 DEF Ordered

\* What four stretches of bytes, each in order and each before the next, come to.
LEMMA FourKeys ==
  ASSUME NEW S, NEW a \in Seq(S), NEW b \in Seq(S), NEW c \in Seq(S), NEW d \in Seq(S),
         Ordered(a), Ordered(b), Ordered(c), Ordered(d),
         Before(KeysOf(a), KeysOf(b)), Before(KeysOf(a), KeysOf(c)), Before(KeysOf(a), KeysOf(d)),
         Before(KeysOf(b), KeysOf(c)), Before(KeysOf(b), KeysOf(d)), Before(KeysOf(c), KeysOf(d))
  PROVE  /\ Ordered(a \o b \o c \o d)
         /\ KeysOf(a \o b \o c \o d) = KeysOf(a) \cup KeysOf(b) \cup KeysOf(c) \cup KeysOf(d)
<1>1. PICK f \in Seq(S) : f = a \o b /\ KeysOf(f) = KeysOf(a) \cup KeysOf(b) /\ Ordered(f)
  BY ConcatKeys
<1>2. Before(KeysOf(f), KeysOf(c)) /\ Before(KeysOf(f), KeysOf(d))
  BY <1>1 DEF Before
<1>3. PICK g \in Seq(S) : g = f \o c /\ KeysOf(g) = KeysOf(f) \cup KeysOf(c) /\ Ordered(g)
  <2>1. /\ f \o c \in Seq(S) /\ KeysOf(f \o c) = KeysOf(f) \cup KeysOf(c)
        /\ Ordered(f) /\ Ordered(c) /\ Before(KeysOf(f), KeysOf(c)) => Ordered(f \o c)
    BY ConcatKeys
  <2> QED BY <1>1, <1>2, <2>1
<1>4. Before(KeysOf(g), KeysOf(d))
  BY <1>2, <1>3 DEF Before
<1>5. KeysOf(g \o d) = KeysOf(g) \cup KeysOf(d) /\ Ordered(g \o d)
  <2>1. /\ KeysOf(g \o d) = KeysOf(g) \cup KeysOf(d)
        /\ Ordered(g) /\ Ordered(d) /\ Before(KeysOf(g), KeysOf(d)) => Ordered(g \o d)
    BY ConcatKeys
  <2> QED BY <1>3, <1>4, <2>1
<1> QED BY <1>1, <1>3, <1>5

\* The third byte of an arrow after the two before it.
LEMMA PairAppend ==
  ASSUME NEW S, NEW s \in Seq(S), NEW b \in S
  PROVE  LET t == Append(s, b) IN Len(s) = 2 => t[1] = s[1] /\ t[2] = s[2] /\ t[3] = b
<1> DEFINE t == Append(s, b)
<1>1. t[Len(s) + 1] = b /\ \A i \in 1 .. Len(s) : t[i] = s[i]
  BY AppendProperties
<1> HIDE DEF t
<1>2. ASSUME Len(s) = 2 PROVE t[2 + 1] = b /\ t[1] = s[1] /\ t[2] = s[2]
  BY <1>1, <1>2
<1>3. 2 + 1 = 3
  OBVIOUS
<1> QED BY <1>2, <1>3 DEF t

\* A part of the bytes from the front on, as when the buffer takes no more.
LEMMA PrefixKeys ==
  ASSUME NEW S, NEW s \in Seq(S), NEW n \in 0 .. Len(s)
  PROVE  /\ SubSeq(s, 1, n) \in Seq(S) /\ Len(SubSeq(s, 1, n)) = n
         /\ KeysOf(SubSeq(s, 1, n)) \subseteq KeysOf(s)
         /\ n = Len(s) => KeysOf(SubSeq(s, 1, n)) = KeysOf(s)
         /\ Ordered(s) => Ordered(SubSeq(s, 1, n))
<1>1. /\ SubSeq(s, 1, n) \in Seq(S) /\ Len(SubSeq(s, 1, n)) = n /\ Len(s) \in Nat
      /\ \A i \in 1 .. n : SubSeq(s, 1, n)[i] = s[i]
  BY SubSeqProperties, LenProperties
<1> QED BY <1>1 DEF KeysOf, Ordered

\* The first byte and those behind it.
LEMMA TailKeys ==
  ASSUME NEW S, NEW s \in Seq(S), s # <<>>
  PROVE  /\ Head(s) \in S /\ Tail(s) \in Seq(S)
         /\ KeysOf(s) = {Head(s).key} \cup KeysOf(Tail(s))
         /\ Ordered(s) => Ordered(Tail(s)) /\ Before({Head(s).key}, KeysOf(Tail(s)))
<1>1. /\ Len(s) \in Nat \ {0} /\ Len(Tail(s)) = Len(s) - 1 /\ Tail(s) \in Seq(S)
      /\ Head(s) = s[1] /\ \A i \in 1 .. Len(Tail(s)) : Tail(s)[i] = s[i + 1]
  BY HeadTailProperties, EmptySeq
<1>2. Head(s) \in S
  BY HeadTailProperties
<1>3. KeysOf(Tail(s)) \subseteq KeysOf(s) /\ Head(s).key \in KeysOf(s)
  BY <1>1 DEF KeysOf
<1>4. ASSUME NEW i \in 1 .. Len(s) PROVE s[i].key \in {Head(s).key} \cup KeysOf(Tail(s))
  <2>1. CASE i = 1
    BY <1>1, <2>1
  <2>2. CASE i # 1
    <3>1. i - 1 \in 1 .. Len(Tail(s)) /\ Tail(s)[i - 1] = s[i]
      BY <1>1, <2>2
    <3> QED BY <3>1 DEF KeysOf
  <2> QED BY <2>1, <2>2
<1>5. Ordered(s) => Ordered(Tail(s)) /\ Before({Head(s).key}, KeysOf(Tail(s)))
  BY <1>1 DEF Ordered, Before, KeysOf
<1> QED BY <1>1, <1>2, <1>3, <1>4, <1>5 DEF KeysOf

\* One byte by itself.
LEMMA SingleKeys ==
  ASSUME NEW S, NEW b \in S
  PROVE  <<b>> \in Seq(S) /\ Len(<<b>>) = 1 /\ KeysOf(<<b>>) = {b.key} /\ Ordered(<<b>>)
<1>1. <<b>> \in Seq(S) /\ Len(<<b>>) = 1 /\ <<b>>[1] = b
  OBVIOUS
<1> QED BY <1>1 DEF KeysOf, Ordered

\* No bytes at all.
LEMMA EmptyKeys == KeysOf(<<>>) = {} /\ Ordered(<<>>)
BY EmptySeq DEF KeysOf, Ordered

\* One byte behind the others.
LEMMA AppendKeys ==
  ASSUME NEW S, NEW s \in Seq(S), NEW b \in S
  PROVE  /\ Append(s, b) \in Seq(S) /\ Len(Append(s, b)) = Len(s) + 1
         /\ KeysOf(Append(s, b)) = KeysOf(s) \cup {b.key}
         /\ Ordered(s) /\ Before(KeysOf(s), {b.key}) => Ordered(Append(s, b))
<1>1. Append(s, b) = s \o <<b>> /\ <<b>> \in Seq(S)
  BY AppendIsConcat
<1>2. Append(s, b) \in Seq(S) /\ Len(Append(s, b)) = Len(s) + 1
  BY AppendProperties
<1>3. KeysOf(<<b>>) = {b.key} /\ Ordered(<<b>>)
  BY SingleKeys
<1>4. /\ KeysOf(s \o <<b>>) = KeysOf(s) \cup KeysOf(<<b>>)
      /\ Ordered(s) /\ Ordered(<<b>>) /\ Before(KeysOf(s), KeysOf(<<b>>)) => Ordered(s \o <<b>>)
  BY <1>1, ConcatKeys
<1> QED BY <1>1, <1>2, <1>3, <1>4
-----------------------------------------------------------------------------
\* How much of an arrow is held at each place.
CharsInv ==
  /\ pc \in {"poll", "getch", "flush"} => chars = <<>>
  /\ pc = "arrow" => Len(chars) = 1
  /\ pc = "bracket" => Len(chars) = 2

\* The four places where a key can be, each in order and each before the next.
OrderInv ==
  /\ Ordered(sent) /\ Ordered(buf) /\ Ordered(chars) /\ Ordered(tty)
  /\ Before(KeysOf(sent), KeysOf(buf)) /\ Before(KeysOf(sent), KeysOf(chars))
  /\ Before(KeysOf(sent), KeysOf(tty))
  /\ Before(KeysOf(buf), KeysOf(chars)) /\ Before(KeysOf(buf), KeysOf(tty))
  /\ Before(KeysOf(chars), KeysOf(tty))

AllKeys == KeysOf(sent) \cup KeysOf(buf) \cup KeysOf(chars) \cup KeysOf(tty)

\* No key is on its way that was not typed, and none is missing unless a buffer
\* was full.
CountInv == AllKeys \subseteq 0 .. typed /\ (spoilt = {} => 1 .. typed \subseteq AllKeys)

Inv == TypeOK /\ CharsInv /\ OrderInv /\ CountInv

\* The inductive invariant at the start.
LEMMA InitInv == Init => Inv
<1> SUFFICES ASSUME Init PROVE Inv
  OBVIOUS
<1>1. TypeOK /\ CharsInv
  BY InputAssumption, EmptySeq DEF InputAssumption, Init, TypeOK, CharsInv, Places
<1>2. OrderInv /\ CountInv
  BY EmptyKeys DEF Init, OrderInv, CountInv, AllKeys, Before
<1> QED BY <1>1, <1>2 DEF Inv

\* The sizes that the guards compare.
LEMMA Sizes ==
  ASSUME TypeOK
  PROVE  typed \in Nat /\ Len(buf) \in Nat /\ Room \in Nat /\ BufCap = Len(buf) + Room
<1>1. typed \in 0 .. MaxKeys /\ buf \in Seq(Bytes) /\ Len(buf) <= BufCap
  BY DEF TypeOK
<1>2. Len(buf) \in Nat
  BY <1>1, LenProperties
<1>3. typed \in Nat /\ BufCap \in Nat
  BY <1>1, InputAssumption DEF InputAssumption
<1> QED BY <1>1, <1>2, <1>3 DEF Room

\* What Push leaves in the buffer is a prefix of what it should, and all of it
\* unless it says that it has spoilt something.
LEMMA PushKeys ==
  ASSUME TypeOK, NEW bytes \in Seq(Bytes), Push(bytes)
  PROVE  /\ buf' \in Seq(Bytes) /\ Len(buf') <= BufCap
         /\ spoilt \subseteq spoilt' /\ spoilt' \subseteq Faults
         /\ KeysOf(buf) \subseteq KeysOf(buf')
         /\ KeysOf(buf') \subseteq KeysOf(buf) \cup KeysOf(bytes)
         /\ spoilt' = {} => KeysOf(buf') = KeysOf(buf) \cup KeysOf(bytes)
         /\ Ordered(buf) /\ Ordered(bytes) /\ Before(KeysOf(buf), KeysOf(bytes)) => Ordered(buf')
<1>1. buf \in Seq(Bytes) /\ spoilt \subseteq Faults
  BY DEF TypeOK
<1>4. Len(buf) \in Nat /\ Room \in Nat /\ BufCap = Len(buf) + Room /\ Len(bytes) \in Nat
  BY Sizes, LenProperties
<1>2. CASE Len(bytes) <= Room
  <2>1. buf' = buf \o bytes /\ spoilt' = spoilt
    BY <1>2 DEF Push
  <2>2. Len(buf \o bytes) = Len(buf) + Len(bytes)
    BY <1>1, ConcatProperties
  <2>3. Len(buf') <= BufCap
    BY <1>2, <1>4, <2>1, <2>2
  <2>4. /\ buf \o bytes \in Seq(Bytes) /\ KeysOf(buf \o bytes) = KeysOf(buf) \cup KeysOf(bytes)
        /\ Ordered(buf) /\ Ordered(bytes) /\ Before(KeysOf(buf), KeysOf(bytes)) => Ordered(buf \o bytes)
    BY <1>1, ConcatKeys
  <2> QED BY <1>1, <2>1, <2>3, <2>4
<1>3. CASE ~(Len(bytes) <= Room)
  <2> DEFINE some == SubSeq(bytes, 1, Room)
  <2>1. buf' \in {buf, buf \o some} /\ spoilt' = spoilt \cup {"overflow"}
    BY <1>3 DEF Push
  <2>2. Room \in 0 .. Len(bytes)
    BY <1>3, <1>4
  <2>3. /\ some \in Seq(Bytes) /\ Len(some) = Room /\ KeysOf(some) \subseteq KeysOf(bytes)
        /\ Ordered(bytes) => Ordered(some)
    BY <2>2, PrefixKeys
  <2> HIDE DEF some
  <2>4. Len(buf \o some) = Len(buf) + Room
    BY <1>1, <2>3, ConcatProperties
  <2>5. /\ buf \o some \in Seq(Bytes) /\ KeysOf(buf \o some) = KeysOf(buf) \cup KeysOf(some)
        /\ Ordered(buf) /\ Ordered(some) /\ Before(KeysOf(buf), KeysOf(some)) => Ordered(buf \o some)
    BY <1>1, <2>3, ConcatKeys
  <2>6. Before(KeysOf(buf), KeysOf(bytes)) => Before(KeysOf(buf), KeysOf(some))
    BY <2>3 DEF Before
  <2>7. Len(buf') <= BufCap
    BY <1>4, <2>1, <2>4
  <2> QED BY <1>1, <2>1, <2>3, <2>5, <2>6, <2>7 DEF Faults
<1> QED BY <1>2, <1>3

\* The byte that getch returns in the middle of an arrow, and what is left.
LEMMA NextKeys ==
  ASSUME Inv
  PROVE  /\ Next1 \in Bytes /\ Rest1 \in Seq(Bytes) /\ Ordered(Rest1)
         /\ KeysOf(tty) \subseteq {Next1.key} \cup KeysOf(Rest1)
         /\ Next1.key \in KeysOf(tty) \cup {0} /\ KeysOf(Rest1) \subseteq KeysOf(tty)
         /\ Before({Next1.key}, KeysOf(Rest1))
<1>1. tty \in Seq(Bytes) /\ Ordered(tty)
  BY DEF Inv, TypeOK, OrderInv
<1>2. NoKey \in Bytes /\ NoKey.key = 0
  BY InputAssumption DEF InputAssumption, NoKey, Byte, Bytes
<1>3. CASE tty = <<>>
  BY <1>2, <1>3, EmptyKeys, EmptySeq DEF Next1, Rest1, Before
<1>4. CASE tty # <<>>
  BY <1>1, <1>4, TailKeys DEF Next1, Rest1
<1> QED BY <1>3, <1>4

\* What was held of an arrow with the byte after it, passed on with the same
\* keys, perhaps as other bytes.
LEMMA HeldKeys ==
  ASSUME Inv
  PROVE  LET s == Append(chars, Next1) IN
         /\ s \in Seq(Bytes) /\ Len(s) = Len(chars) + 1 /\ Ordered(s)
         /\ KeysOf(s) = KeysOf(chars) \cup {Next1.key}
         /\ Before(KeysOf(sent), KeysOf(s)) /\ Before(KeysOf(buf), KeysOf(s))
         /\ Before(KeysOf(s), KeysOf(Rest1))
         /\ KeysOf(s) \cup KeysOf(Rest1) \subseteq KeysOf(chars) \cup KeysOf(tty) \cup {0}
         /\ KeysOf(chars) \cup KeysOf(tty) \subseteq KeysOf(s) \cup KeysOf(Rest1)
<1> DEFINE s == Append(chars, Next1)
<1>1. chars \in Seq(Bytes)
  BY DEF Inv, TypeOK
<1>2. Before(KeysOf(chars), {Next1.key})
  BY NextKeys DEF Inv, OrderInv, Before
<1>3. /\ s \in Seq(Bytes) /\ Len(s) = Len(chars) + 1 /\ Ordered(s)
      /\ KeysOf(s) = KeysOf(chars) \cup {Next1.key}
  BY <1>1, <1>2, NextKeys, AppendKeys DEF Inv, OrderInv
<1> HIDE DEF s
<1>4. Before(KeysOf(sent), KeysOf(s)) /\ Before(KeysOf(buf), KeysOf(s))
  BY <1>3, NextKeys DEF Inv, OrderInv, Before
<1>5. Before(KeysOf(s), KeysOf(Rest1))
  BY <1>3, NextKeys DEF Inv, OrderInv, Before
<1>6. /\ KeysOf(s) \cup KeysOf(Rest1) \subseteq KeysOf(chars) \cup KeysOf(tty) \cup {0}
      /\ KeysOf(chars) \cup KeysOf(tty) \subseteq KeysOf(s) \cup KeysOf(Rest1)
  BY <1>3, NextKeys
<1> QED BY <1>3, <1>4, <1>5, <1>6 DEF s

\* Bytes go from the user or from the held arrow into the buffer.
LEMMA PushStep ==
  ASSUME Inv, NEW bytes \in Seq(Bytes), Push(bytes), Ordered(bytes),
         Before(KeysOf(sent), KeysOf(bytes)), Before(KeysOf(buf), KeysOf(bytes)),
         Before(KeysOf(bytes), KeysOf(tty')), KeysOf(tty') \subseteq KeysOf(tty), Ordered(tty'),
         KeysOf(bytes) \subseteq AllKeys \cup {0},
         KeysOf(chars) \cup KeysOf(tty) \subseteq KeysOf(bytes) \cup KeysOf(tty'),
         chars' = <<>>, sent' = sent, typed' = typed
  PROVE  OrderInv' /\ CountInv'
<1> DEFINE K == KeysOf(bytes)
           T == KeysOf(tty')
           B == KeysOf(buf')
<1>1. /\ KeysOf(buf) \subseteq B /\ B \subseteq KeysOf(buf) \cup K
      /\ spoilt' = {} => B = KeysOf(buf) \cup K /\ spoilt = {}
      /\ Ordered(buf')
  BY PushKeys DEF Inv, OrderInv
<1>2. KeysOf(chars') = {} /\ Ordered(chars')
  BY EmptyKeys
<1>3. Before(K, T) /\ Before(KeysOf(sent), K)
  OBVIOUS
<1>4. T \subseteq KeysOf(tty) /\ K \subseteq AllKeys \cup {0} /\ KeysOf(chars) \cup KeysOf(tty) \subseteq K \cup T
  OBVIOUS
<1>5. typed \in Nat
  BY Sizes DEF Inv
<1>10. Ordered(tty')
  OBVIOUS
<1> HIDE DEF K, T, B
<1>6. Before(KeysOf(sent), B) /\ Before(KeysOf(sent), T)
  BY <1>1, <1>3, <1>4 DEF Inv, OrderInv, Before
<1>7. Before(B, T)
  BY <1>1, <1>3, <1>4 DEF Inv, OrderInv, Before
<1>8. OrderInv'
  BY <1>1, <1>2, <1>6, <1>7, <1>10 DEF OrderInv, Inv, Before, B, T
<1>9. CountInv'
  <2>1. AllKeys' = KeysOf(sent) \cup B \cup T
    BY <1>2 DEF AllKeys, B, T
  <2> QED BY <1>1, <1>4, <1>5, <2>1 DEF Inv, CountInv, AllKeys
<1> QED BY <1>8, <1>9
-----------------------------------------------------------------------------
\* The types of the variables that a step of handle_input changes.
LEMMA TypeKept ==
  ASSUME TypeOK, tty' \in Seq(Bytes), chars' \in Seq(Bytes), Len(chars') < 3,
         buf' \in Seq(Bytes), Len(buf') <= BufCap, spoilt' \subseteq Faults,
         pc' \in Places,
         ungot' \in {0, ungot}, pc' \in {"arrow", "bracket"} => ungot' = 0,
         UNCHANGED <<typed, extras, sent, unread>>
  PROVE  TypeOK'
<1>1. MaxExtras \in Nat /\ extras \in 0 .. MaxExtras /\ ungot \in 0 .. extras
  BY InputAssumption DEF InputAssumption, TypeOK
<1>2. extras \in Nat
  BY <1>1
<1>3. ungot' \in 0 .. extras
  BY <1>1, <1>2
<1> QED BY <1>3 DEF TypeOK

\* The key at the head of the terminal starts an arrow or goes to the buffer.
LEMMA GetchInv ==
  ASSUME Inv, Getch
  PROVE  Inv'
<1> DEFINE h == Head(tty)
<1>1. /\ pc = "getch" /\ tty # <<>> /\ tty' = Tail(tty) /\ ungot' = 0 /\ chars = <<>>
      /\ UNCHANGED <<typed, extras, sent, unread>>
  BY DEF Getch, Inv, CharsInv
<1>2. tty \in Seq(Bytes) /\ Ordered(tty) /\ TypeOK
  BY DEF Inv, TypeOK, OrderInv
<1>3. /\ h \in Bytes /\ tty' \in Seq(Bytes) /\ Ordered(tty') /\ KeysOf(tty) = {h.key} \cup KeysOf(tty')
      /\ Before({h.key}, KeysOf(tty'))
  BY <1>1, <1>2, TailKeys
<1>4. <<h>> \in Seq(Bytes) /\ Len(<<h>>) = 1 /\ KeysOf(<<h>>) = {h.key} /\ Ordered(<<h>>)
  BY <1>3, SingleKeys
<1>5. CASE h.kind = "esc"
  <2>1. pc' = "arrow" /\ chars' = <<h>> /\ UNCHANGED <<buf, spoilt>>
    BY <1>5 DEF Getch
  <2>6. CharsInv' /\ buf' \in Seq(Bytes) /\ Len(buf') <= BufCap /\ spoilt' \subseteq Faults
    BY <1>2, <1>4, <2>1 DEF TypeOK, CharsInv
  <2>2. TypeOK'
    BY <1>1, <1>2, <1>3, <1>4, <2>1, <2>6, TypeKept DEF Places
  <2>3. KeysOf(chars') = {h.key} /\ Ordered(chars') /\ KeysOf(chars) = {}
    BY <1>1, <1>4, <2>1, EmptyKeys
  <2>4. OrderInv'
    BY <1>1, <1>3, <2>1, <2>3 DEF Inv, OrderInv, Before
  <2>5. CountInv'
    BY <1>1, <1>3, <2>1, <2>3 DEF Inv, CountInv, AllKeys
  <2> QED BY <2>2, <2>4, <2>5, <2>6 DEF Inv
<1>6. CASE h.kind # "esc"
  <2>1. Push(<<h>>) /\ UNCHANGED <<pc, chars>>
    BY <1>6 DEF Getch
  <2>2. buf' \in Seq(Bytes) /\ Len(buf') <= BufCap /\ spoilt' \subseteq Faults
    BY <1>2, <1>4, <2>1, PushKeys
  <2>3. TypeOK' /\ CharsInv'
    <3>1. CharsInv' /\ chars' \in Seq(Bytes) /\ Len(chars') < 3
      BY <1>1, <1>2, <2>1 DEF TypeOK, CharsInv, Inv
    <3> QED BY <1>1, <1>2, <1>3, <2>1, <2>2, <3>1, TypeKept DEF Places
  <2>4. KeysOf(chars) = {}
    BY <1>1, EmptyKeys
  <2>5. Before(KeysOf(sent), KeysOf(<<h>>)) /\ Before(KeysOf(buf), KeysOf(<<h>>))
    BY <1>3, <1>4 DEF Inv, OrderInv, Before
  <2>6. KeysOf(<<h>>) \subseteq AllKeys \cup {0}
    BY <1>3, <1>4 DEF AllKeys
  <2>7. OrderInv' /\ CountInv'
    BY <1>1, <1>3, <1>4, <2>1, <2>4, <2>5, <2>6, PushStep
  <2> QED BY <2>3, <2>7 DEF Inv
<1> QED BY <1>5, <1>6

\* A byte is added to the arrow that is held.
LEMMA HoldInv ==
  ASSUME Inv, pc = "arrow", pc' = "bracket", chars' = Append(chars, Next1), tty' = Rest1,
         UNCHANGED <<buf, spoilt, ungot, typed, extras, sent, unread>>
  PROVE  Inv'
<1>1. TypeOK /\ Len(chars) = 1 /\ chars \in Seq(Bytes)
  BY DEF Inv, CharsInv, TypeOK
<1>2. /\ chars' \in Seq(Bytes) /\ Len(chars') = 2 /\ Ordered(chars')
      /\ Before(KeysOf(sent), KeysOf(chars')) /\ Before(KeysOf(buf), KeysOf(chars'))
      /\ Before(KeysOf(chars'), KeysOf(tty'))
      /\ KeysOf(chars') \cup KeysOf(tty') \subseteq KeysOf(chars) \cup KeysOf(tty) \cup {0}
      /\ KeysOf(chars) \cup KeysOf(tty) \subseteq KeysOf(chars') \cup KeysOf(tty')
  BY <1>1, HeldKeys
<1>3. tty' \in Seq(Bytes) /\ Ordered(tty') /\ KeysOf(tty') \subseteq KeysOf(tty)
  BY NextKeys
<1>8. /\ CharsInv' /\ buf' \in Seq(Bytes) /\ Len(buf') <= BufCap /\ ungot' = 0
      /\ spoilt' \subseteq Faults
  BY <1>1, <1>2 DEF TypeOK, CharsInv
<1>4. TypeOK'
  BY <1>1, <1>2, <1>3, <1>8, TypeKept DEF Places
<1>5. OrderInv'
  BY <1>2, <1>3 DEF Inv, OrderInv, Before
<1>6. typed \in Nat
  BY <1>1, Sizes
<1>7. CountInv'
  BY <1>2, <1>6 DEF Inv, CountInv, AllKeys
<1> QED BY <1>4, <1>5, <1>7, <1>8 DEF Inv

\* What was held, and the byte after it, goes to the buffer, with the same keys.
LEMMA ReleaseInv ==
  ASSUME Inv, pc \in {"arrow", "bracket"}, tty' = Rest1, NEW bytes \in Seq(Bytes),
         Len(bytes) = Len(chars) + 1,
         \A i \in 1 .. Len(bytes) : bytes[i].key = Append(chars, Next1)[i].key,
         PushAll(bytes), UNCHANGED <<ungot, typed, extras, sent, unread>>
  PROVE  Inv'
<1> DEFINE s == Append(chars, Next1)
<1>1. TypeOK
  BY DEF Inv
<1>2. Push(bytes) /\ pc' = "getch" /\ chars' = <<>>
  BY DEF PushAll
<1>3. buf' \in Seq(Bytes) /\ Len(buf') <= BufCap /\ spoilt' \subseteq Faults
  BY <1>1, <1>2, PushKeys
<1>4. tty' \in Seq(Bytes) /\ Ordered(tty') /\ KeysOf(tty') \subseteq KeysOf(tty)
  BY NextKeys
<1>5. TypeOK' /\ CharsInv'
  <2>1. CharsInv' /\ ungot' = 0 /\ chars' \in Seq(Bytes) /\ Len(chars') < 3
    BY <1>1, <1>2, EmptySeq DEF TypeOK, CharsInv
  <2> QED BY <1>1, <1>2, <1>3, <1>4, <2>1, TypeKept DEF Places
<1>6. /\ Len(s) = Len(bytes) /\ Ordered(s)
      /\ Before(KeysOf(sent), KeysOf(s)) /\ Before(KeysOf(buf), KeysOf(s))
      /\ Before(KeysOf(s), KeysOf(tty'))
      /\ KeysOf(s) \cup KeysOf(tty') \subseteq KeysOf(chars) \cup KeysOf(tty) \cup {0}
      /\ KeysOf(chars) \cup KeysOf(tty) \subseteq KeysOf(s) \cup KeysOf(tty')
  BY HeldKeys
<1> HIDE DEF s
<1>7. \A i \in 1 .. Len(bytes) : bytes[i].key = s[i].key
  BY DEF s
<1>8. KeysOf(bytes) = KeysOf(s) /\ Ordered(bytes)
  BY <1>6, <1>7, SMTT(60) DEF KeysOf, Ordered
<1>9. KeysOf(bytes) \subseteq AllKeys \cup {0}
  BY <1>6, <1>8 DEF AllKeys
<1>10. OrderInv' /\ CountInv'
  BY <1>2, <1>4, <1>6, <1>8, <1>9, PushStep
<1> QED BY <1>5, <1>10 DEF Inv

\* handle_arrows keeps the invariant: the bytes that it has read are older than
\* those that wait (shell.c:35-65).
LEMMA ArrowsInv ==
  ASSUME Inv, Arrow \/ Bracket
  PROVE  Inv'
<1> DEFINE s == Append(chars, Next1)
<1>1. s \in Seq(Bytes) /\ Len(s) = Len(chars) + 1
  BY HeldKeys
<1>2. CASE Arrow /\ Next1.kind = "["
  BY <1>2, HoldInv DEF Arrow
<1>3. CASE Arrow /\ Next1.kind # "["
  BY <1>1, <1>3, ReleaseInv DEF Arrow
<1>4. CASE Bracket /\ Next1.kind # "A"
  BY <1>1, <1>4, ReleaseInv DEF Bracket
<1>5. CASE Bracket /\ Next1.kind = "A"
  <2> DEFINE arrow == <<chars[1], Byte(Lead, chars[2].key), Next1>>
  <2>1. /\ pc = "bracket" /\ tty' = Rest1 /\ PushAll(arrow)
        /\ UNCHANGED <<ungot, typed, extras, sent, unread>>
    BY <1>5 DEF Bracket
  <2>2. chars \in Seq(Bytes) /\ Len(chars) = 2
    BY <2>1 DEF Inv, TypeOK, CharsInv
  <2>3. chars[1] \in Bytes /\ chars[2] \in Bytes
    BY <2>2
  <2>4. Byte(Lead, chars[2].key) \in Bytes /\ Byte(Lead, chars[2].key).key = chars[2].key
    BY <2>3 DEF Byte, Bytes
  <2>6. Next1 \in Bytes
    BY NextKeys
  <2>5. s[1] = chars[1] /\ s[2] = chars[2] /\ s[3] = Next1
    <3>1. \A b \in Bytes : LET t == Append(chars, b) IN
            t[1] = chars[1] /\ t[2] = chars[2] /\ t[3] = b
      BY <2>2, PairAppend
    <3> QED BY <2>6, <3>1
  <2>7. /\ arrow \in Seq(Bytes) /\ Len(arrow) = 3
        /\ arrow[1] = chars[1] /\ arrow[2] = Byte(Lead, chars[2].key) /\ arrow[3] = Next1
    BY <2>3, <2>4, <2>6
  <2>8. \A i \in 1 .. Len(arrow) : arrow[i].key = s[i].key
    <3> SUFFICES ASSUME NEW i \in 1 .. 3 PROVE arrow[i].key = s[i].key
      BY <2>7
    <3>1. i = 1 \/ i = 2 \/ i = 3
      OBVIOUS
    <3> HIDE DEF arrow, s
    <3> QED BY <2>4, <2>5, <2>7, <3>1
  <2> HIDE DEF arrow
  <2>9. Len(arrow) = Len(chars) + 1
    BY <2>2, <2>7
  <2> QED BY <2>1, <2>7, <2>8, <2>9, ReleaseInv
<1> QED BY <1>2, <1>3, <1>4, <1>5 DEF Arrow, Bracket

\* What the pty takes is what was first in the buffer; the rest is lost.
LEMMA FlushInv ==
  ASSUME Inv, Flush
  PROVE  Inv'
<1> DEFINE n  == IF Len(buf) <= PtyCap - unread THEN Len(buf) ELSE PtyCap - unread
           go == SubSeq(buf, 1, n)
<1>1. /\ pc = "flush" /\ pc' = "poll" /\ sent' = sent \o go /\ unread' = unread + n
      /\ spoilt' = (IF n < Len(buf) THEN spoilt \cup {"short write"} ELSE spoilt)
      /\ buf' = <<>> /\ UNCHANGED <<tty, ungot, typed, extras, chars>>
  BY DEF Flush
<1>2. /\ TypeOK /\ sent \in Seq(Bytes) /\ buf \in Seq(Bytes) /\ unread \in 0 .. PtyCap
  BY DEF Inv, TypeOK
<1>3. PtyCap \in Nat /\ BufCap \in Nat
  BY InputAssumption DEF InputAssumption
<1>4. Len(buf) \in Nat
  BY <1>2, LenProperties
<1>5. n \in 0 .. Len(buf) /\ unread + n \in 0 .. PtyCap /\ (n < Len(buf) \/ n = Len(buf))
  BY <1>2, <1>3, <1>4
<1>6. /\ go \in Seq(Bytes) /\ KeysOf(go) \subseteq KeysOf(buf)
      /\ n = Len(buf) => KeysOf(go) = KeysOf(buf)
      /\ Ordered(buf) => Ordered(go)
  BY <1>2, <1>5, PrefixKeys
<1> HIDE DEF n, go
<1>7. Ordered(sent) /\ Ordered(buf) /\ Before(KeysOf(sent), KeysOf(buf))
  BY DEF Inv, OrderInv
<1>8. Before(KeysOf(sent), KeysOf(go))
  BY <1>6, <1>7 DEF Before
<1>9. sent' \in Seq(Bytes) /\ KeysOf(sent') = KeysOf(sent) \cup KeysOf(go) /\ Ordered(sent')
  <2>1. /\ sent \o go \in Seq(Bytes) /\ KeysOf(sent \o go) = KeysOf(sent) \cup KeysOf(go)
        /\ Ordered(sent) /\ Ordered(go) /\ Before(KeysOf(sent), KeysOf(go)) => Ordered(sent \o go)
    BY <1>2, <1>6, ConcatKeys
  <2> QED BY <1>1, <1>6, <1>7, <1>8, <2>1
<1>10. buf' \in Seq(Bytes) /\ Len(buf') <= BufCap /\ KeysOf(buf') = {} /\ Ordered(buf')
  <2>1. buf' = <<>> /\ buf' \in Seq(Bytes) /\ Len(buf') = 0
    BY <1>1, EmptySeq
  <2> QED BY <1>3, <2>1, EmptyKeys
<1>11. TypeOK'
  <2>1. spoilt' \subseteq Faults /\ pc' \in Places
    BY <1>1, <1>2 DEF TypeOK, Faults, Places
  <2>2. unread' \in 0 .. PtyCap
    BY <1>1, <1>5
  <2> QED BY <1>1, <1>2, <1>9, <1>10, <2>1, <2>2 DEF TypeOK
<1>12. CharsInv'
  BY <1>1 DEF Inv, CharsInv
<1>13. OrderInv'
  BY <1>1, <1>6, <1>9, <1>10 DEF Inv, OrderInv, Before
<1>14. CountInv'
  <2>1. spoilt' = {} => spoilt = {} /\ KeysOf(go) = KeysOf(buf)
    BY <1>1, <1>5, <1>6
  <2>2. typed \in Nat
    BY <1>2, Sizes
  <2> QED BY <1>1, <1>6, <1>9, <1>10, <2>1, <2>2 DEF Inv, CountInv, AllKeys
<1> QED BY <1>11, <1>12, <1>13, <1>14 DEF Inv

\* An answer of the vterm has no key.
LEMMA AnswerInv ==
  ASSUME Inv, Answer
  PROVE  Inv'
<1> DEFINE a == Byte("answer", 0)
<1>1. /\ pc = "poll" /\ extras < MaxExtras /\ extras' = extras + 1 /\ Push(<<a>>) /\ chars = <<>>
      /\ UNCHANGED <<tty, ungot, typed, pc, chars, sent, unread>>
  BY DEF Answer, Inv, CharsInv
<1>2. a \in Bytes /\ a.key = 0
  BY InputAssumption DEF InputAssumption, Byte, Bytes
<1> HIDE DEF a
<1>3. <<a>> \in Seq(Bytes) /\ KeysOf(<<a>>) = {0} /\ Ordered(<<a>>)
  BY <1>2, SingleKeys
<1>4. TypeOK /\ KeysOf(chars) = {} /\ Ordered(tty)
  BY <1>1, EmptyKeys DEF Inv, OrderInv
<1>5. buf' \in Seq(Bytes) /\ Len(buf') <= BufCap /\ spoilt' \subseteq Faults
  BY <1>1, <1>3, <1>4, PushKeys
<1>6. OrderInv' /\ CountInv'
  <2>1. \A K : Before(K, KeysOf(<<a>>)) /\ Before(KeysOf(<<a>>), K)
    BY <1>3 DEF Before
  <2> QED BY <1>1, <1>3, <1>4, <2>1, PushStep
<1>7. TypeOK'
  <2>1. extras \in 0 .. MaxExtras /\ ungot \in 0 .. extras /\ MaxExtras \in Nat
    BY <1>4, InputAssumption DEF InputAssumption, TypeOK
  <2>2. extras' \in 0 .. MaxExtras /\ ungot' \in 0 .. extras'
    BY <1>1, <2>1
  <2> QED BY <1>1, <1>4, <1>5, <2>2 DEF TypeOK
<1>8. CharsInv'
  BY <1>1 DEF Inv, CharsInv
<1> QED BY <1>6, <1>7, <1>8 DEF Inv

\* A new key comes after all that are on their way.
LEMMA TypeKeyInv ==
  ASSUME Inv, NEW k \in Kinds, Type(k)
  PROVE  Inv'
<1> DEFINE b == Byte(k, typed + 1)
<1>1. /\ typed < MaxKeys /\ typed' = typed + 1 /\ tty' = Append(tty, b)
      /\ UNCHANGED <<ungot, extras, pc, chars, buf, sent, unread, spoilt>>
  BY DEF Type
<1>2. TypeOK /\ tty \in Seq(Bytes) /\ typed \in 0 .. MaxKeys
  BY DEF Inv, TypeOK
<1>3. MaxKeys \in Nat /\ typed \in Nat /\ typed + 1 \in 0 .. MaxKeys
  BY <1>1, <1>2, InputAssumption DEF InputAssumption
<1>4. b \in Bytes /\ b.key = typed + 1
  BY <1>3 DEF Byte, Bytes
<1> HIDE DEF b
<1>5. /\ Before(KeysOf(tty), {b.key}) /\ Before(KeysOf(sent), {b.key})
      /\ Before(KeysOf(buf), {b.key}) /\ Before(KeysOf(chars), {b.key})
  BY <1>3, <1>4 DEF Before, Inv, CountInv, AllKeys
<1>6. tty' \in Seq(Bytes) /\ KeysOf(tty') = KeysOf(tty) \cup {b.key} /\ Ordered(tty')
  BY <1>1, <1>2, <1>4, <1>5, AppendKeys DEF Inv, OrderInv
<1>7. TypeOK'
  BY <1>1, <1>2, <1>3, <1>6 DEF TypeOK
<1>8. CharsInv'
  BY <1>1 DEF Inv, CharsInv
<1>9. OrderInv'
  BY <1>1, <1>5, <1>6 DEF Inv, OrderInv, Before
<1>10. CountInv'
  <2>1. AllKeys' = AllKeys \cup {typed + 1}
    BY <1>1, <1>4, <1>6 DEF AllKeys
  <2>2. 1 .. typed + 1 = 1 .. typed \cup {typed + 1} /\ 0 .. typed \subseteq 0 .. typed + 1
    BY <1>3
  <2> QED BY <1>1, <1>3, <2>1, <2>2 DEF Inv, CountInv
<1> QED BY <1>7, <1>8, <1>9, <1>10 DEF Inv

\* Steps that move no key.
LEMMA OtherInv ==
  ASSUME Inv, Poll \/ GetchEnds \/ ResizeKey \/ BashReads \/ UNCHANGED vars
  PROVE  Inv'
<1>1. /\ UNCHANGED <<tty, typed, chars, buf, sent, spoilt>> /\ pc' \in Places
      /\ \/ pc \in {"poll", "getch", "flush"} /\ pc' \in {"poll", "getch", "flush"}
         \/ pc' = pc
  BY DEF Poll, GetchEnds, ResizeKey, BashReads, vars, Inv, TypeOK, Places
<1>2. OrderInv' /\ CountInv'
  BY <1>1 DEF Inv, OrderInv, CountInv, AllKeys
<1>3. CharsInv'
  BY <1>1 DEF Inv, CharsInv
<1>4. /\ extras \in 0 .. MaxExtras /\ ungot \in 0 .. extras /\ MaxExtras \in Nat
      /\ unread \in 0 .. PtyCap /\ PtyCap \in Nat
  BY InputAssumption DEF InputAssumption, Inv, TypeOK
<1>5. extras' \in 0 .. MaxExtras /\ ungot' \in 0 .. extras' /\ unread' \in 0 .. PtyCap
  BY <1>4 DEF Poll, GetchEnds, ResizeKey, BashReads, vars
<1>6. pc' \in {"arrow", "bracket"} => ungot' = 0
  BY DEF Poll, GetchEnds, ResizeKey, BashReads, vars, Inv, TypeOK
<1>7. TypeOK'
  BY <1>1, <1>5, <1>6 DEF Inv, TypeOK
<1> QED BY <1>2, <1>3, <1>7 DEF Inv

\* The inductive invariant: the bytes of the keys stand in the order they were
\* typed in from the terminal to the program (shell.c:67-100).
THEOREM InvAlways == Spec => []Inv
<1>1. Inv /\ [Next]_vars => Inv'
  BY GetchInv, ArrowsInv, FlushInv, AnswerInv, TypeKeyInv, OtherInv DEF Next, HandleInput
<1> QED BY <1>1, InitInv, PTL DEF Spec

\* Neither chars[3] nor the vterm's buffer overflows, whatever is typed and
\* whenever (shell.c:35-65, 71).
THEOREM TypeCorrect == Spec => []TypeOK
<1>1. Inv => TypeOK
  BY DEF Inv
<1> QED BY <1>1, InvAlways, PTL

\* The keys that are on their way to bash, put together.
LEMMA OnTheWayKeys ==
  ASSUME Inv
  PROVE  Ordered(OnTheWay) /\ KeysOf(OnTheWay) = AllKeys
<1>1. tty \in Seq(Bytes) /\ chars \in Seq(Bytes) /\ buf \in Seq(Bytes) /\ sent \in Seq(Bytes)
  BY DEF Inv, TypeOK
<1> QED BY <1>1, FourKeys DEF Inv, OrderInv, OnTheWay, AllKeys

\* No key overtakes another one or is passed on twice, however long the run and
\* whatever is dropped (shell.c:35-100).
THEOREM KeysStayInOrder == Spec => []KeysInOrder
<1>1. Inv => KeysInOrder
  BY OnTheWayKeys DEF KeysInOrder
<1> QED BY <1>1, InvAlways, PTL

\* As long as no buffer was full, every key typed is on its way (shell.c:71, 97).
THEOREM NothingLostUnlessFull == Spec => []LostOnlyIfFull
<1>1. Inv => LostOnlyIfFull
  BY OnTheWayKeys DEF Inv, CountInv, LostOnlyIfFull
<1> QED BY <1>1, InvAlways, PTL
=============================================================================
