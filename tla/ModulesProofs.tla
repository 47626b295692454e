--------------------------- MODULE ModulesProofs ---------------------------
(***************************************************************************)
(* Machine-checked proofs about Modules, for any processes, names, files   *)
(* and working directory and any number of changes of files.               *)
(***************************************************************************)
EXTENDS Modules, SequenceTheorems, TLAPS

Elements(s)     == {s[i] : i \in 1 .. Len(s)}
NoDuplicates(s) == \A i, j \in 1 .. Len(s) : s[i] = s[j] => i = j

\* What Append and Tail do to the elements of a sequence without duplicates.
LEMMA AppendElements ==
  ASSUME NEW S, NEW s \in Seq(S), NEW e \in S
  PROVE  /\ Append(s, e) \in Seq(S)
         /\ Elements(Append(s, e)) = Elements(s) \cup {e}
         /\ NoDuplicates(s) /\ e \notin Elements(s) => NoDuplicates(Append(s, e))
BY AppendProperties DEF Elements, NoDuplicates

\* What is left of a list without its first name.
LEMMA TailElements ==
  ASSUME NEW S, NEW s \in Seq(S), s # <<>>, NoDuplicates(s)
  PROVE  /\ Tail(s) \in Seq(S) /\ NoDuplicates(Tail(s))
         /\ Head(s) \in Elements(s)
         /\ Elements(Tail(s)) = Elements(s) \ {Head(s)}
<1>1. /\ Len(s) \in Nat \ {0} /\ Len(Tail(s)) = Len(s) - 1 /\ Tail(s) \in Seq(S)
      /\ Head(s) = s[1] /\ \A i \in 1 .. Len(Tail(s)) : Tail(s)[i] = s[i + 1]
  BY HeadTailProperties, EmptySeq
<1>2. NoDuplicates(Tail(s)) /\ Head(s) \in Elements(s)
  BY <1>1 DEF NoDuplicates, Elements
<1>3. ASSUME NEW x \in Elements(Tail(s)) PROVE x \in Elements(s) \ {Head(s)}
  BY <1>1 DEF NoDuplicates, Elements
<1>4. ASSUME NEW x \in Elements(s) \ {Head(s)} PROVE x \in Elements(Tail(s))
  <2>1. PICK i \in 1 .. Len(s) : x = s[i]
    BY DEF Elements
  <2>2. i # 1
    BY <1>1, <1>4, <2>1
  <2>3. i - 1 \in 1 .. Len(Tail(s)) /\ Tail(s)[i - 1] = x
    BY <1>1, <2>1, <2>2
  <2> QED BY <2>3 DEF Elements
<1> QED BY <1>1, <1>2, <1>3, <1>4

\* The histories after a step: what was so from the start, is so still and was
\* so in between.
LEMMA HistoryTypes ==
  ASSUME TypeOK, Observes
  PROVE  good' \in [Procs -> SUBSET Names] /\ stale' \in [Procs -> SUBSET Names]
<1> DEFINE now  == {n \in Names : Loads(n)'}
           then == {n \in Names : Dangles(n)'}
<1>1. good' = Observed(good, now) /\ stale' = Observed(stale, then)
  BY DEF Observes
<1>2. now \subseteq Names /\ then \subseteq Names
  OBVIOUS
<1> HIDE DEF now, then
<1> QED BY <1>1, <1>2 DEF Observed, TypeOK

\* What was so all the time is so now, and grows no more once the command began.
LEMMA Histories ==
  ASSUME TypeOK, Observes, NEW p \in Procs
  PROVE  /\ pc[p] # "idle" => good'[p] \subseteq good[p] /\ stale'[p] \subseteq stale[p]
         /\ pc[p] # "ok" /\ pc'[p] \notin {"failed", "dead"} =>
              /\ \A n \in good'[p]  : Loads(n)'
              /\ \A n \in stale'[p] : Dangles(n)'
<1> DEFINE now  == {n \in Names : Loads(n)'}
           then == {n \in Names : Dangles(n)'}
<1>1. good' = Observed(good, now) /\ stale' = Observed(stale, then)
  BY DEF Observes
<1>2. now \subseteq Names /\ then \subseteq Names
  OBVIOUS
<1>3. (\A n \in now : Loads(n)') /\ (\A n \in then : Dangles(n)')
  OBVIOUS
<1> HIDE DEF now, then
<1> QED BY <1>1, <1>2, <1>3 DEF Observed, TypeOK
-----------------------------------------------------------------------------
\* Types. What a place says about the command that stands there:
Control == \A p \in Procs :
  /\ pc[p] \in {"load", "symlink"} => cmd[p].op = "add"
  /\ pc[p] = "remove" => cmd[p].op = "remove"
  /\ pc[p] \in {"readdir", "next"} => cmd[p].op \in {"list", "clean"}
  /\ pc[p] = "unlink" => cmd[p].op = "clean"

TypeInv == TypeOK /\ Control

\* What each command is given.
LEMMA CommandTypes ==
  \A c \in Commands : /\ c.op \in {"add", "remove", "list", "clean"}
                      /\ c.op = "add" => c.what \in Files
                      /\ c.op = "remove" => c.what \in Names
BY DEF Commands

\* Type correctness at the start.
LEMMA TypeInit == Init => TypeInv
BY ModulesAssumption, EmptySeq
DEF ModulesAssumption, Init, TypeInv, TypeOK, Control, Places, Ended

\* What a process keeps to print is of the kind that its command prints.
OutOK ==
  /\ out \in [Procs -> SUBSET (Entries \cup Names)]
  /\ \A q \in Procs : out[q] \subseteq IF cmd[q].op = "list" THEN Entries ELSE Names

\* One more line of output keeps its kind.
LEMMA OutTypes ==
  ASSUME OutOK, NEW p \in Procs, NEW x, x \in IF cmd[p].op = "list" THEN Entries ELSE Names,
         out' = [out EXCEPT ![p] = {x}] \/ out' = [out EXCEPT ![p] = @ \cup {x}], cmd' = cmd
  PROVE  OutOK'
<1>1. \A q \in Procs : out'[q] \subseteq IF cmd[q].op = "list" THEN Entries ELSE Names
  <2> SUFFICES ASSUME NEW q \in Procs
               PROVE  out'[q] \subseteq IF cmd[q].op = "list" THEN Entries ELSE Names
    OBVIOUS
  <2>1. CASE q = p
    BY <2>1 DEF OutOK
  <2>2. CASE q # p
    BY <2>2 DEF OutOK
  <2> QED BY <2>1, <2>2
<1>2. out' = [q \in Procs |-> out'[q]]
  BY DEF OutOK
<1> QED BY <1>1, <1>2 DEF OutOK

\* One directory entry made, changed or removed.
LEMMA LinkTypes ==
  ASSUME TypeOK, NEW d \in {Cwd, modules_path}, NEW n \in Names, NEW f \in Files \cup {None}
  PROVE  [link EXCEPT ![d][n] = f] \in [{Cwd, modules_path} -> [Names -> Files \cup {None}]]
BY DEF TypeOK

\* One more name for which memory ran out, or whose link could not be removed.
LEMMA OneMoreName ==
  ASSUME NEW h \in [Procs -> SUBSET Names], NEW g, NEW p \in Procs, NEW n \in Names,
         g = h \/ g = [h EXCEPT ![p] = @ \cup {n}]
  PROVE  g \in [Procs -> SUBSET Names]
OBVIOUS

\* A command that fails or is killed.
LEMMA TypeFails ==
  ASSUME TypeInv, Observes, NEW p \in Procs, NEW l \in {"failed", "dead"}, Fails(p, l)
  PROVE  TypeInv'
<1>1. good' \in [Procs -> SUBSET Names] /\ stale' \in [Procs -> SUBSET Names]
  BY HistoryTypes DEF TypeInv
<1> QED BY <1>1, EmptySeq DEF TypeInv, TypeOK, Control, Fails, Goes, Places, Ended

\* The steps of add and remove, and the ends of the commands (mods.c:81-94).
LEMMA TypeRuns ==
  ASSUME TypeInv, Observes, NEW p \in Procs,
         Start(p) \/ AddLoad(p) \/ AddLink(p) \/ Remove(p) \/ ReadEnd(p) \/ Finish(p)
  PROVE  TypeInv'
<1> USE DEF TypeInv, TypeOK, Control, Places, Ended, Goes, Jumps, memory
<1>1. good' \in [Procs -> SUBSET Names] /\ stale' \in [Procs -> SUBSET Names]
  BY HistoryTypes
<1>2. CASE Start(p)
  BY <1>1, <1>2, CommandTypes DEF Start, First
<1>3. CASE Fails(p, "failed")
  BY <1>3, TypeFails
<1>4. CASE AddLoad(p) /\ ~Fails(p, "failed")
  <2>1. cmd[p].op = "add" /\ file[cmd[p].what] \in Names
    BY <1>4, CommandTypes DEF AddLoad
  <2>2. OutOK'
    BY <1>4, <2>1, OutTypes, ZenonT(60) DEF AddLoad, OutOK
  <2> QED BY <1>1, <1>4, <2>1, <2>2, ZenonT(60) DEF AddLoad, OutOK
<1>5. CASE AddLink(p) /\ ~Fails(p, "failed")
  <2>1. PICK n \in out[p] :
          /\ link' = [link EXCEPT ![Cwd][n] = cmd[p].what]
          /\ added' = added \cup {n}
          /\ Goes(p, "ok")
          /\ UNCHANGED <<file, builds, cmd, memory, renamed>>
    BY <1>5 DEF AddLink
  <2>2. n \in Names /\ cmd[p].what \in Files
    BY <1>5, CommandTypes DEF AddLink
  <2>3. link' \in [{Cwd, modules_path} -> [Names -> Files \cup {None}]]
    BY <2>1, <2>2, LinkTypes
  <2>4. pc' = [pc EXCEPT ![p] = "ok"] /\ added' \subseteq Names
    BY <2>1, <2>2
  <2> QED BY <1>1, <2>1, <2>3, <2>4
<1>6. CASE Remove(p) /\ ~Fails(p, "failed")
  <2>1. cmd[p].what \in Names
    BY <1>6, CommandTypes DEF Remove
  <2>2. link' = [link EXCEPT ![modules_path][cmd[p].what] = None]
    BY <1>6 DEF Remove, Unlinks
  <2>3. link' \in [{Cwd, modules_path} -> [Names -> Files \cup {None}]]
    BY <2>1, <2>2, LinkTypes
  <2> QED BY <1>1, <1>6, <2>3 DEF Remove, Unlinks
<1>7. CASE ReadEnd(p) /\ ~Fails(p, "failed")
  BY <1>1, <1>7 DEF ReadEnd
<1>8. CASE Finish(p)
  BY <1>1, <1>8 DEF Finish
<1> QED BY <1>2, <1>3, <1>4, <1>5, <1>6, <1>7, <1>8

\* The steps of list and clean (mods.c:105-187).
LEMMA TypeReads ==
  ASSUME TypeInv, Observes, NEW p \in Procs,
         \/ \E n \in Names : ReadEntry(p, n)
         \/ ListLoad(p) \/ CleanLoad(p) \/ CleanFinds(p) \/ CleanUnlinks(p)
  PROVE  TypeInv'
<1> USE DEF TypeInv, TypeOK, Control, Places, Ended, Goes, memory, Moves, Loading
<1>1. good' \in [Procs -> SUBSET Names] /\ stale' \in [Procs -> SUBSET Names]
  BY HistoryTypes
<1>2. todo[p] # <<>> => Head(todo[p]) \in Names /\ Tail(todo[p]) \in Seq(Names \ Hidden)
  BY HeadTailProperties
<1>3. ASSUME NEW n \in Names, ReadEntry(p, n) PROVE TypeInv'
  <2>1. n \notin Hidden => Append(todo[p], n) \in Seq(Names \ Hidden)
    BY AppendProperties
  <2>2. todo' \in [Procs -> Seq(Names \ Hidden)]
    BY <1>3, <2>1 DEF ReadEntry
  <2> QED BY <1>1, <1>3, <2>2 DEF ReadEntry
<1>4. CASE ListLoad(p)
  <2> DEFINE n == Head(todo[p])
             e == [link |-> n, name |-> file[link[modules_path][n]], file |-> link[modules_path][n]]
  <2>1. e \in Entries
    BY <1>2, <1>4, ModulesAssumption
    DEF ListLoad, Loads, Linked, Entries, ModulesAssumption
  <2>2. out' = [out EXCEPT ![p] = @ \cup {e}]
    BY <1>4 DEF ListLoad
  <2> HIDE DEF e
  <2>3. OutOK'
    BY <1>4, <2>1, <2>2, OutTypes DEF ListLoad, OutOK
  <2>4. todo' \in [Procs -> Seq(Names \ Hidden)]
    BY <1>2, <1>4 DEF ListLoad
  <2> QED BY <1>1, <1>4, <2>3, <2>4 DEF ListLoad, OutOK
<1>5. CASE CleanLoad(p)
  BY <1>1, <1>2, <1>5 DEF CleanLoad
<1>6. CASE CleanFinds(p)
  <2>1. /\ out' = [out EXCEPT ![p] = @ \cup {Head(todo[p])}]
        /\ cmd[p].op = "clean" /\ todo[p] # <<>>
        /\ pc' = [pc EXCEPT ![p] = "unlink"]
        /\ UNCHANGED <<link, file, builds, cmd, seen, todo, kept, renamed, added>>
    BY <1>6 DEF CleanFinds
  <2>3. oom' = oom \/ oom' = [oom EXCEPT ![p] = @ \cup {Head(todo[p])}]
    BY <1>6 DEF CleanFinds
  <2>4. oom' \in [Procs -> SUBSET Names]
    BY <1>2, <2>1, <2>3, OneMoreName
  <2>2. OutOK'
    BY <1>2, <2>1, OutTypes DEF OutOK
  <2> QED BY <1>1, <2>1, <2>2, <2>4 DEF OutOK
<1>7. CASE CleanUnlinks(p)
  <2> DEFINE n == Head(todo[p])
  <2>3. n \in Names
    BY <1>2, <1>7 DEF CleanUnlinks
  <2>4. \/ link' = [link EXCEPT ![modules_path][n] = None] /\ added' = added \ {n} /\ kept' = kept
        \/ link' = link /\ added' = added /\ kept' = [kept EXCEPT ![p] = @ \cup {n}]
    BY <1>7 DEF CleanUnlinks, Unlinks
  <2> HIDE DEF n
  <2>7. [link EXCEPT ![modules_path][n] = None] \in [{Cwd, modules_path} -> [Names -> Files \cup {None}]]
    BY <2>3, LinkTypes
  <2>1. link' \in [{Cwd, modules_path} -> [Names -> Files \cup {None}]]
    BY <2>4, <2>7
  <2>6. added' \subseteq Names
    BY <2>4
  <2>5. kept' \in [Procs -> SUBSET Names]
    BY <2>3, <2>4, OneMoreName
  <2>2. todo' \in [Procs -> Seq(Names \ Hidden)] /\ pc' = [pc EXCEPT ![p] = "next"]
    BY <1>2, <1>7 DEF CleanUnlinks
  <2> QED BY <1>1, <1>7, <2>1, <2>2, <2>5, <2>6 DEF CleanUnlinks
<1> QED BY <1>3, <1>4, <1>5, <1>6, <1>7

\* A module file rebuilt.
LEMMA TypeBuild ==
  ASSUME TypeInv, Observes, NEW f \in Files, NEW n \in Names \cup {Broken}, Build(f, n)
  PROVE  TypeInv'
<1>1. good' \in [Procs -> SUBSET Names] /\ stale' \in [Procs -> SUBSET Names]
  BY HistoryTypes DEF TypeInv
<1>2. builds' \in 0 .. MaxBuilds
  BY ModulesAssumption DEF Build, TypeInv, TypeOK, ModulesAssumption
<1> QED BY <1>1, <1>2 DEF Build, TypeInv, TypeOK, Control, memory

\* Type correctness is kept by every step.
LEMMA TypeNext == TypeInv /\ [Next]_vars => TypeInv'
<1> SUFFICES ASSUME TypeInv, [Next]_vars PROVE TypeInv'
  OBVIOUS
<1>1. ASSUME NEW p \in Procs, Observes, Die(p) \/ ListFails(p) PROVE TypeInv'
  BY <1>1, TypeFails DEF Die, ListFails
<1>2. CASE UNCHANGED vars
  BY <1>2 DEF TypeInv, TypeOK, Control, vars, memory, history
<1> QED BY <1>1, <1>2, TypeRuns, TypeReads, TypeBuild DEF Next

\* Whatever commands run beside each other, and wherever they are killed, links
\* point to files, names with a dot are never queued for loading, and clean has
\* a name in hand when it removes one (mods.c:93-180).
THEOREM TypeCorrect == Spec => []TypeOK
<1>1. TypeInv => TypeOK
  BY DEF TypeInv
<1> QED BY <1>1, TypeInit, TypeNext, PTL DEF Spec
-----------------------------------------------------------------------------
\* The names that p has still to load.
Waiting(p) == Elements(todo[p])

\* Names are read once, and each that waits has been read.
TodoInv(p) ==
  /\ NoDuplicates(todo[p]) /\ Waiting(p) \subseteq seen[p]
  /\ pc[p] = "idle" => todo[p] = <<>> /\ seen[p] = {} /\ out[p] = {} /\ oom[p] = {}

\* What has been linked, broken or not, ever since p started, is either waiting
\* or already dealt with, in the way its command deals with it.
ReadInv(p) == pc[p] = "readdir" =>
  /\ out[p] = {} /\ oom[p] = {}
  /\ (good[p] \cup stale[p]) \cap seen[p] \subseteq Hidden \cup Waiting(p)

ListInv(p) == cmd[p].op = "list" =>
  /\ pc[p] \in {"next", "ok"} =>
       /\ good[p] \cup stale[p] \subseteq Hidden \cup Waiting(p) \cup Listed(p)
       /\ stale[p] \cap Listed(p) = {}
       /\ Waiting(p) \cap Listed(p) = {}
  /\ pc[p] = "ok" => todo[p] = <<>>
  /\ \A e \in out[p] : e.name = e.link \/ e.file \in renamed
  /\ \A d, e \in out[p] : d.link = e.link => d = e

CleanInv(p) == cmd[p].op = "clean" =>
  /\ pc[p] \in {"next", "unlink", "ok"} =>
       /\ stale[p] \subseteq Hidden \cup Waiting(p) \cup kept[p]
       /\ good[p] \cap out[p] \subseteq oom[p]
  /\ pc[p] = "ok" => todo[p] = <<>>
  /\ pc[p] = "unlink" => Head(todo[p]) \in out[p]

\* A name and a file fit, but for changes of the file.
Fits(n, f) == file[f] \in {n, Broken} \/ f \in renamed

AddInv(p) == pc[p] = "symlink" => \A n \in out[p] : Fits(n, cmd[p].what)

LinkInv == \A n \in Names : Linked(n) => Fits(n, link[modules_path][n])

ProcInv(p) == TodoInv(p) /\ ReadInv(p) /\ ListInv(p) /\ CleanInv(p) /\ AddInv(p)

DirInv == LinkInv /\ \A p \in Procs : ProcInv(p)

Inv == TypeInv /\ DirInv

\* The directory invariant at the start.
LEMMA DirInit == Init => DirInv
BY ModulesAssumption, EmptySeq
DEF ModulesAssumption, Init, DirInv, LinkInv, Fits, ProcInv, TodoInv, ReadInv, ListInv, CleanInv,
    AddInv, Waiting, Listed, Elements, NoDuplicates

\* A step of one process leaves what the others have in hand alone.
Apart(q) ==
  /\ pc'[q] = pc[q] /\ cmd'[q] = cmd[q] /\ seen'[q] = seen[q]
  /\ todo'[q] = todo[q] /\ out'[q] = out[q] /\ oom'[q] = oom[q]
  /\ kept'[q] = kept[q]

Acts(p) ==
  \/ Start(p) \/ AddLoad(p) \/ AddLink(p) \/ Remove(p) \/ \E n \in Names : ReadEntry(p, n)
  \/ ReadEnd(p) \/ ListLoad(p) \/ ListFails(p) \/ CleanLoad(p) \/ CleanFinds(p)
  \/ CleanUnlinks(p) \/ Finish(p) \/ Die(p)

\* ... which is every other process.
LEMMA OthersApart ==
  ASSUME TypeInv, NEW p \in Procs, NEW q \in Procs, q # p, Acts(p)
  PROVE  Apart(q) /\ file' = file /\ renamed' = renamed
BY DEF TypeInv, TypeOK, Apart, Acts, Start, AddLoad, AddLink, Remove, ReadEntry, ReadEnd, ListLoad,
       ListFails, CleanLoad, CleanFinds, CleanUnlinks, Finish, Die, Fails, Jumps, Goes, Moves,
       Loading, memory

\* A file that is rebuilt under another name counts as renamed, so a name that
\* fits goes on fitting; and a process at rest keeps its invariant.
LEMMA RestKept ==
  ASSUME NEW q \in Procs, ProcInv(q), Apart(q),
         pc[q] # "idle" => good'[q] \subseteq good[q] /\ stale'[q] \subseteq stale[q],
         renamed \subseteq renamed',
         pc[q] = "symlink" => \A n, f : f = cmd[q].what /\ Fits(n, f) => Fits(n, f)'
  PROVE  ProcInv(q)'
<1> USE DEF Apart
<1>1. Waiting(q)' = Waiting(q) /\ Listed(q)' = Listed(q)
  BY DEF Waiting, Listed, Elements
<1>2. TodoInv(q)'
  BY <1>1 DEF ProcInv, TodoInv, NoDuplicates
<1>3. ReadInv(q)'
  BY <1>1 DEF ProcInv, ReadInv
<1>4. ListInv(q)'
  BY <1>1 DEF ProcInv, ListInv
<1>5. CleanInv(q)'
  BY <1>1 DEF ProcInv, CleanInv
<1>6. AddInv(q)'
  BY DEF ProcInv, AddInv
<1> QED BY <1>2, <1>3, <1>4, <1>5, <1>6 DEF ProcInv

\* The steps of p itself. A command that ends without success drops everything.
LEMMA OwnFails ==
  ASSUME Inv, NEW p \in Procs, NEW l \in {"failed", "dead"}, Fails(p, l)
  PROVE  LinkInv' /\ ProcInv(p)'
<1>1. /\ pc'[p] \in {"failed", "dead"} /\ todo'[p] = <<>> /\ out'[p] = {}
      /\ UNCHANGED <<link, file, renamed>>
  BY DEF Inv, TypeInv, TypeOK, Fails, Goes
<1>2. LinkInv'
  BY <1>1 DEF Inv, DirInv, LinkInv, Linked, Fits
<1> QED
  BY <1>1, <1>2, EmptySeq DEF ProcInv, TodoInv, ReadInv, ListInv, CleanInv, AddInv, Waiting, Elements,
     NoDuplicates

\* add, and remove, keep the link and the process in order (mods.c:81-94).
LEMMA OwnAdds ==
  ASSUME Inv, NEW p \in Procs, Start(p) \/ AddLoad(p) \/ AddLink(p) \/ Remove(p)
  PROVE  LinkInv' /\ ProcInv(p)'
<1> USE DEF Inv, TypeInv, TypeOK, Control, DirInv, LinkInv, Linked, Fits, Goes, Jumps, memory
<1>1. TodoInv(p) /\ ListInv(p) /\ CleanInv(p) /\ AddInv(p)
  BY DEF ProcInv
<1>2. CASE Fails(p, "failed")
  BY <1>2, OwnFails
<1>3. CASE Start(p)
  <2>1. /\ pc'[p] \in {"load", "remove", "readdir"} /\ todo'[p] = <<>> /\ out'[p] = {} /\ oom'[p] = {}
        /\ seen'[p] = {} /\ UNCHANGED <<link, file, renamed>>
    BY <1>1, <1>3, CommandTypes DEF Start, First, TodoInv
  <2> QED
    BY <2>1, EmptySeq DEF ProcInv, TodoInv, ReadInv, ListInv, CleanInv, AddInv, Waiting, Elements,
       NoDuplicates
<1>4. CASE AddLoad(p) /\ ~Fails(p, "failed")
  <2>1. /\ pc'[p] = "symlink" /\ out'[p] = {file[cmd[p].what]} /\ cmd[p].op = "add"
        /\ UNCHANGED <<link, file, renamed, cmd, todo, seen>>
    BY <1>4 DEF AddLoad
  <2> QED
    BY <1>1, <2>1 DEF ProcInv, TodoInv, ReadInv, ListInv, CleanInv, AddInv, Waiting
<1>5. CASE AddLink(p) /\ ~Fails(p, "failed")
  <2>1. PICK n \in out[p] :
          /\ link' = [link EXCEPT ![Cwd][n] = cmd[p].what] /\ pc'[p] = "ok" /\ cmd[p].op = "add"
          /\ UNCHANGED <<file, renamed, cmd, todo, seen, out, oom, kept>>
    BY <1>5 DEF AddLink
  <2>2. n \in Names /\ Fits(n, cmd[p].what)
    BY <1>1, <1>5 DEF AddLink, AddInv
  <2>3. \A m \in Names : link'[modules_path][m] \in {link[modules_path][m]} \cup
                           (IF m = n THEN {cmd[p].what} ELSE {})
    BY <2>1, <2>2
  <2>4. LinkInv'
    BY <2>1, <2>2, <2>3
  <2> QED
    BY <1>1, <2>1, <2>4 DEF ProcInv, TodoInv, ReadInv, ListInv, CleanInv, AddInv, Waiting
<1>6. CASE Remove(p) /\ ~Fails(p, "failed")
  <2>1. /\ link' = [link EXCEPT ![modules_path][cmd[p].what] = None] /\ pc'[p] = "ok"
        /\ cmd[p].op = "remove" /\ UNCHANGED <<file, renamed, cmd, todo, seen, out, oom, kept>>
    BY <1>6 DEF Remove, Unlinks
  <2>2. \A m \in Names : link'[modules_path][m] \in {link[modules_path][m], None}
    BY <2>1
  <2>3. LinkInv'
    BY <2>1, <2>2
  <2> QED
    BY <1>1, <2>1, <2>3 DEF ProcInv, TodoInv, ReadInv, ListInv, CleanInv, AddInv, Waiting
<1> QED BY <1>2, <1>3, <1>4, <1>5, <1>6

\* What p holds of the directory after its own step, which it also did before.
LEMMA OwnHistories ==
  ASSUME Inv, Observes, NEW p \in Procs, pc[p] \notin {"idle", "ok"},
         pc'[p] \notin {"failed", "dead"}
  PROVE  /\ good'[p] \subseteq good[p] /\ stale'[p] \subseteq stale[p]
         /\ \A n \in good'[p]  : Loads(n)'
         /\ \A n \in stale'[p] : Dangles(n)'
BY Histories DEF Inv, TypeInv

\* readdir returns names that it has not returned before, and misses none that
\* was there all the time (mod_names, mods.c:96-98).
LEMMA OwnReads ==
  ASSUME Inv, Observes, NEW p \in Procs, (\E n \in Names : ReadEntry(p, n)) \/ ReadEnd(p)
  PROVE  LinkInv' /\ ProcInv(p)'
<1> USE DEF Inv, TypeInv, TypeOK, Control, DirInv, Goes, Jumps, memory
<1>1. TodoInv(p) /\ ReadInv(p) /\ ListInv(p) /\ CleanInv(p) /\ AddInv(p)
  BY DEF ProcInv
<1>2. CASE Fails(p, "failed")
  BY <1>2, OwnFails
<1>3. ASSUME NEW n \in Names, ReadEntry(p, n) PROVE LinkInv' /\ ProcInv(p)'
  <2>1. /\ pc[p] = "readdir" /\ pc'[p] = "readdir" /\ n \notin seen[p]
        /\ seen'[p] = seen[p] \cup {n}
        /\ todo'[p] = IF Linked(n) /\ n \notin Hidden THEN Append(todo[p], n) ELSE todo[p]
        /\ UNCHANGED <<link, file, cmd, out, oom, kept, renamed>>
    BY <1>3 DEF ReadEntry
  <2>2. LinkInv'
    BY <2>1 DEF LinkInv, Linked, Fits
  <2>3. /\ NoDuplicates(todo'[p])
        /\ Waiting(p)' = Waiting(p) \cup IF Linked(n) /\ n \notin Hidden THEN {n} ELSE {}
    <3>1. n \notin Elements(todo[p]) /\ NoDuplicates(todo[p])
      BY <1>1, <2>1 DEF TodoInv, Waiting
    <3> QED BY <2>1, <3>1, AppendElements DEF Waiting
  <2>4. TodoInv(p)'
    BY <1>1, <2>1, <2>3 DEF TodoInv
  <2>5. (good'[p] \cup stale'[p]) \cap seen'[p] \subseteq Hidden \cup Waiting(p)'
    <3> SUFFICES ASSUME NEW x \in good'[p] \cup stale'[p], x \in seen'[p], x \notin Hidden
                 PROVE  x \in Waiting(p)'
      OBVIOUS
    <3>1. CASE x = n
      <4>1. Linked(x)'
        BY <2>1, OwnHistories DEF Loads, Dangles
      <4> QED BY <2>1, <2>3, <3>1, <4>1 DEF Linked
    <3>2. CASE x \in seen[p]
      BY <1>1, <2>1, <2>3, <3>2, OwnHistories DEF ReadInv
    <3> QED BY <2>1, <3>1, <3>2
  <2>6. ReadInv(p)'
    BY <1>1, <2>1, <2>5 DEF ReadInv
  <2>7. ListInv(p)' /\ CleanInv(p)' /\ AddInv(p)'
    BY <1>1, <2>1 DEF ReadInv, ListInv, CleanInv, AddInv
  <2> QED BY <2>2, <2>4, <2>6, <2>7 DEF ProcInv
<1>4. CASE ReadEnd(p) /\ ~Fails(p, "failed")
  <2>1. /\ pc[p] = "readdir" /\ pc'[p] = "next" /\ seen[p] = Names
        /\ UNCHANGED <<link, file, cmd, seen, todo, out, oom, kept, renamed>>
    BY <1>4 DEF ReadEnd
  <2>2. LinkInv'
    BY <2>1 DEF LinkInv, Linked, Fits
  <2>3. /\ out[p] = {} /\ oom[p] = {} /\ Waiting(p)' = Waiting(p) /\ Listed(p)' = {}
        /\ good'[p] \cup stale'[p] \subseteq Hidden \cup Waiting(p)
    <3>1. good[p] \subseteq Names /\ stale[p] \subseteq Names
      OBVIOUS
    <3>2. out[p] = {} /\ oom[p] = {} /\ good[p] \cup stale[p] \subseteq Hidden \cup Waiting(p)
      BY <1>1, <2>1, <3>1 DEF ReadInv
    <3> QED BY <2>1, <3>2, OwnHistories DEF Waiting, Listed
  <2>4. TodoInv(p)' /\ ReadInv(p)' /\ AddInv(p)'
    BY <1>1, <2>1, <2>3 DEF TodoInv, ReadInv, AddInv
  <2>5. ListInv(p)' /\ CleanInv(p)'
    BY <1>1, <2>1, <2>3 DEF ListInv, CleanInv
  <2> QED BY <2>2, <2>4, <2>5 DEF ProcInv
<1> QED BY <1>2, <1>3, <1>4

\* The name in hand is dealt with: it waits no longer.
LEMMA Moved ==
  ASSUME Inv, NEW p \in Procs, todo[p] # <<>>, todo'[p] = Tail(todo[p]), seen' = seen,
         pc'[p] # "idle"
  PROVE  /\ TodoInv(p)' /\ Waiting(p)' = Waiting(p) \ {Head(todo[p])}
         /\ Head(todo[p]) \in Waiting(p) /\ Head(todo[p]) \in Names \ Hidden
<1>1. todo[p] \in Seq(Names \ Hidden) /\ NoDuplicates(todo[p]) /\ Waiting(p) \subseteq seen[p]
  BY DEF Inv, TypeInv, TypeOK, DirInv, ProcInv, TodoInv
<1>2. /\ NoDuplicates(Tail(todo[p])) /\ Head(todo[p]) \in Elements(todo[p])
      /\ Elements(Tail(todo[p])) = Elements(todo[p]) \ {Head(todo[p])}
  BY <1>1, TailElements
<1>3. Head(todo[p]) \in Names \ Hidden
  BY <1>1, HeadTailProperties
<1> QED BY <1>1, <1>2, <1>3 DEF TodoInv, Waiting

\* list prints the name in the file that the link points to (mods.c:119-134).
LEMMA OwnLists ==
  ASSUME Inv, Observes, NEW p \in Procs, ListLoad(p)
  PROVE  LinkInv' /\ ProcInv(p)'
<1> DEFINE n == Head(todo[p])
           e == [link |-> n, name |-> file[link[modules_path][n]], file |-> link[modules_path][n]]
<1>1. TodoInv(p) /\ ReadInv(p) /\ ListInv(p) /\ CleanInv(p) /\ AddInv(p) /\ LinkInv
  BY DEF Inv, DirInv, ProcInv
<1>2. /\ pc[p] = "next" /\ pc' = pc /\ cmd[p].op = "list" /\ todo[p] # <<>> /\ Loads(n)
      /\ todo'[p] = Tail(todo[p]) /\ out'[p] = out[p] \cup {e}
      /\ UNCHANGED <<link, file, cmd, seen, oom, kept, renamed>>
  BY DEF Inv, TypeInv, TypeOK, ListLoad, Loading, Moves
<1>3. /\ TodoInv(p)' /\ Waiting(p)' = Waiting(p) \ {n} /\ n \in Waiting(p) /\ n \in Names
  BY <1>2, Moved
<1>4. n \notin stale'[p] /\ good'[p] \subseteq good[p] /\ stale'[p] \subseteq stale[p]
  <2>1. \A m : Loads(m) => ~Dangles(m)'
    BY <1>2 DEF Loads, Linked, Dangles
  <2> HIDE DEF n
  <2> QED BY <1>2, <2>1, OwnHistories
<1>5. e.name = e.link \/ e.file \in renamed
  BY <1>1, <1>2, <1>3 DEF LinkInv, Fits, Loads
<1>6. Listed(p)' = Listed(p) \cup {n} /\ \A d \in out[p] : d.link # n
  <2>1. e.link = n
    OBVIOUS
  <2> HIDE DEF e
  <2>2. Listed(p)' = Listed(p) \cup {n}
    BY <1>2, <2>1 DEF Listed
  <2>3. n \notin Listed(p)
    BY <1>1, <1>2, <1>3 DEF ListInv
  <2> QED BY <2>2, <2>3 DEF Listed
<1>7. LinkInv'
  BY <1>1, <1>2 DEF LinkInv, Linked, Fits
<1>8. ListInv(p)'
  <2>1. e.link = n
    OBVIOUS
  <2> HIDE DEF n, e
  <2>2. /\ good'[p] \cup stale'[p] \subseteq Hidden \cup Waiting(p)' \cup Listed(p)'
        /\ stale'[p] \cap Listed(p)' = {}
        /\ Waiting(p)' \cap Listed(p)' = {}
    BY <1>1, <1>2, <1>3, <1>4, <1>6 DEF ListInv
  <2>3. \A d \in out'[p] : d.name = d.link \/ d.file \in renamed'
    BY <1>1, <1>2, <1>5 DEF ListInv
  <2>4. \A c, d \in out'[p] : c.link = d.link => c = d
    BY <1>1, <1>2, <1>6, <2>1 DEF ListInv
  <2> QED BY <1>2, <2>2, <2>3, <2>4 DEF ListInv
<1>9. ReadInv(p)' /\ CleanInv(p)' /\ AddInv(p)'
  BY <1>2 DEF ReadInv, CleanInv, AddInv
<1> QED BY <1>3, <1>7, <1>8, <1>9 DEF ProcInv

\* clean unlinks a name that it could not load (mods.c:157-176).
LEMMA OwnCleans ==
  ASSUME Inv, Observes, NEW p \in Procs,
         CleanLoad(p) \/ CleanFinds(p) \/ CleanUnlinks(p) \/ Finish(p)
  PROVE  LinkInv' /\ ProcInv(p)'
<1> DEFINE n == Head(todo[p])
<1> USE DEF Goes, Loading, Moves
<1>1. TodoInv(p) /\ ReadInv(p) /\ ListInv(p) /\ CleanInv(p) /\ AddInv(p) /\ LinkInv
  BY DEF Inv, DirInv, ProcInv
<1>2. TypeOK /\ Control
  BY DEF Inv, TypeInv
<1>3. CASE CleanLoad(p)
  <2>1. /\ pc[p] = "next" /\ pc' = pc /\ cmd[p].op = "clean" /\ todo[p] # <<>> /\ Loads(n)
        /\ todo'[p] = Tail(todo[p])
        /\ UNCHANGED <<link, file, cmd, seen, oom, out, kept, renamed>>
    BY <1>2, <1>3 DEF TypeOK, CleanLoad
  <2>2. /\ TodoInv(p)' /\ Waiting(p)' = Waiting(p) \ {n}
    BY <2>1, Moved
  <2>3. n \notin stale'[p] /\ good'[p] \subseteq good[p] /\ stale'[p] \subseteq stale[p]
    <3>1. \A m : Loads(m) => ~Dangles(m)'
      BY <2>1 DEF Loads, Linked, Dangles
    <3> HIDE DEF n
    <3> QED BY <2>1, <3>1, OwnHistories
  <2>4. LinkInv'
    BY <1>1, <2>1 DEF LinkInv, Linked, Fits
  <2> HIDE DEF n
  <2>5. CleanInv(p)'
    BY <1>1, <2>1, <2>2, <2>3 DEF CleanInv
  <2>6. ReadInv(p)' /\ ListInv(p)' /\ AddInv(p)'
    BY <2>1 DEF ReadInv, ListInv, AddInv
  <2> QED BY <2>2, <2>4, <2>5, <2>6 DEF ProcInv
<1>4. CASE CleanFinds(p)
  <2>1. /\ pc[p] = "next" /\ pc'[p] = "unlink" /\ cmd[p].op = "clean" /\ todo[p] # <<>>
        /\ out'[p] = out[p] \cup {n}
        /\ UNCHANGED <<link, file, cmd, seen, todo, kept, renamed>>
    BY <1>2, <1>4 DEF TypeOK, CleanFinds
  <2>2. (~Loads(n) /\ oom'[p] = oom[p]) \/ oom'[p] = oom[p] \cup {n}
    BY <1>2, <1>4 DEF TypeOK, CleanFinds
  <2>3. /\ good'[p] \subseteq good[p] /\ stale'[p] \subseteq stale[p]
        /\ n \in good'[p] => Loads(n)
    BY <2>1, OwnHistories DEF Loads, Linked
  <2>4. LinkInv' /\ Waiting(p)' = Waiting(p)
    BY <1>1, <2>1 DEF LinkInv, Linked, Fits, Waiting
  <2>5. CleanInv(p)'
    <3>1. good'[p] \cap out'[p] \subseteq oom'[p]
      BY <1>1, <2>1, <2>2, <2>3 DEF CleanInv
    <3>2. stale'[p] \subseteq Hidden \cup Waiting(p)' \cup kept'[p]
      BY <1>1, <2>1, <2>2, <2>3, <2>4 DEF CleanInv
    <3> QED BY <2>1, <3>1, <3>2 DEF CleanInv
  <2>6. TodoInv(p)' /\ ReadInv(p)' /\ ListInv(p)' /\ AddInv(p)'
    BY <1>1, <2>1, <2>4 DEF TodoInv, ReadInv, ListInv, AddInv
  <2> QED BY <2>4, <2>5, <2>6 DEF ProcInv
<1>5. CASE CleanUnlinks(p)
  <2>1. /\ pc[p] = "unlink" /\ pc'[p] = "next" /\ cmd[p].op = "clean" /\ todo[p] # <<>>
        /\ todo'[p] = Tail(todo[p])
        /\ UNCHANGED <<file, cmd, seen, out, oom, renamed>>
    BY <1>2, <1>5 DEF TypeOK, Control, CleanUnlinks
  <2>2. /\ TodoInv(p)' /\ Waiting(p)' = Waiting(p) \ {n} /\ n \in Names
    BY <2>1, Moved
  <2>3. \/ link' = [link EXCEPT ![modules_path][n] = None] /\ kept'[p] = kept[p]
        \/ link' = link /\ kept'[p] = kept[p] \cup {n}
    BY <1>2, <1>5 DEF TypeOK, CleanUnlinks, Unlinks
  <2> HIDE DEF n
  <2>4. /\ good'[p] \subseteq good[p] /\ stale'[p] \subseteq stale[p]
        /\ \A m \in stale'[p] : Linked(m)'
    BY <2>1, OwnHistories DEF Dangles
  <2>5. n \in stale'[p] => n \in kept'[p]
    BY <1>2, <2>2, <2>3, <2>4 DEF Linked, TypeOK
  <2>6. LinkInv'
    BY <1>1, <1>2, <2>1, <2>2, <2>3 DEF LinkInv, Linked, Fits, TypeOK
  <2>7. kept[p] \subseteq kept'[p]
    BY <2>3
  <2>8. CleanInv(p)'
    <3>1. good'[p] \cap out'[p] \subseteq oom'[p]
      BY <1>1, <2>1, <2>4 DEF CleanInv
    <3>2. stale'[p] \subseteq Hidden \cup Waiting(p)' \cup kept'[p]
      BY <1>1, <2>1, <2>2, <2>4, <2>5, <2>7 DEF CleanInv
    <3> QED BY <2>1, <3>1, <3>2 DEF CleanInv
  <2>9. ReadInv(p)' /\ ListInv(p)' /\ AddInv(p)'
    BY <2>1 DEF ReadInv, ListInv, AddInv
  <2> QED BY <2>2, <2>6, <2>8, <2>9 DEF ProcInv
<1>6. CASE Finish(p)
  <2>1. /\ pc[p] = "next" /\ pc'[p] = "ok" /\ todo[p] = <<>>
        /\ UNCHANGED <<link, file, cmd, seen, todo, out, oom, kept, renamed>>
    BY <1>2, <1>6 DEF TypeOK, Finish, Jumps, memory
  <2>2. good'[p] \subseteq good[p] /\ stale'[p] \subseteq stale[p]
    BY <2>1, OwnHistories
  <2>3. LinkInv' /\ Waiting(p)' = Waiting(p) /\ Listed(p)' = Listed(p)
    BY <1>1, <2>1 DEF LinkInv, Linked, Fits, Waiting, Listed
  <2>4. TodoInv(p)' /\ ReadInv(p)' /\ AddInv(p)'
    BY <1>1, <2>1, <2>3 DEF TodoInv, ReadInv, AddInv
  <2>5. ListInv(p)' /\ CleanInv(p)'
    BY <1>1, <2>1, <2>2, <2>3 DEF ListInv, CleanInv
  <2> QED BY <2>3, <2>4, <2>5 DEF ProcInv
<1> QED BY <1>3, <1>4, <1>5, <1>6

\* A step of a command keeps the invariant of the directory and of every process.
LEMMA DirActs ==
  ASSUME Inv, Observes, NEW p \in Procs, Acts(p)
  PROVE  DirInv'
<1>1. LinkInv' /\ ProcInv(p)'
  BY OwnFails, OwnAdds, OwnReads, OwnLists, OwnCleans DEF Acts, Die, ListFails
<1>2. ASSUME NEW q \in Procs, q # p PROVE ProcInv(q)'
  <2>1. Apart(q) /\ file' = file /\ renamed' = renamed
    BY <1>2, OthersApart DEF Inv
  <2>2. pc[q] # "idle" => good'[q] \subseteq good[q] /\ stale'[q] \subseteq stale[q]
    BY Histories DEF Inv, TypeInv
  <2>3. \A n, f : Fits(n, f) => Fits(n, f)'
    BY <2>1 DEF Fits
  <2>4. ProcInv(q)
    BY DEF Inv, DirInv
  <2> QED BY <2>1, <2>2, <2>3, <2>4, RestKept
<1> QED BY <1>1, <1>2 DEF DirInv

\* A module file rebuilt, perhaps under another name.
LEMMA DirBuild ==
  ASSUME Inv, Observes, NEW f \in Files, NEW name \in Names \cup {Broken}, Build(f, name)
  PROVE  DirInv'
<1>1. /\ file' = [file EXCEPT ![f] = name] /\ file \in [Files -> Names \cup {Broken}]
      /\ renamed' = IF name = Broken THEN renamed ELSE renamed \cup {f}
      /\ UNCHANGED <<link, cmd, pc, seen, todo, out, oom, kept>>
  BY DEF Inv, TypeInv, TypeOK, Build, memory
<1>2. ASSUME NEW n, NEW g \in Files, Fits(n, g) PROVE Fits(n, g)'
  BY <1>1, <1>2 DEF Fits
<1>3. LinkInv'
  <2> SUFFICES ASSUME NEW n \in Names, Linked(n)' PROVE Fits(n, link[modules_path][n])'
    BY DEF LinkInv
  <2>1. Linked(n) /\ link[modules_path][n] \in Files
    BY <1>1 DEF Linked, Inv, TypeInv, TypeOK
  <2>2. Fits(n, link[modules_path][n])
    BY <2>1 DEF Inv, DirInv, LinkInv
  <2> QED BY <1>1, <1>2, <2>1, <2>2 DEF Fits
<1>4. ASSUME NEW q \in Procs PROVE ProcInv(q)'
  <2>1. ProcInv(q) /\ Apart(q) /\ renamed \subseteq renamed'
    BY <1>1 DEF Apart, Inv, DirInv
  <2>2. pc[q] # "idle" => good'[q] \subseteq good[q] /\ stale'[q] \subseteq stale[q]
    BY Histories DEF Inv, TypeInv
  <2>3. pc[q] = "symlink" => cmd[q].what \in Files
    BY CommandTypes DEF Inv, TypeInv, TypeOK, Control
  <2>4. pc[q] = "symlink" => \A n, g : g = cmd[q].what /\ Fits(n, g) => Fits(n, g)'
    BY <1>2, <2>3
  <2> QED BY <2>1, <2>2, <2>4, RestKept
<1> QED BY <1>3, <1>4 DEF DirInv

\* A step that changes nothing.
LEMMA DirStutter ==
  ASSUME Inv, UNCHANGED vars
  PROVE  DirInv'
<1>1. LinkInv'
  BY DEF Inv, DirInv, LinkInv, Linked, Fits, vars
<1>2. ASSUME NEW q \in Procs PROVE ProcInv(q)'
  <2>1. ProcInv(q) /\ Apart(q) /\ renamed \subseteq renamed' /\ good' = good /\ stale' = stale
    BY DEF Inv, DirInv, Apart, vars, memory, history
  <2>2. \A n, f : Fits(n, f) => Fits(n, f)'
    BY DEF Fits, vars
  <2> QED BY <2>1, <2>2, RestKept
<1> QED BY <1>1, <1>2 DEF DirInv

\* The invariant of the directory and of every process beside it.
THEOREM InvAlways == Spec => []Inv
<1>1. Init => Inv
  BY TypeInit, DirInit DEF Inv
<1>2. Inv /\ [Next]_vars => Inv'
  <2> SUFFICES ASSUME Inv, [Next]_vars PROVE Inv'
    OBVIOUS
  <2>1. TypeInv'
    BY TypeNext DEF Inv
  <2>2. DirInv'
    BY DirActs, DirBuild, DirStutter DEF Next, Acts
  <2> QED BY <2>1, <2>2 DEF Inv
<1> QED BY <1>1, <1>2, PTL DEF Spec

\* A list that succeeds is complete, and names no broken module, whatever is
\* added, removed or rebuilt while it runs (installed_mods, mods.c:119-137).
THEOREM ListIsComplete == Spec => []ListComplete
<1>1. Inv => ListComplete
  BY EmptySeq DEF Inv, DirInv, ProcInv, ListInv, ListComplete, Waiting, Elements
<1> QED BY <1>1, InvAlways, PTL

\* The names that list prints are the names of the links, but for files that
\* were rebuilt under another name (prom-module.c:125, mods.c:49 and 81-86).
THEOREM ListedNamesCanBeRemoved == Spec => []PrintedCanBeRemoved
<1>1. Inv => PrintedCanBeRemoved
  BY DEF Inv, DirInv, ProcInv, ListInv, PrintedCanBeRemoved
<1> QED BY <1>1, InvAlways, PTL

\* A clean that succeeds leaves no link that was broken all the time but those
\* whose remove() failed (mods.c:175), and reports none that was fine all the
\* time, unless memory ran out when it was loaded (mods.c:157-180).
THEOREM CleanIsComplete == Spec => []CleanComplete
<1>1. Inv => CleanComplete
  BY EmptySeq DEF Inv, DirInv, ProcInv, CleanInv, CleanComplete, Waiting, Elements
<1> QED BY <1>1, InvAlways, PTL

\* No step of clean removes a link that was loadable all the time, unless memory
\* ran out for its name (mods.c:157-176).
THEOREM CleanSparesTheGood == Spec => CleanSpares
<1>1. Inv /\ [Next]_vars =>
        [\A p \in Procs : pc[p] = "unlink" /\ pc'[p] = "next" /\ link' # link =>
           Head(todo[p]) \notin good[p] \/ Head(todo[p]) \in oom[p]]_vars
  BY DEF Inv, TypeInv, Control, DirInv, ProcInv, CleanInv
<1> QED BY <1>1, InvAlways, PTL DEF Spec, CleanSpares
=============================================================================
