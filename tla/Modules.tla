------------------------------ MODULE Modules ------------------------------
(***************************************************************************)
(* The directory of modules (modules/mods.c) and the processes that run a  *)
(* `prom module` command on it (prom-module.c), one system call at a time. *)
(* A module is installed by a symbolic link to its file; the name of the   *)
(* link is the one that the file exports. Files are rebuilt and broken by  *)
(* whoever develops them, and a process may die between any two calls.     *)
(***************************************************************************)
EXTENDS Integers, Sequences

CONSTANTS
  Procs,
  Names,      \* names of links, and of modules
  Hidden,     \* those that begin with a dot: dir_content passes them over
  Files,      \* shared objects
  None,       \* no link of that name
  Broken,     \* what a file that does not load exports
  Cwd,        \* the directory that the commands are run in
  MaxBuilds   \* bound on the changes of files

ASSUME ModulesAssumption ==
  /\ Hidden \subseteq Names /\ None \notin Files /\ Broken \notin Names
  /\ MaxBuilds \in Nat

VARIABLES
  link,    \* for each directory and name, the file that the link points to
  file,    \* the name that each file exports
  builds,  \* changes of files so far
  cmd,     \* the command of each process
  pc,
  seen,    \* entries that its readdir has passed
  todo,    \* names that it has read and not loaded yet
  out,     \* what it prints when it ends
  oom,     \* history: names that it could not load for lack of memory
  kept,    \* history: names whose link it tried to remove and could not
  good,    \* history: names that have been linked and loadable since it started
  stale,   \* history: names that have been linked and not loadable since then
  renamed, \* history: files that were rebuilt under another name
  added    \* history: names added, and not removed, by the commands

memory  == <<seen, todo, out, oom, kept>>
history == <<good, stale>>
vars    == <<link, file, builds, cmd, pc, memory, history, renamed, added>>

modules_path == "modules"

Commands ==
  [op : {"add"}, what : Files] \cup [op : {"remove"}, what : Names]
    \cup [op : {"list", "clean"}, what : {None}]

Linked(n)  == link[modules_path][n] # None
Loads(n)   == Linked(n) /\ file[link[modules_path][n]] # Broken
Dangles(n) == Linked(n) /\ ~Loads(n)

\* Links that earlier commands have left; the files may be broken since then.
Init ==
  /\ link \in [{Cwd, modules_path} -> [Names -> Files \cup {None}]]
  /\ file \in [Files -> Names \cup {Broken}]
  /\ \A n \in Names : Linked(n) => file[link[modules_path][n]] \in {n, Broken}
  /\ builds = 0
  /\ cmd \in [Procs -> Commands]
  /\ pc = [p \in Procs |-> "idle"]
  /\ seen = [p \in Procs |-> {}] /\ todo = [p \in Procs |-> <<>>]
  /\ out = [p \in Procs |-> {}]
  /\ oom = [p \in Procs |-> {}] /\ kept = [p \in Procs |-> {}]
  /\ good = [p \in Procs |-> {}] /\ stale = [p \in Procs |-> {}]
  /\ renamed = {} /\ added = {}

Goes(p, l) == pc' = [pc EXCEPT ![p] = l]

Jumps(p, l) ==
  Goes(p, l) /\ UNCHANGED <<link, file, builds, cmd, memory, renamed, added>>

\* The command ends without success and prints none of its names.
Fails(p, status) ==
  /\ Goes(p, status)
  /\ seen' = [seen EXCEPT ![p] = {}] /\ todo' = [todo EXCEPT ![p] = <<>>]
  /\ out' = [out EXCEPT ![p] = {}]
  /\ oom' = [oom EXCEPT ![p] = {}] /\ kept' = [kept EXCEPT ![p] = {}]
  /\ UNCHANGED <<link, file, builds, cmd, renamed, added>>
-----------------------------------------------------------------------------
(* prom-module.c: a command starts; add and remove.                        *)

First(op) ==
  CASE op = "add" -> "load" [] op = "remove" -> "remove" [] OTHER -> "readdir"

Start(p) == pc[p] = "idle" /\ Jumps(p, First(cmd[p].op))

\* abs_path may fail, and the file may not be a module. The name that it
\* exports is taken from the image that was loaded.
AddLoad(p) ==
  /\ pc[p] = "load"
  /\ \/ Fails(p, "failed")
     \/ /\ file[cmd[p].what] # Broken
        /\ out' = [out EXCEPT ![p] = {file[cmd[p].what]}]
        /\ Goes(p, "symlink")
        /\ UNCHANGED <<link, file, builds, cmd, seen, todo, oom, kept, renamed, added>>

\* Faulty variant: the link is not named as the module is.
AddLinkAnyName(p) ==
  /\ pc[p] = "symlink"
  /\ \E n \in Names :
       /\ link[Cwd][n] = None
       /\ link' = [link EXCEPT ![Cwd][n] = cmd[p].what]
       /\ added' = added \cup {n}
       /\ Goes(p, "ok")
       /\ UNCHANGED <<file, builds, cmd, memory, renamed>>

\* The path that hides modules_path in cmd_arg_add is empty: the link is made
\* in the working directory. symlink fails if the name is taken (or, with no
\* memory for the path, for its NULL argument).
AddLink(p) ==
  /\ pc[p] = "symlink"
  /\ \/ Fails(p, "failed")
     \/ \E n \in out[p] :
          /\ link[Cwd][n] = None
          /\ link' = [link EXCEPT ![Cwd][n] = cmd[p].what]
          /\ added' = added \cup {n}
          /\ Goes(p, "ok")
          /\ UNCHANGED <<file, builds, cmd, memory, renamed>>

Unlinks(n) ==
  /\ link' = [link EXCEPT ![modules_path][n] = None]
  /\ added' = added \ {n}

Remove(p) ==
  /\ pc[p] = "remove"
  /\ \/ Fails(p, "failed")
     \/ /\ Linked(cmd[p].what)
        /\ Unlinks(cmd[p].what)
        /\ Goes(p, "ok")
        /\ UNCHANGED <<file, builds, cmd, memory, renamed>>
-----------------------------------------------------------------------------
(* list and list --clean: dir_content, then the modules one by one.        *)

\* Faulty variant: names with a dot are read as well.
ReadEntryDots(p, n) ==
  /\ pc[p] = "readdir" /\ n \notin seen[p]
  /\ seen' = [seen EXCEPT ![p] = @ \cup {n}]
  /\ todo' = [todo EXCEPT ![p] = IF Linked(n) THEN Append(@, n) ELSE @]
  /\ UNCHANGED <<link, file, builds, cmd, pc, out, oom, kept, renamed, added>>

\* readdir meets every entry at a time of its own.
ReadEntry(p, n) ==
  /\ pc[p] = "readdir" /\ n \notin seen[p]
  /\ seen' = [seen EXCEPT ![p] = @ \cup {n}]
  /\ todo' = [todo EXCEPT ![p] = IF Linked(n) /\ n \notin Hidden THEN Append(@, n) ELSE @]
  /\ UNCHANGED <<link, file, builds, cmd, pc, out, oom, kept, renamed, added>>

ReadEnd(p) ==
  pc[p] = "readdir" /\ (Fails(p, "failed") \/ (seen[p] = Names /\ Jumps(p, "next")))

\* load_module of the next name. With no memory for its path, dlopen(NULL)
\* opens prom itself, which exports no `name`.
Loading(p, op) == pc[p] = "next" /\ cmd[p].op = op /\ todo[p] # <<>>

Moves(p) == todo' = [todo EXCEPT ![p] = Tail(@)]

ListLoad(p) ==
  /\ Loading(p, "list")
  /\ Loads(Head(todo[p]))
  /\ Moves(p)
  /\ LET n == Head(todo[p]) IN
     out' = [out EXCEPT ![p] = @ \cup {[link |-> n, name |-> file[link[modules_path][n]],
                                        file |-> link[modules_path][n]]}]
  /\ UNCHANGED <<link, file, builds, cmd, pc, seen, oom, kept, renamed, added>>

\* Faulty variant: a module that does not load is left out of the list.
ListSkips(p) ==
  /\ Loading(p, "list") /\ ~Loads(Head(todo[p]))
  /\ Moves(p)
  /\ UNCHANGED <<link, file, builds, cmd, pc, seen, out, oom, kept, renamed, added>>

\* One module that does not load (or no memory, or a fault), and nothing is
\* listed.
ListFails(p) == Loading(p, "list") /\ Fails(p, "failed")

CleanLoad(p) ==
  /\ Loading(p, "clean")
  /\ Loads(Head(todo[p]))
  /\ Moves(p)
  /\ UNCHANGED <<link, file, builds, cmd, pc, seen, out, oom, kept, renamed, added>>

\* Faulty variant: a module is taken for damaged without looking at the error.
CleanFindsAll(p) ==
  /\ Loading(p, "clean")
  /\ out' = [out EXCEPT ![p] = @ \cup {Head(todo[p])}]
  /\ Goes(p, "unlink")
  /\ UNCHANGED <<link, file, builds, cmd, seen, todo, oom, kept, renamed, added>>

CleanFinds(p) ==
  /\ Loading(p, "clean")
  /\ \/ ~Loads(Head(todo[p])) /\ UNCHANGED oom
     \/ oom' = [oom EXCEPT ![p] = @ \cup {Head(todo[p])}]
  /\ out' = [out EXCEPT ![p] = @ \cup {Head(todo[p])}]
  /\ Goes(p, "unlink")
  /\ UNCHANGED <<link, file, builds, cmd, seen, todo, kept, renamed, added>>

\* Faulty variant: the name after one that was removed is passed over.
CleanUnlinksSkips(p) ==
  /\ pc[p] = "unlink"
  /\ Unlinks(Head(todo[p])) /\ Goes(p, "next")
  /\ todo' = [todo EXCEPT ![p] = IF Len(@) > 1 THEN Tail(Tail(@)) ELSE <<>>]
  /\ UNCHANGED <<file, builds, cmd, seen, out, oom, kept, renamed>>

\* rm_module removes whatever the name is now, if it is anything. Its result is
\* not looked at: remove may fail (or have no path, for lack of memory), and the
\* command goes on and prints the name all the same.
CleanUnlinks(p) ==
  /\ pc[p] = "unlink"
  /\ \/ Unlinks(Head(todo[p])) /\ UNCHANGED kept
     \/ kept' = [kept EXCEPT ![p] = @ \cup {Head(todo[p])}] /\ UNCHANGED <<link, added>>
  /\ Moves(p) /\ Goes(p, "next")
  /\ UNCHANGED <<file, builds, cmd, seen, out, oom, renamed>>

Finish(p) == pc[p] = "next" /\ todo[p] = <<>> /\ Jumps(p, "ok")
-----------------------------------------------------------------------------
Ended == {"ok", "failed", "dead"}

\* Killed; the faults of dir_content and of dga end the process as well.
Die(p) == pc[p] \notin Ended \cup {"idle"} /\ Fails(p, "dead")

Build(f, name) ==
  /\ builds < MaxBuilds /\ name # file[f]
  /\ builds' = builds + 1
  /\ file' = [file EXCEPT ![f] = name]
  /\ renamed' = IF name = Broken THEN renamed ELSE renamed \cup {f}
  /\ UNCHANGED <<link, cmd, pc, memory, added>>

\* What held all the time: for a process that has started and not ended.
Observed(before, now) == [p \in Procs |->
  CASE pc'[p] \in {"failed", "dead"} -> {}
    [] pc[p] = "idle"                -> now
    [] pc[p] = "ok"                  -> before[p]
    [] OTHER                         -> before[p] \cap now]

Observes ==
  /\ good' = Observed(good, {n \in Names : Loads(n)'})
  /\ stale' = Observed(stale, {n \in Names : Dangles(n)'})

Next ==
  \/ \E p \in Procs :
       \/ Start(p) /\ Observes
       \/ AddLoad(p) /\ Observes
       \/ AddLink(p) /\ Observes
       \/ Remove(p) /\ Observes
       \/ \E n \in Names : ReadEntry(p, n) /\ Observes
       \/ ReadEnd(p) /\ Observes
       \/ ListLoad(p) /\ Observes
       \/ ListFails(p) /\ Observes
       \/ CleanLoad(p) /\ Observes
       \/ CleanFinds(p) /\ Observes
       \/ CleanUnlinks(p) /\ Observes
       \/ Finish(p) /\ Observes
       \/ Die(p) /\ Observes
  \/ \E f \in Files, n \in Names \cup {Broken} : Build(f, n) /\ Observes

Spec == Init /\ [][Next]_vars
-----------------------------------------------------------------------------
Entries == [link : Names, name : Names, file : Files]

Places  == Ended \cup {"idle", "load", "symlink", "remove", "readdir", "next", "unlink"}

TypeOK ==
  /\ link \in [{Cwd, modules_path} -> [Names -> Files \cup {None}]]
  /\ file \in [Files -> Names \cup {Broken}]
  /\ builds \in 0 .. MaxBuilds
  /\ cmd \in [Procs -> Commands] /\ pc \in [Procs -> Places]
  /\ seen \in [Procs -> SUBSET Names]
  /\ oom \in [Procs -> SUBSET Names] /\ kept \in [Procs -> SUBSET Names]
  /\ todo \in [Procs -> Seq(Names \ Hidden)]
  /\ out \in [Procs -> SUBSET (Entries \cup Names)]
  /\ \A p \in Procs :
       /\ out[p] \subseteq IF cmd[p].op = "list" THEN Entries ELSE Names
       /\ pc[p] = "unlink" => todo[p] # <<>>
  /\ good \in [Procs -> SUBSET Names] /\ stale \in [Procs -> SUBSET Names]
  /\ renamed \subseteq Files /\ added \subseteq Names

Listed(p) == {e.link : e \in out[p]}

\* A list that succeeds has printed every module that was installed and loadable
\* while it ran, and none was broken all that time, whatever other commands did
\* meanwhile (installed_mods, mods.c:119-137; names with a dot apart).
ListComplete == \A p \in Procs : cmd[p].op = "list" /\ pc[p] = "ok" =>
  /\ good[p] \ Hidden \subseteq Listed(p)
  /\ stale[p] \subseteq Hidden

\* Two entries of a list never come from one link, and the name printed is the
\* one to give to `remove`, unless the file was rebuilt under another name
\* (prom-module.c:125, mods.c:49 and 81-86).
PrintedCanBeRemoved == \A p \in Procs : cmd[p].op = "list" =>
  /\ \A e \in out[p] : e.name = e.link \/ e.file \in renamed
  /\ \A d, e \in out[p] : d.link = e.link => d = e

\* list --clean takes away a link only if it dangled at some time during the
\* run; a module that was installed and loadable all the time is spared, unless
\* there was no memory for the path of its name (mods.c:157-176).
CleanSpares ==
  [][\A p \in Procs : pc[p] = "unlink" /\ pc'[p] = "next" /\ link' # link =>
       Head(todo[p]) \notin good[p] \/ Head(todo[p]) \in oom[p]]_vars

\* When list --clean succeeds, it has tried to remove every link that was broken
\* all the time: one that is left is one whose remove() failed, which the code
\* does not notice (mods.c:175). And it reports the removal of no module that was
\* fine all the time, unless memory ran out when it loaded it
\* (clean_ul_mod_names, mods.c:157-180).
CleanComplete == \A p \in Procs : cmd[p].op = "clean" /\ pc[p] = "ok" =>
  /\ stale[p] \subseteq Hidden \cup kept[p]
  /\ good[p] \cap out[p] \subseteq oom[p]

\* What `add` reports as added is listed until it is removed: the usage text
\* says that add adds a namespace and list lists all modules
\* (prom-module.c:134-138).
AddedIsLinked == \A n \in added : Linked(n)
=============================================================================
