----------------------------- MODULE Filesystem -----------------------------
(***************************************************************************)
(* abs_path and dir_content (filesystem/filesystem.c) with the growing     *)
(* array that they build (dga/dga.c), on top of errm: every edf function   *)
(* is a function of Errm, and a step that touches the error code or the    *)
(* defer stack is a step of that module. Each external call may fail.      *)
(*                                                                         *)
(* No call is recursive, so blocks of the heap are named by what they      *)
(* hold. An argument of a defer is found by the defer's number.            *)
(***************************************************************************)
EXTENDS Integers, SequencesExt

CONSTANTS StackSize, MaxDyn, MaxStatic, PoolSize, Sizes, Errors, Errnos, MaxDefers,
  WordexpSize,  \* sizeof(wordexp_t)
  MaxNames,     \* bound on the entries of a directory
  MaxCalls      \* bound on the calls of the program

\* The limits of errm.h leave room for what is called here: four functions
\* deep, one defer in each, and one wordexp_t.
ASSUME FilesystemAssumption ==
  /\ StackSize \in Nat /\ StackSize >= 4
  /\ MaxDyn \in Nat \ {0} /\ MaxStatic \in Nat \ {0}
  /\ PoolSize \in Nat /\ WordexpSize \in 0 .. PoolSize
  /\ MaxDefers \in Nat /\ MaxNames \in Nat /\ MaxCalls \in Nat

VARIABLES
  err, curr, frame, phase, aborted, count, ran, said,  \* as in Errm
  fs \* at: where each function on the stack stands, the innermost one last
     \* val: the value that the last function returned, or the newest block
     \* arg: the argument of each registered defer
     \* heap: the blocks that are allocated, and the open directory
     \* lost: the blocks that are allocated and that nothing points to
     \* array: len in its header, elements its block holds, live names
     \* calls: calls made so far
     \* failed: history, the external calls that failed
     \* fault: the undefined behaviour that was reached, or "none"

E == INSTANCE Errm

errm == <<err, curr, frame, phase, aborted, count, ran, said>>
vars == <<errm, fs>>

PARSING_ERROR     == 6
NOT_ENOUGH_MEMORY == 2
NULL    == "NULL"
Blocks  == {"words", "path", "cwd", "abs", "dir", "names"}
NoNames == [len |-> 0, holds |-> 0, live |-> {}]

Init ==
  /\ E!Init
  /\ fs = [at |-> <<>>, val |-> NULL, arg |-> <<>>, heap |-> {}, lost |-> {},
           array |-> NoNames, calls |-> 0, failed |-> {}, fault |-> "none"]

At(l) == fs.at # <<>> /\ Last(fs.at) = l /\ fs.fault = "none" /\ E!Running(curr, {"body"})
To(l) == Append(Front(fs.at), l)

Errored == err # 0

\* The edf function that starts at `entry` is called; its caller goes on at l.
Call(entry, l) == E!Enter /\ fs' = [fs EXCEPT !.at = To(l) \o <<entry>>]

\* The innermost function returns v.
Return(v) == E!Return(curr) /\ fs' = [fs EXCEPT !.val = v]

\* Its block is registered to be released when it returns.
Defers(block, l) ==
  E!Defer(curr) /\ fs' = [fs EXCEPT !.arg = Append(@, block), !.at = To(l)]

Allocates(block, l) ==
  fs' = [fs EXCEPT !.heap = @ \cup {block}, !.val = block, !.at = To(l)]

\* An external call fails and gives NULL.
Fails(what, l) ==
  fs' = [fs EXCEPT !.failed = @ \cup {what}, !.val = NULL, !.at = To(l)]

Faults(what) == UNCHANGED errm /\ fs' = [fs EXCEPT !.fault = what]
-----------------------------------------------------------------------------
(* filesystem.c                                                            *)

\* emalloc gives expand its copy and abs_path_from_relative its result.
Malloc ==
  /\ At("emalloc")
  /\ \/ Allocates(IF fs.at[Len(fs.at) - 1] = "copy" THEN "path" ELSE "abs", "emalloc ends")
        /\ UNCHANGED errm
     \/ Fails("malloc", "emalloc ends") /\ E!SetError(NOT_ENOUGH_MEMORY)

Ends == {"emalloc ends", "expand ends", "abs_path ends", "open_dir ends", "dir_content ends"}

Leave == \E l \in Ends : At(l) /\ Return(fs.val)

\* wordexp fails. With WRDE_NOSPACE it keeps the words expanded so far, and
\* expand returns without the wordfree that would free them.
WordexpFails ==
  \/ Fails("wordexp", "expand ends")
  \/ fs' = [fs EXCEPT !.failed = @ \cup {"wordexp nospace"}, !.val = NULL,
                      !.lost = @ \cup {"words"}, !.at = To("expand ends")]

\* Faulty variant: expand returns NULL and sets no error.
ExpandSilent ==
  /\ At("expand")
  /\ \/ /\ E!StaticDefer(curr, WordexpSize)
        /\ fs' = [fs EXCEPT !.heap = @ \cup {"words"}, !.arg = Append(@, "words"),
                            !.at = To("first word")]
     \/ WordexpFails /\ UNCHANGED errm

Expand ==
  /\ At("expand")
  /\ \/ /\ E!StaticDefer(curr, WordexpSize)
        /\ fs' = [fs EXCEPT !.heap = @ \cup {"words"}, !.arg = Append(@, "words"),
                            !.at = To("first word")]
     \/ WordexpFails /\ E!SetError(PARSING_ERROR)

\* A path may expand to no word at all, as "" does: we_wordv[0] is NULL then.
FirstWord ==
  /\ At("first word")
  /\ \/ Call("emalloc", "copy")
     \/ UNCHANGED errm /\ fs' = [fs EXCEPT !.failed = @ \cup {"no word"}, !.fault = "NULL word"]

\* A function fills the block that emalloc returned from another one.
Fill(from) ==
  IF {fs.val, from} \subseteq fs.heap THEN Return(fs.val) ELSE Faults("dangling")

\* Faulty variant: the error of emalloc is not looked at.
CopyAnyway == At("copy") /\ Fill("words")

Copy == At("copy") /\ IF Errored THEN Return(NULL) ELSE Fill("words")

\* Faulty variant: the working directory's name is not freed.
GetcwdKept == At("relative") /\ Allocates("cwd", "join") /\ UNCHANGED errm

Getcwd ==
  /\ At("relative")
  /\ E!Defer(curr)
  /\ \E cwd \in {"cwd", NULL} :
       fs' = [fs EXCEPT !.arg = Append(@, cwd), !.val = cwd, !.at = To("join"),
                        !.heap = @ \cup ({cwd} \ {NULL}),
                        !.failed = @ \cup (IF cwd = NULL THEN {"getcwd"} ELSE {})]

Join ==
  /\ At("join")
  /\ IF fs.val = NULL THEN Faults("NULL cwd") ELSE Call("emalloc", "print")

PrintPath == At("print") /\ IF Errored THEN Return(NULL) ELSE Fill("cwd")

AbsPath == At("abs_path") /\ Call("expand", "expanded")

\* A path that does not begin with / is freed when abs_path returns.
Expanded ==
  /\ At("expanded")
  /\ \/ Errored /\ Return(NULL)
     \/ ~Errored /\ (Return(fs.val) \/ Defers(fs.val, "from relative"))

FromRelative == At("from relative") /\ Call("relative", "abs_path ends")

OpenDir == At("open_dir") /\ Call("expand", "to open")

ToOpen == At("to open") /\ IF Errored THEN Return(NULL) ELSE Defers(fs.val, "opendir")

\* errm_error_from_errno knows five values of errno; another one is no error.
Opendir ==
  /\ At("opendir")
  /\ \/ Allocates("dir", "open_dir ends") /\ UNCHANGED errm
     \/ \E e \in Errnos \cap DOMAIN E!Codes : Fails("opendir", "open_dir ends") /\ E!SetFromErrno(e)
     \/ Errnos \ DOMAIN E!Codes # {} /\ Fails("opendir silently", "open_dir ends") /\ UNCHANGED errm

DirContent == At("dir_content") /\ Call("open_dir", "opened")

Opened == At("opened") /\ IF Errored THEN Return(NULL) ELSE Defers(fs.val, "new array")

\* _dga_new returns the address behind the header even when malloc failed:
\* not NULL, and no block.
NewArray ==
  /\ At("new array")
  /\ UNCHANGED errm
  /\ \/ fs' = [fs EXCEPT !.heap = @ \cup {"names"}, !.array = NoNames, !.at = To("readdir")]
     \/ fs' = [fs EXCEPT !.failed = @ \cup {"dga_new"}, !.array = NoNames, !.at = To("readdir")]

\* Entries whose name begins with a dot are passed over.
Readdir ==
  /\ At("readdir")
  /\ \/ fs.val = NULL /\ Faults("NULL directory")
     \/ fs.val = "dir" /\ Return("names")
     \/ /\ fs.val = "dir" /\ fs.array.len < MaxNames
        /\ UNCHANGED errm /\ fs' = [fs EXCEPT !.at = To("grow")]

\* Faulty variant: the array grows twice for one entry.
Resized2(a) == [a EXCEPT !.len = @ + 2, !.holds = a.len + 2]

Resized(a) == [a EXCEPT !.len = @ + 1, !.holds = a.len + 1]

\* dga_resize stores the new length, then reallocates.
Grow ==
  /\ At("grow")
  /\ UNCHANGED errm
  /\ IF "names" \notin fs.heap
       THEN fs' = [fs EXCEPT !.fault = "NULL header"]
       ELSE \/ fs' = [fs EXCEPT !.array = Resized(@), !.at = To("new name")]
            \/ fs' = [fs EXCEPT !.array.len = @ + 1, !.failed = @ \cup {"dga_grow"},
                                !.at = To("memfail")]

\* dga_new again gives no NULL when it fails: strcpy writes behind the header
\* that is not there.
NewName ==
  /\ At("new name")
  /\ UNCHANGED errm
  /\ \/ fs' = [fs EXCEPT !.array.live = @ \cup {fs.array.len}, !.at = To("readdir")]
     \/ fs' = [fs EXCEPT !.failed = @ \cup {"dga_new"}, !.fault = "NULL header"]

Memfail == At("memfail") /\ Fails("dga_grow", "free names") /\ E!SetError(NOT_ENOUGH_MEMORY)

\* free_dir_content frees as many elements as the header says, then the array.
FreeDirContent(s) ==
  IF "names" \notin s.heap THEN [s EXCEPT !.fault = "NULL header"]
  ELSE IF s.array.len > s.array.holds THEN [s EXCEPT !.fault = "past the end"]
  ELSE [s EXCEPT !.array.live = @ \ (1 .. s.array.len), !.heap = @ \ {"names"}]

FreeNames ==
  At("free names") /\ UNCHANGED errm /\ fs' = FreeDirContent([fs EXCEPT !.at = To("dir_content ends")])
-----------------------------------------------------------------------------
(* The end of every function, and the program that calls the two.          *)

\* free(NULL) and closedir(NULL) do nothing.
Releases(n) ==
  LET b == fs.arg[n + 1] IN
  fs' = [fs EXCEPT !.heap = @ \ {b},
                   !.fault = IF b \in fs.heap \cup {NULL} THEN @ ELSE "freed twice"]

Unwind ==
  /\ fs.fault = "none" /\ fs.at # <<>>
  /\ \/ E!RunStatic(curr) /\ Releases(Last(frame[curr].stat).num)
     \/ E!RunDynamic(curr) /\ Releases(Last(frame[curr].dyn))
     \/ (E!StaticDone(curr) \/ E!HandlerReturns(curr)) /\ UNCHANGED fs
     \/ E!Pop(curr) /\ fs' = [fs EXCEPT !.at = Front(@)]

Idle == fs.at = <<>> /\ fs.fault = "none"

Start(f) ==
  /\ Idle /\ fs.val = NULL /\ fs.calls < MaxCalls
  /\ E!Enter
  /\ fs' = [fs EXCEPT !.at = <<f>>, !.calls = @ + 1]

\* The caller has used the value and frees it.
Release ==
  /\ Idle /\ fs.val # NULL
  /\ UNCHANGED errm
  /\ LET s == [fs EXCEPT !.val = NULL] IN
     fs' = IF fs.val = "names" THEN FreeDirContent(s) ELSE [s EXCEPT !.heap = @ \ {fs.val}]

\* The program has ended, or its behaviour is undefined from here on.
Over ==
  /\ fs.fault # "none" \/ (Idle /\ fs.val = NULL /\ fs.calls = MaxCalls)
  /\ UNCHANGED vars

Next ==
  \/ Malloc \/ Leave \/ Expand \/ FirstWord \/ Copy \/ Getcwd \/ Join \/ PrintPath
  \/ AbsPath \/ Expanded \/ FromRelative \/ OpenDir \/ ToOpen \/ Opendir
  \/ DirContent \/ Opened \/ NewArray \/ Readdir \/ Grow \/ NewName \/ Memfail \/ FreeNames
  \/ Unwind \/ Release \/ Over \/ \E f \in {"abs_path", "dir_content"} : Start(f)

Spec == Init /\ [][Next]_vars
-----------------------------------------------------------------------------
TypeOK ==
  /\ fs.val \in Blocks \cup {NULL}
  /\ fs.arg \in Seq(Blocks \cup {NULL}) /\ Len(fs.arg) = count
  /\ fs.heap \subseteq Blocks /\ fs.lost \subseteq Blocks
  /\ fs.array \in [len : 0 .. MaxNames, holds : 0 .. MaxNames, live : SUBSET (1 .. MaxNames)]
  /\ fs.calls \in 0 .. MaxCalls
  /\ Len(fs.at) = curr + 1

Causes == {<<"NULL word", "no word">>, <<"NULL cwd", "getcwd">>, <<"NULL header", "dga_new">>,
           <<"NULL directory", "opendir silently">>, <<"past the end", "dga_grow">>}

\* Every failure of wordexp, of emalloc, and of opendir with an errno that
\* errm knows is survived, whatever fails together with it; no block is used
\* after it was freed or freed twice, and no defer goes beyond errm's limits.
\* The five failures that end in undefined behaviour (filesystem.c:53, 67,
\* 123, 130 and 107) do so only when they have happened.
OnlyUnhandledFail ==
  /\ fs.fault = "none" \/ \E c \in fs.failed : <<fs.fault, c>> \in Causes
  /\ ~aborted

\* Between two calls nothing is allocated but what the last one returned: on
\* every path each block is freed by exactly one of the defers or error paths
\* (filesystem.c:51, 64, 81, 94, 118, 143). Blocks are lost only when wordexp
\* runs out of memory: expand forgets its words (filesystem.c:47-50).
NothingLeaks == Idle =>
  /\ fs.heap \subseteq {fs.val}
  /\ fs.heap = {} => fs.val \in {NULL, "names"}
  /\ fs.lost # {} => "wordexp nospace" \in fs.failed
  /\ fs.array.live = IF "names" \in fs.heap THEN 1 .. fs.array.len ELSE {}

\* A call that returns NULL has set an error, and one that returns a value has
\* left none, although every function entered on the way has cleared the code:
\* the callers test only the code (mods.c:110, 151) or only the value
\* (prom-module.c:36).
ErrorMeansNull ==
  [][fs.at # <<>> /\ fs'.at = <<>> => (fs.val = NULL <=> Errored)]_vars

\* The length that dga_len returns is tracked: it is the number of elements
\* that the array's block holds (dga/README.md:33).
LenIsTracked == "names" \in fs.heap => fs.array.len = fs.array.holds
=============================================================================
