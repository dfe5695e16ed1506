------------------------- MODULE KvstoreFilesystem -------------------------
(***************************************************************************)
(* The key-value store in a file system (util/kvstore_filesystem.c and     *)
(* util/kvstore.c) for one key, used by several processes without a lock.  *)
(*                                                                         *)
(* A key is a directory, and a value a file in it, whose name says when it *)
(* expires and when it was made, in seconds.  A set removes the values of  *)
(* the key, makes an empty file of the new name and a temporary file, puts *)
(* the value into the temporary file and renames it onto the empty one.  A *)
(* get reads all the values and returns the newest.                        *)
(*                                                                         *)
(* A step is what a process does with one system call on the directory;    *)
(* any of them may fail, as may an allocation, and a process may crash     *)
(* between any two.  kvremove ignores what fails and returns IB_OK, with   *)
(* values left that it should have removed; the properties therefore speak *)
(* of sets and removes whose kvremove met no failure.                      *)
(*                                                                         *)
(* While a directory is listed other processes change it: readdir returns  *)
(* each entry that is there all the time, and may return the ones that     *)
(* come or go meanwhile.                                                   *)
(*                                                                         *)
(* Time is counted in ticks, Second of them to a second.  The value of the *)
(* n-th set is n; a file holds n, -n when only a part of n was written, or *)
(* 0 when it is empty.                                                     *)
(***************************************************************************)
EXTENDS Integers, Sequences, Functions

CONSTANTS
    Procs,
    Second,       \* ticks per second
    Expirations,  \* the expirations values are set with, in ticks
    MaxSets,      \* bound on the calls of set
    MaxEvents     \* bound on the calls, failures, crashes and ticks

ASSUME KvstoreAssumption ==
    /\ Second \in Nat \ {0, 1}
    /\ MaxSets \in Nat /\ MaxEvents \in Nat
    /\ Expirations \subseteq Nat

VARIABLES
    now,      \* the clock, ib_clock_gettimeofday
    dir,      \* whether the key's directory exists
    files,    \* what is in it: file names to what the files hold
    proc,     \* the call each process is in
    ended,    \* per set that has begun, the sets that were over by then;
              \* none if its remove failed in part
    stored,   \* the sets that returned IB_OK
    last,     \* what the last set or remove left, when no other overlapped
              \* it and nothing of it failed, and until when it asked to
    events    \* the number of calls, failures, crashes and ticks

history == <<ended, stored, last, events>>
vars == <<now, dir, files, proc, history>>

Sets  == 1..MaxSets
Names == [tmp : BOOLEAN, expire : Nat, create : Nat, n : Sets]

NoName  == [tmp |-> FALSE, expire |-> 0, create |-> 0, n |-> 0]
NoValue == [n |-> 0, create |-> 0, data |-> 0]
Unknown == [known |-> FALSE, names |-> {}, due |-> 0]

(* A process between calls; the fields are the variables of the calls:     *)
(* `part' what build_key_path is called for, `real' and `tmp' the two      *)
(* files of a set, `open', `snap' and `seen' a listing of the directory    *)
(* (the files there at its opendir and those it has returned).  The last   *)
(* four are not the program's: the end of the expiration a set was given,  *)
(* when the call began, whether no set or remove has overlapped it and no  *)
(* failure was ignored or ended it, and the sets a get must not return.    *)
Idle ==
    [op |-> "none", pc |-> "idle", part |-> "none", n |-> 0, expiration |-> 0,
     real |-> NoName, tmp |-> NoName, open |-> FALSE, snap |-> {}, seen |-> {},
     count |-> 0, values |-> <<>>, rc |-> "OK", value |-> NoValue,
     due |-> 0, begun |-> 0, quiet |-> TRUE, over |-> {}]

IB_CLOCK_SECS(t) == t \div Second

\* Mutant: whole seconds are compared.
Expired_Seconds(f, t) == IB_CLOCK_SECS(t) > f.expire

\* load_kv_value: now > expiration, in microseconds.
Expired(f, t) == t > f.expire * Second

Init ==
    /\ now = 2 * Second
    /\ dir = FALSE
    /\ files = <<>>
    /\ proc = [p \in Procs |-> Idle]
    /\ ended = <<>>
    /\ stored = {}
    /\ last = [known |-> TRUE, names |-> {}, due |-> 0]
    /\ events = 0

Goes(p, r) == proc' = [proc EXCEPT ![p] = r]

\* The files, and no others, are in the directory.
Keep(fs) == files' = Restrict(files, fs)
Put(f, data) == files' = [g \in DOMAIN files \cup {f} |->
                             IF g = f THEN data ELSE files[g]]

(* What a listing may still return, and when it may end.  A directory that *)
(* was removed, and perhaps made again, is not the one that is open.       *)
Entries(r) == ((IF r.open THEN DOMAIN files ELSE {}) \cup r.snap) \ r.seen
Listed(r)  == r.snap \cap DOMAIN files \subseteq r.seen
Opened(r)  == [r EXCEPT !.open = TRUE, !.snap = DOMAIN files, !.seen = {}]
Closed(r)  == [r EXCEPT !.open = FALSE, !.snap = {}, !.seen = {}]

(* Process p goes on with r, after an rmdir, which fails if a file of fs   *)
(* is left and may fail otherwise.                                         *)
GoesRmdir(p, r, fs) ==
    \/ /\ dir /\ fs = {}
       /\ dir' = FALSE
       /\ proc' = [q \in Procs |->
                      [(IF q = p THEN r ELSE proc[q]) EXCEPT !.open = FALSE]]
    \/ UNCHANGED dir /\ Goes(p, r)

Event == events < MaxEvents /\ events' = events + 1

Writers == {p \in Procs : proc[p].op \in {"set", "remove"}}

\* A set or remove of p is over.
Return(p, rc) ==
    LET r == proc[p]
    IN  /\ last' = IF rc = "OK" /\ r.quiet
                   THEN [known |-> TRUE, due |-> r.due,
                         names |-> IF r.op = "set" THEN {r.real} ELSE {}]
                   ELSE Unknown
        /\ stored' = IF rc = "OK" /\ r.op = "set" THEN stored \cup {r.n} ELSE stored
        /\ UNCHANGED ended
-----------------------------------------------------------------------------
(* ib_kvstore_get, ib_kvstore_set and ib_kvstore_remove are called.        *)
Calls(p) ==
    /\ proc[p] = Idle
    /\ Event
    /\ UNCHANGED <<now, dir, files, stored>>

Get(p) ==
    /\ Calls(p)
    /\ Goes(p, [Idle EXCEPT !.op = "get", !.pc = "path", !.part = "get",
                            !.begun = now, !.quiet = Writers = {},
                            !.over = UNION {ended[n] : n \in stored}])
    /\ UNCHANGED <<ended, last>>

\* A set or a remove begins with r, and is no longer alone if others run.
Begins(p, r) ==
    /\ proc' = [q \in Procs |->
                   IF q = p THEN [r EXCEPT !.pc = "path", !.part = "remove",
                                           !.quiet = Writers = {}]
                   ELSE IF proc[q] = Idle THEN Idle
                   ELSE [proc[q] EXCEPT !.quiet = FALSE]]
    /\ last' = Unknown

Remove(p) ==
    /\ Calls(p)
    /\ Begins(p, [Idle EXCEPT !.op = "remove"])
    /\ UNCHANGED ended

Set(p) ==
    /\ Calls(p)
    /\ Len(ended) < MaxSets
    /\ \E e \in Expirations :
          Begins(p, [Idle EXCEPT !.op = "set", !.n = Len(ended) + 1, !.expiration = e])
    /\ ended' = Append(ended, DOMAIN ended \ {proc[q].n : q \in Procs})
-----------------------------------------------------------------------------
(* build_key_path: the directory is made if stat does not find it.  (One   *)
(* that goes again while ib_util_mkpath looks at it is found missing by    *)
(* the next step, with the same result.)  A name is made of the clock as   *)
(* it is read here; an expiration below a second becomes 0.                *)
NameOf(r, tmp) ==
    LET secs == IB_CLOCK_SECS(r.expiration)
    IN  [tmp |-> tmp, create |-> IB_CLOCK_SECS(now), n |-> r.n,
         expire |-> IF secs > 0 THEN secs + IB_CLOCK_SECS(now) ELSE 0]

BuildKeyPath(p) ==
    LET r == proc[p]
    IN  /\ r.pc = "path"
        /\ dir' = TRUE
        /\ Goes(p, CASE r.part = "get"    -> [r EXCEPT !.pc = "count_open"]
                     [] r.part = "remove" -> [r EXCEPT !.pc = "remove_open"]
                     [] r.part = "real"   -> [r EXCEPT !.pc = "mkstemp",
                                                       !.real = NameOf(r, FALSE),
                                                       !.due = now + r.expiration]
                     [] r.part = "tmp"    -> [r EXCEPT !.pc = "mkstemp",
                                                       !.tmp = NameOf(r, TRUE)])
        /\ UNCHANGED <<now, files, history>>

\* It may fail with the directory made or not.
PathFails(p) == proc[p].pc = "path" /\ dir' \in {dir, TRUE}
-----------------------------------------------------------------------------
(* kvremove: each_dir with remove_file, which leaves temporary files, and  *)
(* rmdir.                                                                  *)
RemoveOpen(p) ==
    /\ proc[p].pc = "remove_open"
    /\ Goes(p, [(IF dir THEN Opened(proc[p]) ELSE proc[p]) EXCEPT !.pc = "remove"])
    /\ UNCHANGED <<now, dir, files, history>>

\* Mutant: only what has expired is removed.
RemoveFile_ExpiredOnly(p) ==
    /\ proc[p].pc = "remove"
    /\ \E f \in Entries(proc[p]) :
          /\ Goes(p, [proc[p] EXCEPT !.seen = @ \cup {f}])
          /\ IF f.tmp \/ ~Expired(f, now) THEN UNCHANGED files
             ELSE Keep(DOMAIN files \ {f})
    /\ UNCHANGED <<now, dir, history>>

RemoveFile(p) ==
    /\ proc[p].pc = "remove"
    /\ \E f \in Entries(proc[p]) :
          /\ Goes(p, [proc[p] EXCEPT !.seen = @ \cup {f}])
          /\ IF f.tmp THEN UNCHANGED files ELSE Keep(DOMAIN files \ {f})
    /\ UNCHANGED <<now, dir, history>>

(* Something of kvremove fails, and neither its caller nor that of kvset   *)
(* is told of it.                                                          *)
Misses(p) ==
    /\ ended' = IF proc[p].op = "set" THEN [ended EXCEPT ![proc[p].n] = {}] ELSE ended
    /\ Event
    /\ UNCHANGED <<now, files, stored, last>>

\* The result of unlink is not looked at.
UnlinkFails(p) ==
    /\ proc[p].pc = "remove"
    /\ \E f \in Entries(proc[p]) \cap DOMAIN files :
          /\ ~f.tmp
          /\ Goes(p, [proc[p] EXCEPT !.seen = @ \cup {f}, !.quiet = FALSE])
    /\ Misses(p)
    /\ UNCHANGED dir

(* build_key_path fails (or the pool for it), and kvremove returns; or     *)
(* each_dir does, in opendir, malloc, readdir_r or remove_file's malloc,   *)
(* and rmdir follows.                                                      *)
RemoveFails(p) ==
    LET r == proc[p]
        s == IF r.op = "remove" THEN Idle
             ELSE [Closed(r) EXCEPT !.pc = "path", !.part = "real", !.quiet = FALSE]
    IN  /\ \/ PathFails(p) /\ r.part = "remove" /\ Goes(p, s)
           \/ r.pc \in {"remove_open", "remove"} /\ GoesRmdir(p, s, DOMAIN files)
        /\ Misses(p)

\* The end of kvremove: IB_OK for its caller, or kvset goes on.
RemoveDir(p) ==
    /\ proc[p].pc = "remove"
    /\ Listed(proc[p])
    /\ IF proc[p].op = "remove"
       THEN GoesRmdir(p, Idle, DOMAIN files) /\ Return(p, "OK") /\ UNCHANGED events
       ELSE /\ GoesRmdir(p, [Closed(proc[p]) EXCEPT !.pc = "path", !.part = "real"],
                         DOMAIN files)
            /\ UNCHANGED history
    /\ UNCHANGED <<now, files>>
-----------------------------------------------------------------------------
(* kvset, after its remove.  It fails where build_key_path, mkstemp,       *)
(* rename or chmod does, and leaves what it has made.                      *)
SetFails(p) ==
    /\ \/ PathFails(p) /\ proc[p].part \in {"real", "tmp"}
       \/ proc[p].pc \in {"mkstemp", "rename", "chmod"} /\ UNCHANGED dir
    /\ Goes(p, Idle)
    /\ Return(p, "EOTHER")
    /\ Event
    /\ UNCHANGED <<now, files>>

\* create_empty_kv_file and create_tmp_kv_file.
Mkstemp(p) ==
    LET r == proc[p]
    IN  /\ r.pc = "mkstemp"
        /\ IF ~dir
           THEN Goes(p, Idle) /\ Return(p, "EOTHER") /\ UNCHANGED <<files, events>>
           ELSE /\ Put(IF r.part = "tmp" THEN r.tmp ELSE r.real, 0)
                /\ Goes(p, IF r.part = "tmp" THEN [r EXCEPT !.pc = "write"]
                           ELSE [r EXCEPT !.pc = "path", !.part = "tmp"])
                /\ UNCHANGED history
        /\ UNCHANGED <<now, dir>>

\* Mutant: the value is written to the file that was made for it.
Write_InPlace(p) ==
    LET r == proc[p]
    IN  /\ r.pc = "write"
        /\ \/ /\ Put(r.real, r.n)
              /\ Goes(p, [r EXCEPT !.pc = "chmod"])
              /\ UNCHANGED history
           \/ /\ \E data \in {0, 0 - r.n} : Put(r.real, data)
              /\ Goes(p, Idle) /\ Return(p, "EOTHER") /\ Event
        /\ UNCHANGED <<now, dir>>

\* write fails, or writes a part of the value, when the disk is full.
Write(p) ==
    LET r == proc[p]
    IN  /\ r.pc = "write"
        /\ \/ /\ Put(r.tmp, r.n)
              /\ Goes(p, [r EXCEPT !.pc = "rename"])
              /\ UNCHANGED history
           \/ /\ \E data \in {0, 0 - r.n} : Put(r.tmp, data)
              /\ Goes(p, Idle) /\ Return(p, "EOTHER") /\ Event
        /\ UNCHANGED <<now, dir>>

Rename(p) ==
    LET r == proc[p]
    IN  /\ r.pc = "rename"
        /\ files' = [f \in (DOMAIN files \ {r.tmp}) \cup {r.real} |->
                        IF f = r.real THEN files[r.tmp] ELSE files[f]]
        /\ Goes(p, [r EXCEPT !.pc = "chmod"])
        /\ UNCHANGED <<now, dir, history>>

\* chmod fails if the file is gone.
Chmod(p) ==
    /\ proc[p].pc = "chmod"
    /\ Goes(p, Idle)
    /\ Return(p, IF proc[p].real \in DOMAIN files THEN "OK" ELSE "EOTHER")
    /\ UNCHANGED <<now, dir, files, events>>
-----------------------------------------------------------------------------
(* kvget: the entries are counted, then the values loaded.                 *)
GetFails(p, rc) == Goes(p, [Closed(proc[p]) EXCEPT !.pc = "done", !.rc = rc, !.values = <<>>])

\* build_key_path or a step of each_dir fails, or the file cannot be read.
GetError(p) ==
    /\ \/ PathFails(p) /\ proc[p].part = "get"
       \/ proc[p].pc \in {"count_open", "count", "load_open", "load"} /\ UNCHANGED dir
    /\ Goes(p, [Closed(proc[p]) EXCEPT !.pc = "done", !.rc = "EOTHER", !.values = <<>>,
                                       !.quiet = FALSE])
    /\ Event
    /\ UNCHANGED <<now, files, ended, stored, last>>

GetOpen(p) ==
    LET r == proc[p]
    IN  /\ r.pc \in {"count_open", "load_open"}
        /\ IF ~dir THEN GetFails(p, "EOTHER")
           ELSE Goes(p, [Opened(r) EXCEPT !.pc = IF @ = "count_open" THEN "count"
                                                 ELSE "load"])
        /\ UNCHANGED <<now, dir, files, history>>

(* count_dirent counts the temporary files too.                            *)
Count(p) ==
    /\ proc[p].pc = "count"
    /\ \E f \in Entries(proc[p]) :
          Goes(p, [proc[p] EXCEPT !.seen = @ \cup {f}, !.count = @ + 1])
    /\ UNCHANGED <<now, dir, files, history>>

CountListed(p) ==
    LET r == proc[p]
    IN  /\ r.pc = "count"
        /\ Listed(r)
        /\ IF r.count = 0 THEN GetFails(p, "ENOENT")
           ELSE Goes(p, [Closed(r) EXCEPT !.pc = "load_open"])
        /\ UNCHANGED <<now, dir, files, history>>

(* build_value and load_kv_value, which reads the clock for each file:     *)
(* full arrays and temporary files are passed over, one that is gone fails *)
(* the get, and an expired value goes if unlink can, and its directory if  *)
(* rmdir can.  (What others do between these two calls could as well be    *)
(* done before the one or after the other.)                                *)
Load(p) ==
    /\ proc[p].pc = "load"
    /\ \E f \in Entries(proc[p]) :
          LET r    == [proc[p] EXCEPT !.seen = @ \cup {f}]
              skip == Len(r.values) >= r.count \/ f.tmp
          IN  \/ skip /\ Goes(p, r) /\ UNCHANGED <<files, dir>>
              \/ /\ ~skip /\ ~Expired(f, now)
                 /\ IF f \in DOMAIN files
                    THEN Goes(p, [r EXCEPT !.values =
                            Append(@, [n |-> f.n, create |-> f.create,
                                       data |-> files[f]])])
                    ELSE GetFails(p, "EOTHER")
                 /\ UNCHANGED <<files, dir>>
              \/ /\ ~skip /\ Expired(f, now)
                 /\ \E fs \in {DOMAIN files \ {f}, DOMAIN files} :
                       Keep(fs) /\ GoesRmdir(p, r, fs)
    /\ UNCHANGED <<now, history>>

(* kvstore_filsystem_merge_policy: value i is the first of the newest.     *)
Merged(values, i) ==
    \A j \in DOMAIN values :
        IF j < i THEN values[j].create < values[i].create
        ELSE values[j].create <= values[i].create

LoadListed(p) ==
    LET r == proc[p]
    IN  /\ r.pc = "load"
        /\ Listed(r)
        /\ \/ r.values = <<>> /\ GetFails(p, "ENOENT")
           \/ \E i \in DOMAIN r.values :
                 /\ Merged(r.values, i)
                 /\ Goes(p, [Closed(r) EXCEPT !.pc = "done", !.values = <<>>,
                                              !.value = r.values[i]])
        /\ UNCHANGED <<now, dir, files, history>>

GetReturns(p) ==
    /\ proc[p].pc = "done"
    /\ Goes(p, Idle)
    /\ UNCHANGED <<now, dir, files, history>>
-----------------------------------------------------------------------------
\* A process dies in the middle of a call; another takes its place.
Crash(p) ==
    /\ proc[p] # Idle
    /\ Event
    /\ Goes(p, Idle)
    /\ UNCHANGED <<now, dir, files, ended, stored, last>>

Tick ==
    /\ Event
    /\ \E t \in 1..Second : now' = now + t
    /\ UNCHANGED <<dir, files, proc, ended, stored, last>>

Next ==
    \/ \E p \in Procs :
          \/ Get(p) \/ Set(p) \/ Remove(p)
          \/ BuildKeyPath(p)
          \/ RemoveOpen(p) \/ RemoveFile(p) \/ UnlinkFails(p) \/ RemoveFails(p) \/ RemoveDir(p)
          \/ SetFails(p) \/ Mkstemp(p) \/ Write(p) \/ Rename(p) \/ Chmod(p)
          \/ GetError(p) \/ GetOpen(p)
          \/ Count(p) \/ CountListed(p) \/ Load(p) \/ LoadListed(p) \/ GetReturns(p)
          \/ Crash(p)
    \/ Tick

Spec == Init /\ [][Next]_vars
-----------------------------------------------------------------------------
\* The type invariant; files are only in a directory that exists.
TypeOK ==
    /\ now \in Nat
    /\ dir \in BOOLEAN
    /\ DOMAIN files \subseteq Names /\ (DOMAIN files # {} => dir)
    /\ Range(files) \subseteq (0 - MaxSets)..MaxSets
    /\ DOMAIN proc = Procs
    /\ stored \subseteq DOMAIN ended /\ DOMAIN ended \subseteq Sets

(* The two-phase commit of kvset: a part of a value is only ever in a      *)
(* temporary file, which no get reads, whatever failed or crashed, and the *)
(* file of a set that returned IB_OK holds its value as long as it exists. *)
(* (A file that is still empty is read as an empty value.)                 *)
TwoPhaseCommit ==
    /\ TypeOK
    /\ \A f \in DOMAIN files : ~f.tmp => files[f] \in {0, f.n}
    /\ \A f \in DOMAIN files : ~f.tmp /\ f.n \in stored => files[f] = f.n

(* A get never returns what a set that is complete has replaced: if set n  *)
(* returned IB_OK before the get began, and nothing of the kvremove in it  *)
(* failed, the sets that were over before n began, successful, failed or   *)
(* crashed, are not seen again, whatever else runs, fails or crashes at    *)
(* the same time.  (IB_OK alone does not say so: kvremove ignores its      *)
(* failures, and a value it left is returned if it is not older.)          *)
FreshRead ==
    \A p \in Procs : proc[p].pc = "done" /\ proc[p].rc = "OK" =>
        proc[p].value.n \notin proc[p].over

(* A get that no set or remove overlaps and that meets no failure returns  *)
(* what the last set or remove left, if that one was alone, returned IB_OK *)
(* and met no failure: nothing but its value, and that not once the        *)
(* expiration it was given is over (kvstore.c, `relative to now'); and its *)
(* value for sure until two seconds before that, because the name holds    *)
(* whole seconds of the clock and of the expiration.  (An expiration of    *)
(* less than a second is named 0, and is over at once.)  There may be any  *)
(* leftovers of earlier crashes and failures, and other gets running.      *)
ReadsLast ==
    \A p \in Procs : LET r == proc[p] IN
        r.pc = "done" /\ r.quiet /\ last.known =>
            /\ r.rc = "OK" =>
                  \E f \in last.names : r.value.data = f.n /\ r.begun <= last.due
            /\ \A f \in last.names :
                  f.expire # 0 /\ now + 2 * (Second - 1) <= last.due => r.rc = "OK"
=============================================================================
