----------------------- MODULE KvstoreFilesystemProofs -----------------------
(***************************************************************************)
(* The two-phase commit of kvset (module KvstoreFilesystem), for any       *)
(* number of processes, sets, crashes and failures.                        *)
(*                                                                         *)
(* The argument: the files of a set, known by its number, are its own.  No *)
(* other set writes them, a remove takes only real files, and a number is  *)
(* not used again after a crash; so what a set has put into its temporary  *)
(* file is still there when it renames it.                                 *)
(* What a get may not read follows: a set has removed all that was over    *)
(* before it when it makes its file, and a real file that is gone does not *)
(* come back (FInv).  (A set whose kvremove failed in part, which it       *)
(* ignores, is not held to have removed anything: its list of the sets     *)
(* that were over is emptied.)                                             *)
(* What a get must read, when no set or remove overlaps it: RInv adds to   *)
(* FInv what is known of a process that is alone.  A set or remove has yet *)
(* to be given the real files that are left, so when it is over the only   *)
(* real file is its own; and a get has read that file, or will be given    *)
(* it, for as long as it can be read.                                      *)
(***************************************************************************)
EXTENDS KvstoreFilesystem, TLAPS

\* The set has not made its file yet.
Early(r) ==
    \/ r.pc \in {"remove_open", "remove"}
    \/ r.pc = "path" /\ r.part \in {"remove", "real"}
    \/ r.pc = "mkstemp" /\ r.part = "real"

(* What the name f says of an expiration that ends at due: not more than   *)
(* that, and up to two seconds less, or nothing.                           *)
Due(f, due) ==
    /\ f.expire * Second <= due
    /\ f.expire # 0 => due <= f.expire * Second + 2 * (Second - 1)

\* The real file of the set of r, and its temporary file.
RealOf(r) ==
    /\ r.real \in Names /\ r.real.n = r.n /\ ~r.real.tmp
    /\ r.due \in Nat /\ Due(r.real, r.due)
TmpOf(r)  == r.tmp \in Names /\ r.tmp.n = r.n /\ r.tmp.tmp

(* What is known of a process r that is in a set, when the files are fs:   *)
(* which of them it has made, and what they hold.                          *)
SetOK(r, fs) ==
    /\ r.pc \in {"path", "remove_open", "remove", "mkstemp", "write", "rename", "chmod"}
    /\ r.part \in {"remove", "real", "tmp"}
    /\ r.pc = "mkstemp" => r.part # "remove"
    /\ Early(r) => \A f \in DOMAIN fs : f.n # r.n
    /\ ~Early(r) => \A f \in DOMAIN fs : f.n = r.n /\ ~f.tmp => f = r.real
    /\ ~Early(r) \/ r.pc = "mkstemp" => RealOf(r)
    /\ r.pc = "mkstemp" /\ r.part = "tmp" => TmpOf(r)
    /\ r.pc \in {"write", "rename"} => TmpOf(r) /\ r.tmp \in DOMAIN fs
    /\ r.pc = "rename" => fs[r.tmp] = r.n
    /\ r.pc = "chmod" => \A f \in DOMAIN fs : f.n = r.n /\ ~f.tmp => fs[f] = r.n

Fields == DOMAIN Idle

(* What is known of a process r when the files are fs, the sets up to len  *)
(* have begun and those in done have returned IB_OK.                       *)
ProcOK(r, fs, len, done) ==
    /\ DOMAIN r = Fields
    /\ r.expiration \in Nat
    /\ r.op \in {"none", "get", "remove", "set"}
    /\ r.op = "none" => r.pc = "idle"
    /\ r.op = "get" => /\ r.part = "get"
                       /\ r.pc \in {"path", "count_open", "count", "load_open",
                                    "load", "done"}
    /\ r.op = "remove" => /\ r.part = "remove"
                          /\ r.pc \in {"path", "remove_open", "remove"}
    /\ r.op = "set" => r.n \in 1..len /\ r.n \notin done /\ SetOK(r, fs)

\* The files fs, with sets up to len begun and those in done successful.
FilesOK(fs, len, done) ==
    /\ DOMAIN fs \subseteq Names
    /\ \A f \in DOMAIN fs :
          /\ f.n \in 1..len
          /\ fs[f] \in (0 - MaxSets)..MaxSets
          /\ ~f.tmp => fs[f] \in {0, f.n}
          /\ ~f.tmp /\ f.n \in done => fs[f] = f.n

-----------------------------------------------------------------------------
(* The inductive invariant: the files are as TwoPhaseCommit says, every    *)
(* process has made and filled the files that its step implies, and no two *)
(* processes are in the same set.                                          *)
KInv ==
    /\ now \in Nat /\ dir \in BOOLEAN /\ DOMAIN proc = Procs
    /\ DOMAIN files # {} => dir
    /\ ended \in Seq(SUBSET Sets) /\ Len(ended) <= MaxSets
    /\ stored \subseteq 1..Len(ended)
    /\ FilesOK(files, Len(ended), stored)
    /\ \A p \in Procs : ProcOK(proc[p], files, Len(ended), stored)
    /\ \A p, q \in Procs :
          p # q /\ proc[p].op = "set" /\ proc[q].op = "set" => proc[p].n # proc[q].n

-----------------------------------------------------------------------------
\* The set is past its remove.
Past(r) ==
    \/ r.pc \in {"mkstemp", "write", "rename", "chmod"}
    \/ r.pc = "path" /\ r.part \in {"real", "tmp"}

\* Of the sets that were over when set n began no file is left to be read.
Gone(n, fs, nd) == \A f \in DOMAIN fs : ~f.tmp => f.n \notin nd[n]

Values == [n : Sets, create : Nat, data : Int]

(* A set has removed what was over before it, or has still to be given it  *)
(* by its listing, and is not over itself; a get has read nothing that a   *)
(* successful set replaced.                                                *)
FreshOK(r, fs, nd, done) ==
    /\ r.op = "set" =>
          /\ \A n \in DOMAIN nd : r.n \notin nd[n]
          /\ r.pc = "remove" => \A f \in DOMAIN fs :
                ~f.tmp /\ f.n \in nd[r.n] => f \in r.snap \ r.seen
          /\ Past(r) => Gone(r.n, fs, nd)
    /\ r.op = "get" =>
          /\ \A m \in r.over : \E n \in done : m \in nd[n]
          /\ r.values \in Seq(Values)
          /\ \A i \in DOMAIN r.values : r.values[i].n \notin r.over
          /\ r.pc = "done" /\ r.rc = "OK" => r.value.n \notin r.over

(* The inductive invariant behind FreshRead.                               *)
FInv ==
    /\ KInv
    /\ \A n \in DOMAIN ended : ended[n] \subseteq DOMAIN ended
    /\ \A n \in stored : Gone(n, files, ended)
    /\ \A p \in Procs : FreshOK(proc[p], files, ended, stored)
-----------------------------------------------------------------------------
\* r and s differ at most in what the invariant does not speak of.
Similar(r, s) ==
    /\ DOMAIN s = Fields
    /\ s.op = r.op /\ s.pc = r.pc /\ s.part = r.part /\ s.n = r.n
    /\ s.expiration = r.expiration /\ s.real = r.real /\ s.tmp = r.tmp /\ s.due = r.due

\* They also agree on what FInv speaks of.
Alike(r, s) ==
    /\ Similar(r, s)
    /\ s.snap = r.snap /\ s.seen = r.seen /\ s.over = r.over
    /\ s.values = r.values /\ s.value = r.value /\ s.rc = r.rc

\* From fs to gs no file of set n comes or changes, and only real ones go.
Frame(n, fs, gs) ==
    /\ \A f \in DOMAIN gs : f.n = n => f \in DOMAIN fs /\ gs[f] = fs[f]
    /\ \A f \in DOMAIN fs : f.n = n /\ f.tmp => f \in DOMAIN gs
-----------------------------------------------------------------------------
(* What is known of a process stays true as long as its own files do not   *)
(* change under it.                                                        *)
LEMMA OtherOK ==
    ASSUME NEW r, NEW s, NEW fs, NEW gs, NEW len \in Nat, NEW len2 \in Nat,
           NEW done, NEW done2,
           ProcOK(r, fs, len, done), Similar(r, s), len <= len2,
           r.op = "set" => r.n \notin done2 /\ Frame(r.n, fs, gs)
    PROVE  ProcOK(s, gs, len2, done2)
<1>1. CASE r.op # "set"
  BY <1>1, Zenon DEF ProcOK, Similar
<1>2. CASE r.op = "set"
  <2>1. SetOK(r, fs) /\ Frame(r.n, fs, gs) /\ r.n \in 1..len2
    BY <1>2 DEF ProcOK
  <2>2. SetOK(s, gs)
    BY <2>1 DEF SetOK, Similar, Frame, Early, RealOf, TmpOf
  <2> QED BY <1>2, <2>1, <2>2, Zenon DEF ProcOK, Similar
<1> QED BY <1>1, <1>2, Zenon

\* A step of Goes changes one process.
LEMMA Went ==
    ASSUME KInv, NEW p \in Procs, NEW r, Goes(p, r)
    PROVE  /\ DOMAIN proc' = Procs /\ proc'[p] = r
           /\ \A q \in Procs \ {p} : Similar(proc[q], proc'[q]) /\ Alike(proc[q], proc'[q])
BY Zenon DEF KInv, Goes, Similar, Alike, ProcOK

\* A step with an rmdir also closes the listings of the others.
LEMMA WentRmdir ==
    ASSUME KInv, NEW p \in Procs, NEW r, NEW fs, DOMAIN r = Fields,
           GoesRmdir(p, r, fs)
    PROVE  /\ DOMAIN proc' = Procs /\ Similar(r, proc'[p]) /\ Alike(r, proc'[p])
           /\ \A q \in Procs \ {p} : Similar(proc[q], proc'[q]) /\ Alike(proc[q], proc'[q])
           /\ dir' = dir \/ (dir' = FALSE /\ fs = {})
<1>1. \A q \in Procs : DOMAIN proc[q] = Fields
  BY Zenon DEF KInv, ProcOK
<1>2. CASE /\ dir /\ fs = {} /\ dir' = FALSE
           /\ proc' = [q \in Procs |-> [(IF q = p THEN r ELSE proc[q]) EXCEPT !.open = FALSE]]
  <2>1. /\ dir' = FALSE
        /\ proc' = [q \in Procs |-> [(IF q = p THEN r ELSE proc[q]) EXCEPT !.open = FALSE]]
    BY <1>2, Zenon
  <2>2. ASSUME NEW s, DOMAIN s = Fields PROVE Alike(s, [s EXCEPT !.open = FALSE])
    BY <2>2, Zenon DEF Alike, Similar, Fields, Idle
  <2>3. proc'[p] = [r EXCEPT !.open = FALSE]
    BY <2>1, Zenon
  <2>4. \A q \in Procs \ {p} : proc'[q] = [proc[q] EXCEPT !.open = FALSE]
    BY <2>1, Zenon
  <2>5. Alike(r, proc'[p])
    BY <2>2, <2>3, Zenon
  <2>6. ASSUME NEW q \in Procs \ {p} PROVE Alike(proc[q], proc'[q])
    <3>1. proc'[q] = [proc[q] EXCEPT !.open = FALSE]
      BY <2>4, Zenon
    <3>2. DOMAIN proc[q] = Fields
      BY <1>1, Zenon
    <3> QED BY <2>2, <3>1, <3>2, Zenon
  <2> QED BY <1>2, <2>1, <2>5, <2>6, Zenon DEF Alike
<1>3. CASE dir' = dir /\ Goes(p, r)
  BY <1>1, <1>3, Went, Zenon DEF Alike, Similar
<1> QED BY <1>2, <1>3, Zenon DEF GoesRmdir

\* No set is past its bound in a state of the invariant.
LEMMA LenIsNat == KInv => Len(ended) \in Nat
BY DEF KInv

(* A step that writes no file, takes no temporary one away and ends no set *)
(* preserves the invariant if its own process stays as it should be.       *)
LEMMA Unended ==
    ASSUME KInv, NEW p \in Procs,
           now' \in Nat, dir' \in BOOLEAN, DOMAIN files' # {} => dir',
           ended' \in Seq(SUBSET Sets), Len(ended') = Len(ended), stored' = stored,
           DOMAIN files' \subseteq DOMAIN files,
           \A f \in DOMAIN files' : files'[f] = files[f],
           \A f \in DOMAIN files : f.tmp => f \in DOMAIN files',
           DOMAIN proc' = Procs,
           \A q \in Procs \ {p} : Similar(proc[q], proc'[q]),
           ProcOK(proc'[p], files', Len(ended), stored),
           proc'[p].op = "set" => proc[p].op = "set" /\ proc'[p].n = proc[p].n
    PROVE  KInv'
<1>1. \A n : Frame(n, files, files')
  BY Zenon DEF Frame
<1>2. FilesOK(files', Len(ended), stored)
  BY Zenon DEF KInv, FilesOK
<1>3. ASSUME NEW q \in Procs PROVE ProcOK(proc'[q], files', Len(ended), stored)
  <2>1. CASE q = p
    BY <2>1, Zenon
  <2>2. CASE q # p
    <3>1. ProcOK(proc[q], files, Len(ended), stored) /\ Similar(proc[q], proc'[q])
      BY <2>2, Zenon DEF KInv
    <3>2. proc[q].op = "set" => proc[q].n \notin stored
      BY <3>1, Zenon DEF ProcOK
    <3>3. Len(ended) <= Len(ended)
      BY LenIsNat
    <3> QED BY <1>1, <3>1, <3>2, <3>3, LenIsNat, OtherOK
  <2> QED BY <2>1, <2>2, Zenon
<1>4. \A q, s \in Procs :
         q # s /\ proc'[q].op = "set" /\ proc'[s].op = "set" => proc'[q].n # proc'[s].n
  <2>1. \A q \in Procs : proc'[q].op = "set" => proc[q].op = "set" /\ proc'[q].n = proc[q].n
    BY Zenon DEF Similar
  <2> QED BY <2>1, Zenon DEF KInv
<1> QED BY <1>2, <1>3, <1>4, Zenon DEF KInv

LEMMA Unwritten ==
    ASSUME KInv, NEW p \in Procs,
           now' \in Nat, dir' \in BOOLEAN, DOMAIN files' # {} => dir',
           ended' = ended, stored' = stored,
           DOMAIN files' \subseteq DOMAIN files,
           \A f \in DOMAIN files' : files'[f] = files[f],
           \A f \in DOMAIN files : f.tmp => f \in DOMAIN files',
           DOMAIN proc' = Procs,
           \A q \in Procs \ {p} : Similar(proc[q], proc'[q]),
           ProcOK(proc'[p], files', Len(ended), stored),
           proc'[p].op = "set" => proc[p].op = "set" /\ proc'[p].n = proc[p].n
    PROVE  KInv'
<1>1. ended' \in Seq(SUBSET Sets) /\ Len(ended') = Len(ended)
  BY Zenon DEF KInv
<1> QED BY <1>1, Unended, Zenon

(* The same for a step that leaves the directory alone as well, or only    *)
(* makes it.                                                               *)
LEMMA OnlyProc ==
    ASSUME KInv, NEW p \in Procs, NEW r, Goes(p, r),
           UNCHANGED <<now, files, ended, stored>>, dir' \in {dir, TRUE},
           ProcOK(r, files, Len(ended), stored),
           r.op = "set" => proc[p].op = "set" /\ r.n = proc[p].n
    PROVE  KInv'
<1>1. /\ DOMAIN proc' = Procs /\ proc'[p] = r
      /\ \A q \in Procs \ {p} : Similar(proc[q], proc'[q])
  BY Went, Zenon
<1>2. /\ now' \in Nat /\ dir' \in BOOLEAN
      /\ DOMAIN files' # {} => dir'
  BY Zenon DEF KInv
<1> QED BY <1>1, <1>2, Unwritten, Zenon

\* A process between calls is as it should be.
LEMMA IdleOK == \A fs, len, done : ProcOK(Idle, fs, len, done)
BY Zenon DEF ProcOK, Idle, Fields

(* A step of a set that changes only its own files, or that ends it.       *)
LEMMA Written ==
    ASSUME KInv, NEW p \in Procs, NEW r, Goes(p, r),
           proc[p].op = "set",
           UNCHANGED <<now, dir, ended>>,
           DOMAIN files' # {} => dir,
           \A n : n # proc[p].n => Frame(n, files, files'),
           stored' \subseteq stored \cup {proc[p].n},
           FilesOK(files', Len(ended), stored'),
           ProcOK(r, files', Len(ended), stored'),
           r.op = "set" => r.n = proc[p].n
    PROVE  KInv'
<1>1. /\ DOMAIN proc' = Procs /\ proc'[p] = r
      /\ \A q \in Procs \ {p} : Similar(proc[q], proc'[q])
  BY Went, Zenon
<1>2. \A q \in Procs \ {p} : proc[q].op = "set" => proc[q].n # proc[p].n
  BY Zenon DEF KInv
<1>3. ASSUME NEW q \in Procs PROVE ProcOK(proc'[q], files', Len(ended), stored')
  <2>1. CASE q = p
    BY <1>1, <2>1, Zenon
  <2>2. CASE q # p
    <3>1. ProcOK(proc[q], files, Len(ended), stored) /\ Similar(proc[q], proc'[q])
      BY <1>1, <2>2, Zenon DEF KInv
    <3>2. proc[q].op = "set" => proc[q].n \notin stored' /\ Frame(proc[q].n, files, files')
      BY <1>2, <2>2, <3>1, Zenon DEF ProcOK
    <3>3. Len(ended) <= Len(ended)
      BY LenIsNat
    <3> QED BY <3>1, <3>2, <3>3, LenIsNat, OtherOK, Zenon
  <2> QED BY <2>1, <2>2, Zenon
<1>4. \A q, s \in Procs :
         q # s /\ proc'[q].op = "set" /\ proc'[s].op = "set" => proc'[q].n # proc'[s].n
  <2>1. \A q \in Procs : proc'[q].op = "set" => proc[q].op = "set" /\ proc'[q].n = proc[q].n
    BY <1>1, Zenon DEF Similar
  <2> QED BY <2>1 DEF KInv
<1>5. stored' \subseteq 1..Len(ended)
  BY DEF KInv, ProcOK
<1> QED BY <1>1, <1>3, <1>4, <1>5, Zenon DEF KInv

\* The names of a set are names, with its number.
LEMMA NameIsName ==
    ASSUME KInv, NEW r, r.expiration \in Nat, r.n \in Sets, NEW tmp \in BOOLEAN
    PROVE  /\ NameOf(r, tmp) \in Names
           /\ NameOf(r, tmp).n = r.n /\ NameOf(r, tmp).tmp = tmp
<1>1. \A t \in Nat : IB_CLOCK_SECS(t) \in Nat
  BY KvstoreAssumption DEF KvstoreAssumption, IB_CLOCK_SECS
<1>2. now \in Nat
  BY Zenon DEF KInv
<1> QED BY <1>1, <1>2 DEF NameOf, Names

\* What is left of a time when it is cut to whole seconds.
LEMMA WholeSeconds ==
    ASSUME NEW t \in Nat
    PROVE  /\ IB_CLOCK_SECS(t) \in Nat /\ IB_CLOCK_SECS(t) * Second <= t
           /\ t <= IB_CLOCK_SECS(t) * Second + (Second - 1)
<1>1. Second \in Nat /\ Second > 0
  BY KvstoreAssumption DEF KvstoreAssumption
<1>2. t = Second * (t \div Second) + (t % Second) /\ t % Second \in 0..(Second - 1)
      /\ t \div Second \in Nat
  BY <1>1
<1>3. Second * (t \div Second) = (t \div Second) * Second
  BY <1>1, <1>2
<1>4. (t \div Second) * Second \in Nat
  BY <1>1, <1>2
<1>5. PICK k \in Nat : k = (t \div Second) * Second
  BY <1>4, Zenon
<1>6. k <= t /\ t <= k + (Second - 1)
  BY <1>1, <1>2, <1>3, <1>5
<1> QED BY <1>2, <1>5, <1>6, Zenon DEF IB_CLOCK_SECS

\* The name of a set's file says when it is due.
LEMMA NameIsDue ==
    ASSUME KInv, NEW r, r.expiration \in Nat
    PROVE  Due(NameOf(r, FALSE), now + r.expiration) /\ now + r.expiration \in Nat
<1> DEFINE f == NameOf(r, FALSE)
<1>1. now \in Nat /\ Second \in Nat
  BY KvstoreAssumption, Zenon DEF KInv, KvstoreAssumption
<1>2. PICK a \in Nat : /\ a = IB_CLOCK_SECS(r.expiration) /\ a * Second <= r.expiration
                       /\ r.expiration <= a * Second + (Second - 1)
  BY WholeSeconds, Zenon
<1>3. PICK b \in Nat : /\ b = IB_CLOCK_SECS(now) /\ b * Second <= now
                       /\ now <= b * Second + (Second - 1)
  BY <1>1, WholeSeconds, Zenon
<1>4. f.expire = IF a > 0 THEN a + b ELSE 0
  BY <1>2, <1>3, Zenon DEF NameOf
<1> HIDE DEF f
<1>5. ASSUME a > 0 PROVE Due(f, now + r.expiration)
  <2>1. f.expire * Second = a * Second + b * Second
    BY <1>1, <1>4, <1>5
  <2>2. a * Second \in Nat /\ b * Second \in Nat
    BY <1>1
  <2>3. PICK x \in Nat, y \in Nat : x = a * Second /\ y = b * Second
    BY <2>2, Zenon
  <2>4. x + y <= now + r.expiration /\ now + r.expiration <= x + y + 2 * (Second - 1)
    BY <1>1, <1>2, <1>3, <2>3
  <2> QED BY <2>1, <2>3, <2>4, Zenon DEF Due
<1>6. ASSUME ~(a > 0) PROVE Due(f, now + r.expiration)
  <2>1. f.expire = 0 /\ f.expire * Second = 0
    BY <1>1, <1>4, <1>6
  <2>2. 0 <= now + r.expiration
    BY <1>1
  <2> QED BY <2>1, <2>2, Zenon DEF Due
<1>7. now + r.expiration \in Nat
  BY <1>1
<1> QED BY <1>5, <1>6, <1>7, Zenon DEF f
-----------------------------------------------------------------------------
\* Before the first call.
LEMMA InitKInv == Init => KInv
<1> SUFFICES ASSUME Init PROVE KInv
  BY Zenon
<1>1. Len(ended) = 0 /\ ended \in Seq(SUBSET Sets) /\ DOMAIN files = {}
  BY DEF Init
<1>2. now \in Nat
  BY KvstoreAssumption DEF KvstoreAssumption, Init
<1>3. \A p \in Procs : proc[p] = Idle /\ ProcOK(proc[p], files, Len(ended), stored)
  BY IdleOK, Zenon DEF Init
<1>4. FilesOK(files, Len(ended), stored)
  BY <1>1, Zenon DEF FilesOK
<1>5. Idle.op = "none"
  BY Zenon DEF Idle
<1>6. \A p \in Procs : proc[p].op # "set"
  BY <1>3, <1>5, Zenon
<1>7. Len(ended) <= MaxSets
  BY <1>1, KvstoreAssumption DEF KvstoreAssumption
<1>8. dir \in BOOLEAN /\ DOMAIN proc = Procs /\ stored = {}
  BY Zenon DEF Init
<1> QED BY <1>1, <1>2, <1>3, <1>4, <1>6, <1>7, <1>8, Zenon DEF KInv

\* ib_kvstore_get is called: only its process changes.
LEMMA GetKInv == ASSUME KInv, NEW p \in Procs, Get(p) PROVE KInv'
<1> DEFINE r == [Idle EXCEPT !.op = "get", !.pc = "path", !.part = "get",
                             !.begun = now, !.quiet = Writers = {},
                             !.over = UNION {ended[n] : n \in stored}]
<1>1. Goes(p, r) /\ UNCHANGED <<now, dir, files, ended, stored>>
  BY Zenon DEF Get, Calls, Event
<1>2. r.op = "get" /\ r.pc = "path" /\ r.part = "get" /\ r.expiration = 0 /\ DOMAIN r = Fields
  BY Zenon DEF Idle, Fields
<1>3. ProcOK(r, files, Len(ended), stored)
  BY <1>2 DEF ProcOK
<1> HIDE DEF r
<1> QED BY <1>1, <1>2, <1>3, OnlyProc, Zenon

\* What a set or a remove that begins changes of the processes.
LEMMA Begun ==
    ASSUME KInv, NEW p \in Procs, NEW r, DOMAIN r = Fields, Begins(p, r)
    PROVE  /\ DOMAIN proc' = Procs
           /\ Similar([r EXCEPT !.pc = "path", !.part = "remove"], proc'[p])
           /\ \A q \in Procs \ {p} : Similar(proc[q], proc'[q]) /\ Alike(proc[q], proc'[q])
<1>1. \A q \in Procs : DOMAIN proc[q] = Fields
  BY Zenon DEF KInv, ProcOK
<1>2. DOMAIN proc' = Procs
  BY Zenon DEF Begins
<1>3. proc'[p] = [r EXCEPT !.pc = "path", !.part = "remove", !.quiet = Writers = {}]
  BY Zenon DEF Begins
<1>4. \A q \in Procs \ {p} :
         proc'[q] = proc[q] \/ proc'[q] = [proc[q] EXCEPT !.quiet = FALSE]
  BY Zenon DEF Begins
<1>5. ASSUME NEW s, DOMAIN s = Fields
      PROVE  Alike(s, s) /\ Alike(s, [s EXCEPT !.quiet = FALSE])
  BY <1>5, Zenon DEF Alike, Similar, Fields, Idle
<1>6. Similar([r EXCEPT !.pc = "path", !.part = "remove"], proc'[p])
  BY <1>3, Zenon DEF Similar, Fields, Idle
<1>7. ASSUME NEW q \in Procs \ {p} PROVE Alike(proc[q], proc'[q])
  <2>1. DOMAIN proc[q] = Fields
    BY <1>1, Zenon
  <2>2. proc'[q] = proc[q] \/ proc'[q] = [proc[q] EXCEPT !.quiet = FALSE]
    BY <1>4, Zenon
  <2> QED BY <1>5, <2>1, <2>2, Zenon
<1> QED BY <1>2, <1>6, <1>7, Zenon DEF Alike

\* ib_kvstore_remove is called.
LEMMA RemoveKInv == ASSUME KInv, NEW p \in Procs, Remove(p) PROVE KInv'
<1> DEFINE i == [Idle EXCEPT !.op = "remove"]
           r == [i EXCEPT !.pc = "path", !.part = "remove"]
<1>1. Begins(p, i) /\ UNCHANGED <<now, dir, files, ended, stored>>
  BY Zenon DEF Remove, Calls
<1>2. DOMAIN i = Fields
  BY Zenon DEF Idle, Fields
<1>3. r.op = "remove" /\ r.pc = "path" /\ r.part = "remove" /\ r.expiration = 0 /\ DOMAIN r = Fields
  BY Zenon DEF Idle, Fields
<1> HIDE DEF i
<1>4. /\ DOMAIN proc' = Procs /\ Similar(r, proc'[p])
      /\ \A q \in Procs \ {p} : Similar(proc[q], proc'[q])
  BY <1>1, <1>2, Begun, Zenon
<1>5. ProcOK(proc'[p], files', Len(ended), stored) /\ proc'[p].op # "set"
  BY <1>3, <1>4 DEF ProcOK, Similar
<1>6. now' \in Nat /\ dir' \in BOOLEAN /\ (DOMAIN files' # {} => dir')
  BY <1>1, Zenon DEF KInv
<1> QED BY <1>1, <1>4, <1>5, <1>6, Unwritten, Zenon

\* ib_kvstore_set is called: it gets a number no file has yet.
LEMMA SetKInv == ASSUME KInv, NEW p \in Procs, Set(p) PROVE KInv'
<1>1. /\ UNCHANGED <<now, dir, files, stored>> /\ Len(ended) < MaxSets
      /\ ended' = Append(ended, DOMAIN ended \ {proc[q].n : q \in Procs})
  BY Zenon DEF Set, Calls
<1>2. PICK e \in Expirations :
         Begins(p, [Idle EXCEPT !.op = "set", !.n = Len(ended) + 1, !.expiration = e])
  BY Zenon DEF Set
<1> DEFINE i == [Idle EXCEPT !.op = "set", !.n = Len(ended) + 1, !.expiration = e]
           r == [i EXCEPT !.pc = "path", !.part = "remove"]
<1>3. DOMAIN i = Fields
  BY Zenon DEF Idle, Fields
<1>4. /\ r.op = "set" /\ r.pc = "path" /\ r.part = "remove" /\ r.n = Len(ended) + 1
      /\ r.expiration = e /\ DOMAIN r = Fields
  BY Zenon DEF Idle, Fields
<1> HIDE DEF i
<1>5. /\ DOMAIN proc' = Procs /\ Similar(r, proc'[p])
      /\ \A q \in Procs \ {p} : Similar(proc[q], proc'[q])
  BY <1>2, <1>3, Begun, Zenon DEF i
<1> HIDE DEF r
<1>6. /\ ended' \in Seq(SUBSET Sets) /\ Len(ended') = Len(ended) + 1
      /\ Len(ended) \in Nat /\ Len(ended') \in Nat /\ Len(ended') <= MaxSets
  <2>1. Len(ended) \in Nat /\ MaxSets \in Nat /\ ended \in Seq(SUBSET Sets)
    BY LenIsNat, KvstoreAssumption, Zenon DEF KInv, KvstoreAssumption
  <2>2. DOMAIN ended = 1..Len(ended)
    BY <2>1
  <2>3. DOMAIN ended \ {proc[q].n : q \in Procs} \in SUBSET Sets
    BY <1>1, <2>1, <2>2 DEF Sets
  <2> QED BY <1>1, <2>1, <2>3
<1>7. \A f \in DOMAIN files : f.n \in 1..Len(ended)
  BY Zenon DEF KInv, FilesOK
<1>8. ProcOK(proc'[p], files, Len(ended'), stored)
  <2>1. SetOK(r, files)
    BY <1>4, <1>6, <1>7 DEF SetOK, Early
  <2>2. r.n \in 1..Len(ended') /\ r.n \notin stored /\ e \in Nat
    BY <1>4, <1>6, KvstoreAssumption DEF KInv, KvstoreAssumption
  <2>3. ProcOK(r, files, Len(ended'), stored)
    BY <1>4, <2>1, <2>2, Zenon DEF ProcOK
  <2>4. \A n : Frame(n, files, files)
    BY Zenon DEF Frame
  <2>5. Len(ended') <= Len(ended')
    BY <1>6
  <2> QED BY <1>5, <1>6, <2>2, <2>3, <2>4, <2>5, OtherOK, Zenon
<1>9. ASSUME NEW q \in Procs PROVE ProcOK(proc'[q], files, Len(ended'), stored)
  <2>1. CASE q = p
    BY <1>8, <2>1, Zenon
  <2>2. CASE q # p
    <3>1. ProcOK(proc[q], files, Len(ended), stored) /\ Similar(proc[q], proc'[q])
      BY <1>5, <2>2, Zenon DEF KInv
    <3>2. proc[q].op = "set" => proc[q].n \notin stored /\ Frame(proc[q].n, files, files)
      BY <3>1, Zenon DEF ProcOK, Frame
    <3>3. Len(ended) <= Len(ended')
      BY <1>6
    <3> QED BY <1>6, <3>1, <3>2, <3>3, OtherOK, Zenon
  <2> QED BY <2>1, <2>2, Zenon
<1>10. \A q, s \in Procs :
          q # s /\ proc'[q].op = "set" /\ proc'[s].op = "set" => proc'[q].n # proc'[s].n
  <2>1. proc'[p].n = Len(ended) + 1
    BY <1>4, <1>5, Zenon DEF Similar
  <2>2. \A q \in Procs \ {p} : proc'[q].op = "set" =>
           proc[q].op = "set" /\ proc'[q].n = proc[q].n /\ proc[q].n \in 1..Len(ended)
    BY <1>5, Zenon DEF Similar, KInv, ProcOK
  <2>3. \A n \in 1..Len(ended) : n # Len(ended) + 1
    BY <1>6
  <2> QED BY <2>1, <2>2, <2>3 DEF KInv
<1>11. FilesOK(files, Len(ended'), stored) /\ stored \subseteq 1..Len(ended')
  BY <1>6 DEF KInv, FilesOK
<1> QED BY <1>1, <1>5, <1>6, <1>9, <1>10, <1>11, Zenon DEF KInv

\* build_key_path makes the directory, and a name for a set.
LEMMA BuildKeyPathKInv == ASSUME KInv, NEW p \in Procs, BuildKeyPath(p) PROVE KInv'
<1> DEFINE r == proc[p]
<1>1. /\ r.pc = "path" /\ dir' = TRUE /\ UNCHANGED <<now, files, ended, stored>>
      /\ ProcOK(r, files, Len(ended), stored)
  BY Zenon DEF BuildKeyPath, KInv, history
<1>2. r.part \in {"get", "remove", "real", "tmp"} /\ (r.op # "set" => r.part \in {"get", "remove"})
  BY <1>1, Zenon DEF ProcOK, SetOK
<1> SUFFICES ASSUME NEW s, Goes(p, s),
                    ProcOK(s, files, Len(ended), stored), s.op = r.op, s.n = r.n
             PROVE  KInv'
  <2>1. CASE r.part = "get"
    <3> DEFINE s == [r EXCEPT !.pc = "count_open"]
    <3>1. Goes(p, s)
      BY <2>1, Zenon DEF BuildKeyPath
    <3>2. ProcOK(s, files, Len(ended), stored) /\ s.op = r.op /\ s.n = r.n
      BY <1>1, <2>1, Zenon DEF ProcOK, SetOK, Fields, Idle
    <3> QED BY <3>1, <3>2, Zenon
  <2>2. CASE r.part = "remove"
    <3> DEFINE s == [r EXCEPT !.pc = "remove_open"]
    <3>1. Goes(p, s)
      BY <2>2, Zenon DEF BuildKeyPath
    <3>2. ProcOK(s, files, Len(ended), stored) /\ s.op = r.op /\ s.n = r.n
      BY <1>1, <2>2, Zenon DEF ProcOK, SetOK, Early, RealOf, TmpOf, Fields, Idle
    <3> QED BY <3>1, <3>2, Zenon
  <2>3. CASE r.part \in {"real", "tmp"}
    <3>1. r.op = "set" /\ r.n \in 1..Len(ended) /\ r.n \notin stored /\ SetOK(r, files)
      BY <1>1, <1>2, <2>3, Zenon DEF ProcOK
    <3>2. r.n \in Sets /\ r.expiration \in Nat
      <4>1. Len(ended) \in Nat /\ Len(ended) <= MaxSets /\ MaxSets \in Nat
        BY LenIsNat, KvstoreAssumption, Zenon DEF KInv, KvstoreAssumption
      <4>2. r.expiration \in Nat
        BY <1>1, Zenon DEF ProcOK
      <4> QED BY <3>1, <4>1, <4>2 DEF Sets
    <3>3. CASE r.part = "real"
      <4> DEFINE s == [r EXCEPT !.pc = "mkstemp", !.real = NameOf(r, FALSE), !.due = now + r.expiration]
      <4>1. Goes(p, s)
        BY <3>3, Zenon DEF BuildKeyPath
      <4>2. /\ DOMAIN s = Fields /\ s.op = "set" /\ s.n = r.n /\ s.part = "real"
            /\ s.pc = "mkstemp" /\ s.expiration = r.expiration /\ s.real = NameOf(r, FALSE)
            /\ s.due = now + r.expiration
        BY <1>1, <3>1, <3>3, Zenon DEF ProcOK, Fields, Idle
      <4> HIDE DEF s
      <4>3. RealOf(s) /\ Early(s)
        BY <3>2, <4>2, NameIsName, NameIsDue, Zenon DEF RealOf, Early
      <4>4. \A f \in DOMAIN files : f.n # s.n
        BY <1>1, <3>1, <3>3, <4>2, Zenon DEF SetOK, Early
      <4>5. SetOK(s, files)
        BY <4>2, <4>3, <4>4, Zenon DEF SetOK
      <4>6. ProcOK(s, files, Len(ended), stored)
        BY <3>1, <3>2, <4>2, <4>5, Zenon DEF ProcOK
      <4> QED BY <3>1, <4>1, <4>2, <4>6, Zenon
    <3>4. CASE r.part = "tmp"
      <4> DEFINE s == [r EXCEPT !.pc = "mkstemp", !.tmp = NameOf(r, TRUE)]
      <4>1. Goes(p, s)
        BY <3>4, Zenon DEF BuildKeyPath
      <4>2. /\ DOMAIN s = Fields /\ s.op = "set" /\ s.n = r.n /\ s.part = "tmp"
            /\ s.pc = "mkstemp" /\ s.expiration = r.expiration /\ s.tmp = NameOf(r, TRUE)
            /\ s.real = r.real /\ s.due = r.due
        BY <1>1, <3>1, <3>4, Zenon DEF ProcOK, Fields, Idle
      <4> HIDE DEF s
      <4>3. TmpOf(s) /\ ~Early(s) /\ ~Early(r)
        BY <1>1, <3>2, <3>4, <4>2, NameIsName, Zenon DEF TmpOf, Early
      <4>4. RealOf(s) /\ \A f \in DOMAIN files : f.n = s.n /\ ~f.tmp => f = s.real
        BY <3>1, <4>2, <4>3, Zenon DEF SetOK, RealOf
      <4>5. SetOK(s, files)
        BY <4>2, <4>3, <4>4, Zenon DEF SetOK
      <4>6. ProcOK(s, files, Len(ended), stored)
        BY <3>1, <3>2, <4>2, <4>5, Zenon DEF ProcOK
      <4> QED BY <3>1, <4>1, <4>2, <4>6, Zenon
    <3> QED BY <2>3, <3>3, <3>4, Zenon
  <2> QED BY <1>2, <2>1, <2>2, <2>3, Zenon
<1>3. /\ DOMAIN proc' = Procs /\ proc'[p] = s
      /\ \A q \in Procs \ {p} : Similar(proc[q], proc'[q])
  BY Went, Zenon
<1>4. now' \in Nat
  BY <1>1, Zenon DEF KInv
<1> QED BY <1>1, <1>3, <1>4, Unwritten, Zenon
-----------------------------------------------------------------------------
(* The steps of a remove, alone or as the beginning of a set.              *)
LEMMA RemoveOpenKInv == ASSUME KInv, NEW p \in Procs, RemoveOpen(p) PROVE KInv'
<1> DEFINE r == proc[p]
           s == [(IF dir THEN Opened(r) ELSE r) EXCEPT !.pc = "remove"]
<1>1. /\ r.pc = "remove_open" /\ Goes(p, s)
      /\ UNCHANGED <<now, dir, files, ended, stored>>
      /\ ProcOK(r, files, Len(ended), stored)
  BY Zenon DEF RemoveOpen, KInv, history
<1>2. /\ DOMAIN s = Fields /\ s.op = r.op /\ s.n = r.n /\ s.part = r.part
      /\ s.pc = "remove" /\ s.expiration = r.expiration
  BY <1>1, Zenon DEF ProcOK, Opened, Fields, Idle
<1> HIDE DEF s
<1>3. ProcOK(s, files, Len(ended), stored)
  BY <1>1, <1>2, Zenon DEF ProcOK, SetOK, Early
<1> QED BY <1>1, <1>2, <1>3, OnlyProc, Zenon

\* A real file goes, or none.
LEMMA Unlinked ==
    ASSUME NEW f, \/ UNCHANGED files
                  \/ ~f.tmp /\ Keep(DOMAIN files \ {f})
                  \/ Keep(DOMAIN files)
    PROVE  /\ DOMAIN files' \subseteq DOMAIN files
           /\ \A g \in DOMAIN files' : files'[g] = files[g]
           /\ \A g \in DOMAIN files : g.tmp => g \in DOMAIN files'
BY Zenon DEF Keep, Restrict

\* remove_file unlinks real files only.
LEMMA RemoveFileKInv == ASSUME KInv, NEW p \in Procs, RemoveFile(p) PROVE KInv'
<1> DEFINE r == proc[p]
<1>1. PICK f \in Entries(r) :
         /\ Goes(p, [r EXCEPT !.seen = @ \cup {f}])
         /\ IF f.tmp THEN UNCHANGED files ELSE Keep(DOMAIN files \ {f})
  BY Zenon DEF RemoveFile
<1>2. /\ DOMAIN files' \subseteq DOMAIN files
      /\ \A g \in DOMAIN files' : files'[g] = files[g]
      /\ \A g \in DOMAIN files : g.tmp => g \in DOMAIN files'
  BY <1>1, Unlinked, Zenon
<1>3. /\ UNCHANGED <<now, dir, ended, stored>> /\ ProcOK(r, files, Len(ended), stored)
      /\ r.op = "set" => r.n \notin stored
  BY Zenon DEF RemoveFile, KInv, history, ProcOK
<1> DEFINE s == [r EXCEPT !.seen = @ \cup {f}]
<1>4. Similar(r, s)
  BY <1>3, Zenon DEF ProcOK, Similar, Fields, Idle
<1> HIDE DEF s
<1>5. /\ DOMAIN proc' = Procs /\ proc'[p] = s
      /\ \A q \in Procs \ {p} : Similar(proc[q], proc'[q])
  BY <1>1, Went, Zenon DEF s
<1>6. ProcOK(s, files', Len(ended), stored)
  <2>1. \A n : Frame(n, files, files')
    BY <1>2, Zenon DEF Frame
  <2>2. Len(ended) <= Len(ended)
    BY LenIsNat
  <2> QED BY <1>3, <1>4, <2>1, <2>2, LenIsNat, OtherOK, Zenon
<1>7. now' \in Nat /\ dir' \in BOOLEAN /\ (DOMAIN files' # {} => dir')
  BY <1>2, <1>3, Zenon DEF KInv
<1>8. s.op = r.op /\ s.n = r.n
  BY <1>4, Zenon DEF Similar
<1> QED BY <1>2, <1>3, <1>5, <1>6, <1>7, <1>8, Unwritten, Zenon

\* rmdir removes the directory only when it is empty.
LEMMA RemoveDirKInv == ASSUME KInv, NEW p \in Procs, RemoveDir(p) PROVE KInv'
<1> DEFINE r == proc[p]
<1>1. r.pc = "remove" /\ UNCHANGED <<now, files>> /\ ProcOK(r, files, Len(ended), stored)
  BY Zenon DEF RemoveDir, KInv
<1>2. PICK s : /\ GoesRmdir(p, s, DOMAIN files) /\ UNCHANGED <<ended, stored>>
               /\ DOMAIN s = Fields /\ ProcOK(s, files, Len(ended), stored)
               /\ s.op = "set" => r.op = "set" /\ s.n = r.n
  <2>1. CASE r.op = "remove"
    <3>1. DOMAIN Idle = Fields /\ Idle.op = "none"
      BY Zenon DEF Fields, Idle
    <3> QED BY <2>1, <3>1, IdleOK, Zenon DEF RemoveDir, Return
  <2>2. CASE r.op # "remove"
    <3> DEFINE s == [Closed(r) EXCEPT !.pc = "path", !.part = "real"]
    <3>1. GoesRmdir(p, s, DOMAIN files) /\ UNCHANGED <<ended, stored>>
      BY <2>2, Zenon DEF RemoveDir, history
    <3>2. /\ DOMAIN s = Fields /\ s.op = r.op /\ s.n = r.n /\ s.part = "real"
          /\ s.pc = "path" /\ s.expiration = r.expiration
      BY <1>1, Zenon DEF ProcOK, Closed, Fields, Idle
    <3> HIDE DEF s
    <3>3. r.op = "set"
      BY <1>1, <2>2, Zenon DEF ProcOK
    <3>4. ProcOK(s, files, Len(ended), stored)
      BY <1>1, <3>2, <3>3, Zenon DEF ProcOK, SetOK, Early
    <3> QED BY <3>1, <3>2, <3>3, <3>4, Zenon
  <2> QED BY <2>1, <2>2, Zenon
<1>3. /\ DOMAIN proc' = Procs /\ Similar(s, proc'[p])
      /\ \A q \in Procs \ {p} : Similar(proc[q], proc'[q])
      /\ dir' = dir \/ (dir' = FALSE /\ DOMAIN files = {})
  BY <1>2, WentRmdir, Zenon
<1>4. ProcOK(proc'[p], files', Len(ended), stored)
  <2>1. s.op = "set" => s.n \notin stored /\ Frame(s.n, files, files)
    BY <1>2, Zenon DEF ProcOK, Frame
  <2>2. Len(ended) <= Len(ended)
    BY LenIsNat
  <2> QED BY <1>1, <1>2, <1>3, <2>1, <2>2, LenIsNat, OtherOK, Zenon
<1>5. now' \in Nat /\ dir' \in BOOLEAN /\ (DOMAIN files' # {} => dir')
  <2>1. dir \in BOOLEAN /\ (DOMAIN files # {} => dir) /\ now' \in Nat /\ files' = files
    BY <1>1, Zenon DEF KInv
  <2>2. CASE dir' = dir
    BY <2>1, <2>2, Zenon
  <2>3. CASE dir' = FALSE /\ DOMAIN files = {}
    BY <2>1, <2>3, Zenon
  <2> QED BY <1>3, <2>2, <2>3, Zenon
<1>6. proc'[p].op = "set" => r.op = "set" /\ proc'[p].n = r.n
  BY <1>2, <1>3, Zenon DEF Similar
<1> QED BY <1>1, <1>2, <1>3, <1>4, <1>5, <1>6, Unwritten, Zenon
-----------------------------------------------------------------------------
(* The steps of a set.                                                     *)

\* Writing to a file changes no other.
LEMMA PutFrame ==
    ASSUME NEW f, NEW data, Put(f, data)
    PROVE  /\ DOMAIN files' = DOMAIN files \cup {f} /\ files'[f] = data
           /\ \A g \in DOMAIN files : g # f => files'[g] = files[g]
           /\ \A n : n # f.n => Frame(n, files, files')
BY Zenon DEF Put, Frame

(* What the invariant says of a process in a set.                          *)
LEMMA InSet ==
    ASSUME KInv, NEW p \in Procs, proc[p].pc \in {"mkstemp", "write", "rename", "chmod"}
    PROVE  /\ proc[p].op = "set" /\ DOMAIN proc[p] = Fields
           /\ proc[p].n \in 1..Len(ended) /\ proc[p].n \in 1..MaxSets
           /\ proc[p].n \notin stored /\ SetOK(proc[p], files)
           /\ proc[p].expiration \in Nat
<1>1. ProcOK(proc[p], files, Len(ended), stored)
  BY Zenon DEF KInv
<1>2. Len(ended) \in Nat /\ Len(ended) <= MaxSets /\ MaxSets \in Nat
  BY LenIsNat, KvstoreAssumption, Zenon DEF KInv, KvstoreAssumption
<1> QED BY <1>1, <1>2 DEF ProcOK

\* mkstemp makes an empty file, or the set fails.
LEMMA MkstempKInv == ASSUME KInv, NEW p \in Procs, Mkstemp(p) PROVE KInv'
<1> DEFINE r == proc[p]
<1>1. r.pc = "mkstemp" /\ UNCHANGED <<now, dir>>
  BY Zenon DEF Mkstemp
<1>2. /\ r.op = "set" /\ DOMAIN r = Fields /\ r.n \in 1..Len(ended) /\ r.n \in 1..MaxSets
      /\ r.n \notin stored /\ SetOK(r, files) /\ r.expiration \in Nat
  BY <1>1, InSet, Zenon
<1>3. r.part \in {"real", "tmp"} /\ RealOf(r)
  BY <1>1, <1>2, Zenon DEF SetOK, Early
<1>4. CASE ~dir
  <2>1. Goes(p, Idle) /\ UNCHANGED <<files, ended, stored>>
    BY <1>4, Zenon DEF Mkstemp, Return
  <2>2. Idle.op # "set"
    BY Zenon DEF Idle
  <2> QED BY <1>1, <2>1, <2>2, IdleOK, OnlyProc, Zenon
<1>5. CASE dir /\ r.part = "real"
  <2> DEFINE s == [r EXCEPT !.pc = "path", !.part = "tmp"]
  <2>1. Put(r.real, 0) /\ Goes(p, s) /\ UNCHANGED <<ended, stored>>
    BY <1>5, Zenon DEF Mkstemp, history
  <2>2. /\ DOMAIN s = Fields /\ s.op = "set" /\ s.n = r.n /\ s.part = "tmp"
        /\ s.pc = "path" /\ s.expiration = r.expiration /\ s.real = r.real /\ s.due = r.due
    BY <1>2, Zenon DEF Fields, Idle
  <2> HIDE DEF s
  <2>3. \A f \in DOMAIN files : f.n # r.n
    BY <1>1, <1>2, <1>5, Zenon DEF SetOK, Early
  <2>4. /\ DOMAIN files' = DOMAIN files \cup {r.real} /\ files'[r.real] = 0
        /\ \A g \in DOMAIN files : g # r.real => files'[g] = files[g]
        /\ \A n : n # r.n => Frame(n, files, files')
    BY <1>3, <2>1, PutFrame, Zenon DEF RealOf
  <2>5. FilesOK(files', Len(ended), stored)
    <3>1. 0 \in (0 - MaxSets)..MaxSets
      BY KvstoreAssumption DEF KvstoreAssumption
    <3> QED BY <1>2, <1>3, <2>4, <3>1, Zenon DEF KInv, FilesOK, RealOf
  <2>6. SetOK(s, files')
    <3>1. RealOf(s) /\ ~Early(s)
      BY <1>3, <2>2, Zenon DEF RealOf, Early
    <3>2. \A f \in DOMAIN files' : f.n = s.n /\ ~f.tmp => f = s.real
      BY <2>2, <2>3, <2>4, Zenon
    <3> QED BY <2>2, <3>1, <3>2, Zenon DEF SetOK
  <2>7. ProcOK(s, files', Len(ended), stored)
    BY <1>2, <2>2, <2>6, Zenon DEF ProcOK
  <2> QED BY <1>1, <1>2, <1>5, <2>1, <2>2, <2>4, <2>5, <2>7, Written, Zenon
<1>6. CASE dir /\ r.part = "tmp"
  <2> DEFINE s == [r EXCEPT !.pc = "write"]
  <2>1. Put(r.tmp, 0) /\ Goes(p, s) /\ UNCHANGED <<ended, stored>>
    BY <1>6, Zenon DEF Mkstemp, history
  <2>2. /\ DOMAIN s = Fields /\ s.op = "set" /\ s.n = r.n /\ s.part = "tmp" /\ s.tmp = r.tmp
        /\ s.pc = "write" /\ s.expiration = r.expiration /\ s.real = r.real /\ s.due = r.due
    BY <1>2, <1>6, Zenon DEF Fields, Idle
  <2> HIDE DEF s
  <2>3. TmpOf(r) /\ \A f \in DOMAIN files : f.n = r.n /\ ~f.tmp => f = r.real
    BY <1>1, <1>2, <1>6, Zenon DEF SetOK, Early
  <2>4. /\ DOMAIN files' = DOMAIN files \cup {r.tmp} /\ files'[r.tmp] = 0
        /\ \A g \in DOMAIN files : g # r.tmp => files'[g] = files[g]
        /\ \A n : n # r.n => Frame(n, files, files')
    BY <2>1, <2>3, PutFrame, Zenon DEF TmpOf
  <2>5. FilesOK(files', Len(ended), stored)
    <3>1. 0 \in (0 - MaxSets)..MaxSets
      BY KvstoreAssumption DEF KvstoreAssumption
    <3> QED BY <1>2, <2>3, <2>4, <3>1, Zenon DEF KInv, FilesOK, TmpOf
  <2>6. SetOK(s, files')
    <3>1. RealOf(s) /\ TmpOf(s) /\ ~Early(s)
      BY <1>3, <2>2, <2>3, Zenon DEF RealOf, TmpOf, Early
    <3>2. \A f \in DOMAIN files' : f.n = s.n /\ ~f.tmp => f = s.real
      BY <2>2, <2>3, <2>4, Zenon DEF TmpOf
    <3> QED BY <2>2, <2>4, <3>1, <3>2, Zenon DEF SetOK
  <2>7. ProcOK(s, files', Len(ended), stored)
    BY <1>2, <2>2, <2>6, Zenon DEF ProcOK
  <2> QED BY <1>1, <1>2, <1>6, <2>1, <2>2, <2>4, <2>5, <2>7, Written, Zenon
<1> QED BY <1>3, <1>4, <1>5, <1>6, Zenon

\* write changes the temporary file only.
LEMMA WriteKInv == ASSUME KInv, NEW p \in Procs, Write(p) PROVE KInv'
<1> DEFINE r == proc[p]
<1>1. r.pc = "write" /\ UNCHANGED <<now, dir>>
  BY Zenon DEF Write
<1>2. /\ r.op = "set" /\ DOMAIN r = Fields /\ r.n \in 1..Len(ended) /\ r.n \in 1..MaxSets
      /\ r.n \notin stored /\ SetOK(r, files) /\ r.expiration \in Nat
  BY <1>1, InSet, Zenon
<1>3. /\ RealOf(r) /\ TmpOf(r) /\ r.tmp \in DOMAIN files
      /\ \A f \in DOMAIN files : f.n = r.n /\ ~f.tmp => f = r.real
  BY <1>1, <1>2, Zenon DEF SetOK, Early
<1>4. ASSUME NEW data \in {0, r.n, 0 - r.n}, Put(r.tmp, data)
      PROVE  /\ DOMAIN files' = DOMAIN files /\ files'[r.tmp] = data
             /\ \A n : n # r.n => Frame(n, files, files')
             /\ FilesOK(files', Len(ended), stored)
  <2>1. /\ DOMAIN files' = DOMAIN files \cup {r.tmp} /\ files'[r.tmp] = data
        /\ \A g \in DOMAIN files : g # r.tmp => files'[g] = files[g]
        /\ \A n : n # r.n => Frame(n, files, files')
    BY <1>3, <1>4, PutFrame, Zenon DEF TmpOf
  <2>2. data \in (0 - MaxSets)..MaxSets
    BY <1>2, KvstoreAssumption DEF KvstoreAssumption
  <2>3. FilesOK(files, Len(ended), stored)
    BY Zenon DEF KInv
  <2> QED BY <1>3, <2>1, <2>2, <2>3, Zenon DEF FilesOK, TmpOf
<1>5. DOMAIN files # {} => dir
  BY Zenon DEF KInv
<1>6. CASE Put(r.tmp, r.n) /\ Goes(p, [r EXCEPT !.pc = "rename"]) /\ UNCHANGED history
  <2> DEFINE s == [r EXCEPT !.pc = "rename"]
  <2>1. /\ DOMAIN s = Fields /\ s.op = "set" /\ s.n = r.n /\ s.part = r.part /\ s.tmp = r.tmp
        /\ s.pc = "rename" /\ s.expiration = r.expiration /\ s.real = r.real /\ s.due = r.due
    BY <1>2, Zenon DEF Fields, Idle
  <2>2. Goes(p, s) /\ UNCHANGED <<ended, stored>>
    BY <1>6, Zenon DEF history
  <2> HIDE DEF s
  <2>3. /\ DOMAIN files' = DOMAIN files /\ files'[r.tmp] = r.n
        /\ \A n : n # r.n => Frame(n, files, files')
        /\ FilesOK(files', Len(ended), stored)
    BY <1>4, <1>6, Zenon
  <2>4. SetOK(s, files')
    <3>1. RealOf(s) /\ TmpOf(s) /\ ~Early(s)
      BY <1>3, <2>1, Zenon DEF RealOf, TmpOf, Early
    <3> QED BY <1>2, <1>3, <2>1, <2>3, <3>1, Zenon DEF SetOK
  <2>5. ProcOK(s, files', Len(ended), stored)
    BY <1>2, <2>1, <2>4, Zenon DEF ProcOK
  <2> QED BY <1>1, <1>2, <1>5, <2>1, <2>2, <2>3, <2>5, Written, Zenon
<1>7. CASE /\ \E data \in {0, 0 - r.n} : Put(r.tmp, data)
           /\ Goes(p, Idle) /\ Return(p, "EOTHER")
  <2>1. PICK data \in {0, 0 - r.n} : Put(r.tmp, data)
    BY <1>7, Zenon
  <2>2. /\ DOMAIN files' = DOMAIN files
        /\ \A n : n # r.n => Frame(n, files, files')
        /\ FilesOK(files', Len(ended), stored)
    BY <1>4, <2>1, Zenon
  <2>3. UNCHANGED <<ended, stored>> /\ Idle.op # "set"
    BY <1>7, Zenon DEF Return, Idle
  <2> QED BY <1>1, <1>2, <1>5, <1>7, <2>2, <2>3, IdleOK, Written, Zenon
<1> QED BY <1>6, <1>7, Zenon DEF Write

\* rename puts a whole value in place of the empty file.
LEMMA RenameKInv == ASSUME KInv, NEW p \in Procs, Rename(p) PROVE KInv'
<1> DEFINE r == proc[p]
           s == [r EXCEPT !.pc = "chmod"]
<1>1. /\ r.pc = "rename" /\ UNCHANGED <<now, dir, ended, stored>> /\ Goes(p, s)
      /\ files' = [f \in (DOMAIN files \ {r.tmp}) \cup {r.real} |->
                      IF f = r.real THEN files[r.tmp] ELSE files[f]]
  BY Zenon DEF Rename, history
<1>2. /\ r.op = "set" /\ DOMAIN r = Fields /\ r.n \in 1..Len(ended) /\ r.n \in 1..MaxSets
      /\ r.n \notin stored /\ SetOK(r, files) /\ r.expiration \in Nat
  BY <1>1, InSet, Zenon
<1>3. /\ RealOf(r) /\ TmpOf(r) /\ r.tmp \in DOMAIN files /\ files[r.tmp] = r.n
      /\ \A f \in DOMAIN files : f.n = r.n /\ ~f.tmp => f = r.real
  BY <1>1, <1>2, Zenon DEF SetOK, Early
<1>4. /\ DOMAIN s = Fields /\ s.op = "set" /\ s.n = r.n /\ s.part = r.part /\ s.tmp = r.tmp
      /\ s.pc = "chmod" /\ s.expiration = r.expiration /\ s.real = r.real /\ s.due = r.due
  BY <1>2, Zenon DEF Fields, Idle
<1> HIDE DEF s
<1>5. /\ DOMAIN files' = (DOMAIN files \ {r.tmp}) \cup {r.real} /\ files'[r.real] = r.n
      /\ \A f \in DOMAIN files \ {r.tmp} : f # r.real => files'[f] = files[f]
  BY <1>1, <1>3, Zenon
<1>6. \A n : n # r.n => Frame(n, files, files')
  BY <1>3, <1>5, Zenon DEF Frame, RealOf, TmpOf
<1>7. FilesOK(files', Len(ended), stored)
  <2>1. r.n \in (0 - MaxSets)..MaxSets
    BY <1>2, KvstoreAssumption DEF KvstoreAssumption
  <2> QED BY <1>2, <1>3, <1>5, <2>1, Zenon DEF KInv, FilesOK, RealOf
<1>8. SetOK(s, files')
  <2>1. RealOf(s) /\ ~Early(s)
    BY <1>3, <1>4, Zenon DEF RealOf, Early
  <2>2. \A f \in DOMAIN files' : f.n = s.n /\ ~f.tmp => f = s.real /\ files'[f] = s.n
    BY <1>3, <1>4, <1>5, Zenon
  <2> QED BY <1>2, <1>4, <2>1, <2>2, Zenon DEF SetOK
<1>9. ProcOK(s, files', Len(ended), stored)
  BY <1>2, <1>4, <1>8, Zenon DEF ProcOK
<1>10. DOMAIN files' # {} => dir
  BY <1>3, Zenon DEF KInv
<1> QED BY <1>1, <1>2, <1>4, <1>6, <1>7, <1>9, <1>10, Written, Zenon

\* chmod succeeds on a file that rename has put in place.
LEMMA ChmodKInv == ASSUME KInv, NEW p \in Procs, Chmod(p) PROVE KInv'
<1> DEFINE r == proc[p]
<1>1. r.pc = "chmod" /\ UNCHANGED <<now, dir, files, ended>> /\ Goes(p, Idle)
  BY Zenon DEF Chmod, Return
<1>2. r.op = "set" /\ r.n \in 1..Len(ended) /\ SetOK(r, files)
  BY <1>1, InSet, Zenon
<1>3. stored' \subseteq stored \cup {r.n}
  BY Zenon DEF Chmod, Return
<1>4. FilesOK(files', Len(ended), stored')
  <2>1. \A f \in DOMAIN files : f.n = r.n /\ ~f.tmp => files[f] = r.n
    BY <1>1, <1>2, Zenon DEF SetOK
  <2> QED BY <1>1, <1>3, <2>1, Zenon DEF KInv, FilesOK
<1>5. \A n : Frame(n, files, files')
  BY <1>1, Zenon DEF Frame
<1>6. Idle.op # "set" /\ (DOMAIN files' # {} => dir)
  BY <1>1, Zenon DEF Idle, KInv
<1> QED BY <1>1, <1>2, <1>3, <1>4, <1>5, <1>6, IdleOK, Written, Zenon
-----------------------------------------------------------------------------
(* The steps of a get: they write nothing, and take away real files only.  *)
LEMMA InGet ==
    ASSUME KInv, NEW p \in Procs,
           proc[p].pc \in {"count_open", "count", "load_open", "load", "done"}
    PROVE  /\ proc[p].op = "get" /\ proc[p].part = "get"
           /\ DOMAIN proc[p] = Fields /\ proc[p].expiration \in Nat
<1>1. ProcOK(proc[p], files, Len(ended), stored)
  BY Zenon DEF KInv
<1> QED BY <1>1, Zenon DEF ProcOK, SetOK

\* A get that goes on to another of its places is as it should be.
LEMMA GetOK ==
    ASSUME NEW r, NEW fs, NEW len, NEW done, DOMAIN r = Fields, r.expiration \in Nat,
           r.op = "get", r.part = "get",
           r.pc \in {"count_open", "count", "load_open", "load", "done"}
    PROVE  ProcOK(r, fs, len, done) /\ r.op # "set"
BY Zenon DEF ProcOK

\* A get fails.
LEMMA FailsKInv ==
    ASSUME KInv, NEW p \in Procs, NEW rc, GetFails(p, rc),
           proc[p].pc \in {"count_open", "count", "load_open", "load", "done"},
           UNCHANGED <<now, dir, files, ended, stored>>
    PROVE  KInv'
<1> DEFINE s == [Closed(proc[p]) EXCEPT !.pc = "done", !.rc = rc, !.values = <<>>]
<1>1. Goes(p, s)
  BY Zenon DEF GetFails
<1>2. /\ DOMAIN s = Fields /\ s.op = "get" /\ s.part = "get" /\ s.pc = "done"
      /\ s.expiration \in Nat
  BY InGet, Zenon DEF Closed, Fields, Idle
<1> HIDE DEF s
<1> QED BY <1>1, <1>2, GetOK, OnlyProc, Zenon

\* opendir changes nothing but its process.
LEMMA GetOpenKInv == ASSUME KInv, NEW p \in Procs, GetOpen(p) PROVE KInv'
<1> DEFINE r == proc[p]
<1>1. r.pc \in {"count_open", "load_open"} /\ UNCHANGED <<now, dir, files, ended, stored>>
  BY Zenon DEF GetOpen, history
<1>2. CASE ~dir
  <2>1. GetFails(p, "EOTHER")
    BY <1>2, Zenon DEF GetOpen
  <2> QED BY <1>1, <2>1, FailsKInv, Zenon
<1>3. CASE dir
  <2> DEFINE s == [Opened(r) EXCEPT !.pc = IF @ = "count_open" THEN "count" ELSE "load"]
  <2>1. Goes(p, s)
    BY <1>3, Zenon DEF GetOpen
  <2>2. /\ DOMAIN s = Fields /\ s.op = "get" /\ s.part = "get" /\ s.pc \in {"count", "load"}
        /\ s.expiration \in Nat
    BY <1>1, InGet, Zenon DEF Opened, Fields, Idle
  <2> HIDE DEF s
  <2> QED BY <1>1, <2>1, <2>2, GetOK, OnlyProc, Zenon
<1> QED BY <1>2, <1>3, Zenon

\* Counting changes nothing but its process.
LEMMA CountKInv == ASSUME KInv, NEW p \in Procs, Count(p) PROVE KInv'
<1> DEFINE s(f) == [proc[p] EXCEPT !.seen = @ \cup {f}, !.count = @ + 1]
<1>1. proc[p].pc = "count" /\ UNCHANGED <<now, dir, files, ended, stored>>
  BY Zenon DEF Count, history
<1>2. PICK f : Goes(p, s(f))
  BY Zenon DEF Count
<1>3. /\ DOMAIN s(f) = Fields /\ s(f).op = "get" /\ s(f).part = "get" /\ s(f).pc = "count"
      /\ s(f).expiration \in Nat
  BY <1>1, InGet, Zenon DEF Fields, Idle
<1> HIDE DEF s
<1> QED BY <1>1, <1>2, <1>3, GetOK, OnlyProc, Zenon

LEMMA CountListedKInv == ASSUME KInv, NEW p \in Procs, CountListed(p) PROVE KInv'
<1> DEFINE s == [Closed(proc[p]) EXCEPT !.pc = "load_open"]
<1>1. proc[p].pc = "count" /\ UNCHANGED <<now, dir, files, ended, stored>>
  BY Zenon DEF CountListed, history
<1>2. GetFails(p, "ENOENT") \/ Goes(p, s)
  BY Zenon DEF CountListed
<1>3. /\ DOMAIN s = Fields /\ s.op = "get" /\ s.part = "get" /\ s.pc = "load_open"
      /\ s.expiration \in Nat
  BY <1>1, InGet, Zenon DEF Closed, Fields, Idle
<1> HIDE DEF s
<1>4. CASE GetFails(p, "ENOENT")
  BY <1>1, <1>4, FailsKInv, Zenon
<1>5. CASE Goes(p, s)
  BY <1>1, <1>3, <1>5, GetOK, OnlyProc, Zenon
<1> QED BY <1>2, <1>4, <1>5, Zenon

\* Merging changes nothing but its process.
LEMMA LoadListedKInv == ASSUME KInv, NEW p \in Procs, LoadListed(p) PROVE KInv'
<1> DEFINE r == proc[p]
           s(v) == [Closed(r) EXCEPT !.pc = "done", !.values = <<>>, !.value = v]
<1>1. r.pc = "load" /\ UNCHANGED <<now, dir, files, ended, stored>>
  BY Zenon DEF LoadListed, history
<1>2. CASE GetFails(p, "ENOENT")
  BY <1>1, <1>2, FailsKInv, Zenon
<1>3. ASSUME NEW v, Goes(p, s(v)) PROVE KInv'
  <2>1. /\ DOMAIN s(v) = Fields /\ s(v).op = "get" /\ s(v).part = "get" /\ s(v).pc = "done"
        /\ s(v).expiration \in Nat
    BY <1>1, InGet, Zenon DEF Closed, Fields, Idle
  <2> HIDE DEF s
  <2> QED BY <1>1, <1>3, <2>1, GetOK, OnlyProc, Zenon
<1> QED BY <1>2, <1>3, Zenon DEF LoadListed

\* A value is loaded, or an expired one unlinked.
LEMMA LoadKInv == ASSUME KInv, NEW p \in Procs, Load(p) PROVE KInv'
<1> DEFINE r(f) == [proc[p] EXCEPT !.seen = @ \cup {f}]
           loaded(f) == [r(f) EXCEPT !.values = Append(@, [n |-> f.n, create |-> f.create,
                                                           data |-> files[f]])]
<1>1. /\ proc[p].pc = "load" /\ UNCHANGED <<now, ended, stored>>
      /\ proc[p].op = "get" /\ proc[p].part = "get"
      /\ DOMAIN proc[p] = Fields /\ proc[p].expiration \in Nat
  BY InGet, Zenon DEF Load, history
<1>2. PICK f : \/ Goes(p, r(f)) /\ UNCHANGED <<files, dir>>
               \/ Goes(p, loaded(f)) /\ UNCHANGED <<files, dir>>
               \/ GetFails(p, "EOTHER") /\ UNCHANGED <<files, dir>>
               \/ /\ ~f.tmp
                  /\ \E fs \in {DOMAIN files \ {f}, DOMAIN files} :
                        Keep(fs) /\ GoesRmdir(p, r(f), fs)
  BY Zenon DEF Load
<1>3. /\ DOMAIN r(f) = Fields /\ r(f).op = "get" /\ r(f).part = "get" /\ r(f).pc = "load"
      /\ r(f).expiration \in Nat
  BY <1>1, Zenon DEF Fields, Idle
<1>4. /\ DOMAIN loaded(f) = Fields /\ loaded(f).op = "get" /\ loaded(f).part = "get"
      /\ loaded(f).pc = "load" /\ loaded(f).expiration \in Nat
  BY <1>3, Zenon DEF Fields, Idle
<1> HIDE DEF r, loaded
<1>5. CASE \E s \in {r(f), loaded(f)} : Goes(p, s) /\ UNCHANGED <<files, dir>>
  BY <1>1, <1>3, <1>4, <1>5, GetOK, OnlyProc, Zenon
<1>6. CASE GetFails(p, "EOTHER") /\ UNCHANGED <<files, dir>>
  BY <1>1, <1>6, FailsKInv, Zenon
<1>7. ASSUME ~f.tmp, NEW fs \in {DOMAIN files \ {f}, DOMAIN files},
             Keep(fs), GoesRmdir(p, r(f), fs)
      PROVE  KInv'
  <2>1. /\ DOMAIN files' \subseteq DOMAIN files
        /\ \A g \in DOMAIN files' : files'[g] = files[g]
        /\ \A g \in DOMAIN files : g.tmp => g \in DOMAIN files'
    BY <1>7, Unlinked, Zenon
  <2>2. /\ DOMAIN proc' = Procs /\ Similar(r(f), proc'[p])
        /\ \A q \in Procs \ {p} : Similar(proc[q], proc'[q])
        /\ dir' = dir \/ (dir' = FALSE /\ fs = {})
    BY <1>3, <1>7, WentRmdir, Zenon
  <2>3. ProcOK(proc'[p], files', Len(ended), stored) /\ proc'[p].op # "set"
    BY <1>3, <2>2, GetOK, Zenon DEF Similar
  <2>4. now' \in Nat /\ dir' \in BOOLEAN /\ (DOMAIN files' # {} => dir')
    <3>1. dir \in BOOLEAN /\ (DOMAIN files # {} => dir) /\ now' \in Nat
      BY <1>1, Zenon DEF KInv
    <3>2. DOMAIN files' = fs
      BY <1>7, Zenon DEF Keep, Restrict
    <3>3. DOMAIN files' # {} => DOMAIN files # {}
      BY <2>1, Zenon
    <3>4. CASE dir' = dir
      BY <3>1, <3>3, <3>4, Zenon
    <3>5. CASE dir' = FALSE /\ fs = {}
      BY <3>1, <3>2, <3>5, Zenon
    <3> QED BY <2>2, <3>4, <3>5, Zenon
  <2> QED BY <1>1, <2>1, <2>2, <2>3, <2>4, Unwritten, Zenon
<1> QED BY <1>2, <1>5, <1>6, <1>7, Zenon

\* A get that returns, and a process that crashes.
LEMMA LeavesKInv ==
    ASSUME KInv, NEW p \in Procs, GetReturns(p) \/ Crash(p)
    PROVE  KInv'
<1>1. Goes(p, Idle) /\ UNCHANGED <<now, dir, files, ended, stored>>
  BY Zenon DEF GetReturns, Crash, history
<1>2. Idle.op # "set"
  BY Zenon DEF Idle
<1> QED BY <1>1, <1>2, IdleOK, OnlyProc, Zenon

(* A failure that kvremove ignores: nothing is written, and p leaves its   *)
(* call or goes on in it, no longer alone.                                 *)
LEMMA MissedStep ==
    ASSUME KInv, NEW p \in Procs, UnlinkFails(p) \/ RemoveFails(p)
    PROVE  \E s :
              /\ Goes(p, s) \/ GoesRmdir(p, s, DOMAIN files)
              /\ DOMAIN s = Fields /\ ProcOK(s, files, Len(ended), stored)
              /\ s.op = "none" \/ (s.op = proc[p].op /\ s.n = proc[p].n /\ ~s.quiet)
              /\ proc[p].op \in {"set", "remove"} /\ Misses(p)
              /\ dir' \in {dir, TRUE} \/ (dir' = FALSE /\ DOMAIN files = {})
<1> DEFINE r == proc[p]
<1>1. ProcOK(r, files, Len(ended), stored) /\ Misses(p) /\ r.op \in {"set", "remove"}
  BY Zenon DEF KInv, ProcOK, UnlinkFails, RemoveFails, PathFails
<1>2. CASE UnlinkFails(p)
  <2>1. PICK f : Goes(p, [r EXCEPT !.seen = @ \cup {f}, !.quiet = FALSE])
    BY <1>2, Zenon DEF UnlinkFails
  <2> DEFINE s == [r EXCEPT !.seen = @ \cup {f}, !.quiet = FALSE]
  <2>2. Similar(r, s) /\ ~s.quiet
    BY <1>1, Zenon DEF ProcOK, Similar, Fields, Idle
  <2> HIDE DEF s
  <2>3. ProcOK(s, files, Len(ended), stored)
    <3>1. r.op = "set" => r.n \notin stored /\ Frame(r.n, files, files)
      BY <1>1, Zenon DEF ProcOK, Frame
    <3>2. Len(ended) <= Len(ended)
      BY LenIsNat
    <3> QED BY <1>1, <2>2, <3>1, <3>2, LenIsNat, OtherOK, Zenon
  <2>4. Goes(p, s) /\ dir' = dir
    BY <1>2, <2>1, Zenon DEF s, UnlinkFails
  <2> QED BY <1>1, <2>2, <2>3, <2>4, Zenon DEF Similar
<1>3. CASE RemoveFails(p)
  <2> DEFINE t == [Closed(r) EXCEPT !.pc = "path", !.part = "real", !.quiet = FALSE]
             s == IF r.op = "remove" THEN Idle ELSE t
  <2>1. /\ DOMAIN t = Fields /\ t.op = r.op /\ t.n = r.n /\ t.part = "real"
        /\ t.pc = "path" /\ t.expiration = r.expiration /\ ~t.quiet
    BY <1>1, Zenon DEF ProcOK, Closed, Fields, Idle
  <2>2. DOMAIN Idle = Fields /\ Idle.op = "none"
    BY Zenon DEF Fields, Idle
  <2>3. \/ Goes(p, s) /\ r.pc = "path" /\ r.part = "remove" /\ dir' \in {dir, TRUE}
        \/ GoesRmdir(p, s, DOMAIN files) /\ r.pc \in {"remove_open", "remove"}
    BY <1>3, Zenon DEF RemoveFails, PathFails
  <2> HIDE DEF t
  <2>4. DOMAIN s = Fields
    BY <2>1, <2>2, Zenon
  <2>5. ProcOK(s, files, Len(ended), stored)
    <3>1. CASE r.op = "remove"
      BY <3>1, IdleOK, Zenon
    <3>2. CASE r.op = "set"
      BY <1>1, <2>1, <2>3, <3>2, Zenon DEF ProcOK, SetOK, Early
    <3> QED BY <1>1, <3>1, <3>2, Zenon
  <2>6. s.op = "none" \/ (s.op = r.op /\ s.n = r.n /\ ~s.quiet)
    BY <2>1, <2>2, Zenon
  <2> HIDE DEF s
  <2>7. CASE Goes(p, s) /\ r.pc = "path" /\ r.part = "remove" /\ dir' \in {dir, TRUE}
    BY <1>1, <2>4, <2>5, <2>6, <2>7, Zenon
  <2>8. CASE GoesRmdir(p, s, DOMAIN files) /\ r.pc \in {"remove_open", "remove"}
    <3>1. dir' = dir \/ (dir' = FALSE /\ DOMAIN files = {})
      BY <2>8, Zenon DEF GoesRmdir
    <3> QED BY <1>1, <2>4, <2>5, <2>6, <2>8, <3>1, Zenon
  <2> QED BY <2>3, <2>7, <2>8, Zenon
<1> QED BY <1>2, <1>3, Zenon

\* What such a failure does to the list of the sets that were over.
LEMMA MissedEnded ==
    ASSUME KInv, NEW p \in Procs, Misses(p), proc[p].op \in {"set", "remove"}
    PROVE  /\ ended' \in Seq(SUBSET Sets) /\ Len(ended') = Len(ended)
           /\ DOMAIN ended' = DOMAIN ended
           /\ \A n \in DOMAIN ended : ended'[n] \subseteq ended[n]
           /\ \A n \in stored : n \in DOMAIN ended /\ ended'[n] = ended[n]
           /\ proc[p].op = "set" => proc[p].n \in DOMAIN ended /\ ended'[proc[p].n] = {}
           /\ UNCHANGED <<now, files, stored, last>>
<1>1. ended \in Seq(SUBSET Sets) /\ stored \subseteq 1..Len(ended)
  BY Zenon DEF KInv
<1>2. DOMAIN ended = 1..Len(ended) /\ Len(ended) \in Nat
  BY <1>1
<1>3. proc[p].op = "set" => proc[p].n \in DOMAIN ended /\ proc[p].n \notin stored
  BY <1>2, Zenon DEF KInv, ProcOK
<1>4. UNCHANGED <<now, files, stored, last>>
  BY Zenon DEF Misses
<1>5. CASE proc[p].op = "set"
  <2>1. ended' = [ended EXCEPT ![proc[p].n] = {}]
    BY <1>5, Zenon DEF Misses
  <2>2. ended' \in Seq(SUBSET Sets) /\ Len(ended') = Len(ended)
    BY <1>1, <1>2, <1>3, <1>5, <2>1
  <2> QED BY <1>1, <1>2, <1>3, <1>4, <1>5, <2>1, <2>2, Zenon
<1>6. CASE proc[p].op # "set"
  <2>1. ended' = ended
    BY <1>6, Zenon DEF Misses
  <2> QED BY <1>1, <1>2, <1>4, <1>6, <2>1, Zenon
<1> QED BY <1>5, <1>6, Zenon

\* What it does to the processes.
LEMMA MissedWent ==
    ASSUME KInv, NEW p \in Procs, NEW s, DOMAIN s = Fields,
           Goes(p, s) \/ GoesRmdir(p, s, DOMAIN files)
    PROVE  /\ DOMAIN proc' = Procs /\ Similar(s, proc'[p]) /\ Alike(s, proc'[p])
           /\ \A q \in Procs \ {p} : Similar(proc[q], proc'[q]) /\ Alike(proc[q], proc'[q])
<1>1. CASE Goes(p, s)
  BY <1>1, Went, Zenon DEF Similar, Alike
<1>2. CASE GoesRmdir(p, s, DOMAIN files)
  BY <1>2, WentRmdir, Zenon
<1> QED BY <1>1, <1>2, Zenon

\* A failure that kvremove ignores.
LEMMA MissedKInv ==
    ASSUME KInv, NEW p \in Procs, UnlinkFails(p) \/ RemoveFails(p)
    PROVE  KInv'
<1>1. PICK s :
         /\ Goes(p, s) \/ GoesRmdir(p, s, DOMAIN files)
         /\ DOMAIN s = Fields /\ ProcOK(s, files, Len(ended), stored)
         /\ s.op = "none" \/ (s.op = proc[p].op /\ s.n = proc[p].n /\ ~s.quiet)
         /\ proc[p].op \in {"set", "remove"} /\ Misses(p)
         /\ dir' \in {dir, TRUE} \/ (dir' = FALSE /\ DOMAIN files = {})
  BY MissedStep, Zenon
<1>2. /\ ended' \in Seq(SUBSET Sets) /\ Len(ended') = Len(ended)
      /\ UNCHANGED <<now, files, stored, last>>
  BY <1>1, MissedEnded, Zenon
<1>3. /\ DOMAIN proc' = Procs /\ Similar(s, proc'[p])
      /\ \A q \in Procs \ {p} : Similar(proc[q], proc'[q])
  BY <1>1, MissedWent, Zenon
<1>4. now' \in Nat /\ dir' \in BOOLEAN /\ (DOMAIN files' # {} => dir')
  <2>1. now \in Nat /\ dir \in BOOLEAN /\ (DOMAIN files # {} => dir)
    BY Zenon DEF KInv
  <2>2. dir' = dir \/ dir' = TRUE \/ (dir' = FALSE /\ DOMAIN files = {})
    BY <1>1, Zenon
  <2> QED BY <1>2, <2>1, <2>2, Zenon
<1>5. ProcOK(proc'[p], files', Len(ended), stored)
  <2>1. s.op = "set" => s.n \notin stored /\ Frame(s.n, files, files)
    BY <1>1, Zenon DEF ProcOK, Frame
  <2>2. Len(ended) <= Len(ended)
    BY LenIsNat
  <2> QED BY <1>1, <1>2, <1>3, <2>1, <2>2, LenIsNat, OtherOK, Zenon
<1>6. proc'[p].op = "set" => proc[p].op = "set" /\ proc'[p].n = proc[p].n
  BY <1>1, <1>3, Zenon DEF Similar
<1> QED BY <1>2, <1>3, <1>4, <1>5, <1>6, Unended, Zenon

\* A set that fails where it is told so.
LEMMA SetFailsStep ==
    ASSUME KInv, NEW p \in Procs, SetFails(p)
    PROVE  /\ proc[p].op = "set" /\ Goes(p, Idle) /\ Return(p, "EOTHER")
           /\ UNCHANGED <<now, files, ended, stored>> /\ dir' \in {dir, TRUE}
<1>1. ProcOK(proc[p], files, Len(ended), stored)
  BY Zenon DEF KInv
<1>2. proc[p].op = "set"
  BY <1>1, Zenon DEF ProcOK, SetFails, PathFails
<1>3. Goes(p, Idle) /\ Return(p, "EOTHER") /\ dir' \in {dir, TRUE}
  BY Zenon DEF SetFails, PathFails
<1>4. UNCHANGED <<now, files, ended, stored>>
  BY <1>3, Zenon DEF SetFails, Return
<1> QED BY <1>2, <1>3, <1>4, Zenon

LEMMA SetFailsKInv == ASSUME KInv, NEW p \in Procs, SetFails(p) PROVE KInv'
<1>1. Idle.op # "set"
  BY Zenon DEF Idle
<1> QED BY <1>1, SetFailsStep, IdleOK, OnlyProc, Zenon

\* A get that fails on the way: it returns nothing, and is not alone.
LEMMA GetErrorStep ==
    ASSUME KInv, NEW p \in Procs, GetError(p)
    PROVE  \E s :
              /\ Goes(p, s) /\ DOMAIN s = Fields /\ proc[p].op = "get" /\ s.op = "get"
              /\ s.part = "get" /\ s.pc = "done" /\ s.expiration \in Nat /\ ~s.quiet
              /\ s.rc = "EOTHER" /\ s.values = <<>> /\ s.over = proc[p].over
              /\ UNCHANGED <<now, files, ended, stored, last>> /\ dir' \in {dir, TRUE}
<1> DEFINE s == [Closed(proc[p]) EXCEPT !.pc = "done", !.rc = "EOTHER", !.values = <<>>,
                                        !.quiet = FALSE]
<1>1. ProcOK(proc[p], files, Len(ended), stored)
  BY Zenon DEF KInv
<1>2. proc[p].op = "get" /\ proc[p].part = "get"
  BY <1>1, Zenon DEF ProcOK, SetOK, GetError, PathFails
<1>3. Goes(p, s) /\ UNCHANGED <<now, files, ended, stored, last>> /\ dir' \in {dir, TRUE}
  BY Zenon DEF GetError, PathFails
<1>4. /\ DOMAIN s = Fields /\ s.op = "get" /\ s.part = "get" /\ s.pc = "done"
      /\ s.expiration \in Nat /\ ~s.quiet /\ s.rc = "EOTHER" /\ s.values = <<>>
      /\ s.over = proc[p].over
  BY <1>1, <1>2, Zenon DEF ProcOK, Closed, Fields, Idle
<1> HIDE DEF s
<1> QED BY <1>2, <1>3, <1>4, Zenon

LEMMA GetErrorKInv == ASSUME KInv, NEW p \in Procs, GetError(p) PROVE KInv'
<1>1. PICK s :
         /\ Goes(p, s) /\ DOMAIN s = Fields /\ s.op = "get" /\ s.part = "get"
         /\ s.pc = "done" /\ s.expiration \in Nat
         /\ UNCHANGED <<now, files, ended, stored, last>> /\ dir' \in {dir, TRUE}
  BY GetErrorStep, Zenon
<1>2. ProcOK(s, files, Len(ended), stored) /\ s.op # "set"
  BY <1>1, GetOK, Zenon
<1> QED BY <1>1, <1>2, OnlyProc, Zenon

\* A step of the clock.
LEMMA TickKInv == ASSUME KInv, UNCHANGED <<dir, files, proc, ended, stored>>, now' \in Nat
                  PROVE  KInv'
BY Zenon DEF KInv

\* Every step preserves the invariant.
LEMMA NextKInv == KInv /\ [Next]_vars => KInv'
<1> SUFFICES ASSUME KInv, [Next]_vars PROVE KInv'
  BY Zenon
<1>1. ASSUME NEW p \in Procs, Get(p) \/ Set(p) \/ Remove(p) \/ BuildKeyPath(p) PROVE KInv'
  BY <1>1, GetKInv, SetKInv, RemoveKInv, BuildKeyPathKInv, Zenon
<1>2. ASSUME NEW p \in Procs, RemoveOpen(p) \/ RemoveFile(p) \/ RemoveDir(p) PROVE KInv'
  BY <1>2, RemoveOpenKInv, RemoveFileKInv, RemoveDirKInv, Zenon
<1>3. ASSUME NEW p \in Procs, Mkstemp(p) \/ Write(p) \/ Rename(p) \/ Chmod(p) PROVE KInv'
  BY <1>3, MkstempKInv, WriteKInv, RenameKInv, ChmodKInv, Zenon
<1>4. ASSUME NEW p \in Procs, GetOpen(p) \/ Count(p) \/ CountListed(p) PROVE KInv'
  BY <1>4, GetOpenKInv, CountKInv, CountListedKInv, Zenon
<1>5. ASSUME NEW p \in Procs, Load(p) \/ LoadListed(p) PROVE KInv'
  BY <1>5, LoadKInv, LoadListedKInv, Zenon
<1>6. ASSUME NEW p \in Procs, GetReturns(p) \/ Crash(p) PROVE KInv'
  BY <1>6, LeavesKInv, Zenon
<1>7. CASE Tick
  <2>1. PICK t \in 1..Second : now' = now + t
    BY <1>7, Zenon DEF Tick
  <2>2. now \in Nat /\ Second \in Nat
    BY KvstoreAssumption, Zenon DEF KInv, KvstoreAssumption
  <2>3. now' \in Nat
    BY <2>1, <2>2
  <2> QED BY <1>7, <2>3, TickKInv, Zenon DEF Tick
<1>8. CASE UNCHANGED vars
  <2>1. now \in Nat
    BY Zenon DEF KInv
  <2> QED BY <1>8, <2>1, TickKInv, Zenon DEF vars, history
<1>9. ASSUME NEW p \in Procs, UnlinkFails(p) \/ RemoveFails(p) \/ SetFails(p) \/ GetError(p)
      PROVE  KInv'
  BY <1>9, MissedKInv, SetFailsKInv, GetErrorKInv, Zenon
<1> QED BY <1>1, <1>2, <1>3, <1>4, <1>5, <1>6, <1>7, <1>8, <1>9, Zenon DEF Next

\* The invariant implies the property.
LEMMA KInvSuffices == KInv => TwoPhaseCommit
<1> SUFFICES ASSUME KInv PROVE TwoPhaseCommit
  BY Zenon
<1>1. DOMAIN ended = 1..Len(ended) /\ Len(ended) \in Nat /\ Len(ended) <= MaxSets
  BY LenIsNat DEF KInv
<1>2. stored \subseteq DOMAIN ended /\ DOMAIN ended \subseteq Sets
  BY <1>1, KvstoreAssumption DEF KInv, Sets, KvstoreAssumption
<1>3. Range(files) \subseteq (0 - MaxSets)..MaxSets
  BY DEF KInv, FilesOK, Range
<1> QED BY <1>2, <1>3, Zenon DEF TwoPhaseCommit, TypeOK, KInv, FilesOK

(* The two-phase commit of kvset holds for any number of processes and     *)
(* sets, whatever the interleaving of their system calls and wherever they *)
(* crash or a call fails: a part of a value is only ever in a temporary    *)
(* file, and a set that returned IB_OK is whole.                           *)
THEOREM CommitIsAtomic == Spec => []TwoPhaseCommit
<1>1. Spec => []KInv
  BY InitKInv, NextKInv, PTL DEF Spec
<1> QED BY <1>1, KInvSuffices, PTL
-----------------------------------------------------------------------------
(* Freshness.  What is known of a process stays true while only files come *)
(* that belong to sets which are not over.                                 *)
LEMMA FreshOther ==
    ASSUME NEW r, NEW s, NEW fs, NEW gs, NEW nd, NEW done, NEW done2,
           FreshOK(r, fs, nd, done), Alike(r, s), done \subseteq done2,
           r.op = "set" => r.n \in DOMAIN nd,
           \A f \in DOMAIN gs : ~f.tmp =>
               f \in DOMAIN fs \/ \A n \in DOMAIN nd : f.n \notin nd[n]
    PROVE  FreshOK(s, gs, nd, done2)
<1>1. CASE r.op = "set"
  BY <1>1, Zenon DEF FreshOK, Alike, Similar, Past, Gone
<1>2. CASE r.op = "get"
  BY <1>2, Zenon DEF FreshOK, Alike, Similar
<1>3. CASE r.op \notin {"set", "get"}
  BY <1>3, Zenon DEF FreshOK, Alike, Similar
<1> QED BY <1>1, <1>2, <1>3, Zenon

(* A step of p that starts no set preserves FInv if the real files it adds *)
(* are those of its own set, the set it ends has removed what was over     *)
(* before it, and p stays as it should be.                                 *)
LEMMA FreshStep ==
    ASSUME FInv, KInv', NEW p \in Procs, ended' = ended, stored \subseteq stored',
           \A f \in DOMAIN files' : ~f.tmp =>
               f \in DOMAIN files \/ (proc[p].op = "set" /\ f.n = proc[p].n),
           \A n \in stored' \ stored : Gone(n, files, ended),
           \A q \in Procs \ {p} : Alike(proc[q], proc'[q]),
           FreshOK(proc'[p], files', ended, stored')
    PROVE  FInv'
<1>1. \A f \in DOMAIN files' : ~f.tmp =>
          f \in DOMAIN files \/ \A n \in DOMAIN ended : f.n \notin ended[n]
  BY Zenon DEF FInv, FreshOK
<1>2. DOMAIN ended = 1..Len(ended)
  <2>1. ended \in Seq(SUBSET Sets)
    BY Zenon DEF FInv, KInv
  <2> QED BY <2>1
<1>3. \A n \in stored' : Gone(n, files', ended)
  <2>1. \A n \in stored' : n \in DOMAIN ended /\ Gone(n, files, ended)
    BY <1>2, Zenon DEF FInv, KInv
  <2> QED BY <1>1, <2>1, Zenon DEF Gone
<1>4. ASSUME NEW q \in Procs PROVE FreshOK(proc'[q], files', ended, stored')
  <2>1. CASE q = p
    BY <2>1, Zenon
  <2>2. CASE q # p
    <3>1. FreshOK(proc[q], files, ended, stored) /\ Alike(proc[q], proc'[q])
      BY <2>2, Zenon DEF FInv
    <3>2. proc[q].op = "set" => proc[q].n \in DOMAIN ended
      BY <1>2, Zenon DEF FInv, KInv, ProcOK
    <3> QED BY <1>1, <3>1, <3>2, FreshOther, Zenon
  <2> QED BY <2>1, <2>2, Zenon
<1> QED BY <1>3, <1>4, Zenon DEF FInv

(* The same for a step that adds no file and ends no set with IB_OK.       *)
LEMMA FreshGoes ==
    ASSUME FInv, KInv', NEW p \in Procs, NEW r, Goes(p, r),
           UNCHANGED <<files, ended, stored>>,
           FreshOK(r, files, ended, stored)
    PROVE  FInv'
<1>1. /\ proc'[p] = r
      /\ \A q \in Procs \ {p} : Alike(proc[q], proc'[q])
  BY Went, Zenon DEF FInv
<1> QED BY <1>1, FreshStep, Zenon

\* A process between calls is as it should be.
LEMMA IdleFresh == \A fs, nd, done : FreshOK(Idle, fs, nd, done)
BY Zenon DEF FreshOK, Idle

\* Before the first call.
LEMMA InitFInv == Init => FInv
<1> SUFFICES ASSUME Init PROVE FInv
  BY Zenon
<1>1. KInv
  BY InitKInv, Zenon
<1>2. \A p \in Procs : FreshOK(proc[p], files, ended, stored)
  BY IdleFresh, Zenon DEF Init
<1>3. DOMAIN ended = {} /\ stored = {}
  BY DEF Init
<1> QED BY <1>1, <1>2, <1>3, Zenon DEF FInv

\* A get that begins has loaded nothing.
LEMMA GetFInv == ASSUME FInv, KInv', NEW p \in Procs, Get(p) PROVE FInv'
<1> DEFINE r == [Idle EXCEPT !.op = "get", !.pc = "path", !.part = "get",
                             !.begun = now, !.quiet = Writers = {},
                             !.over = UNION {ended[n] : n \in stored}]
<1>1. Goes(p, r) /\ UNCHANGED <<files, ended, stored>>
  BY Zenon DEF Get, Calls, Event
<1>2. /\ r.op = "get" /\ r.pc = "path" /\ r.values = <<>>
      /\ r.over = UNION {ended[n] : n \in stored}
  BY Zenon DEF Idle
<1> HIDE DEF r
<1>3. FreshOK(r, files, ended, stored)
  <2>1. \A m \in r.over : \E n \in stored : m \in ended[n]
    BY <1>2, Zenon
  <2>2. r.values \in Seq(Values) /\ DOMAIN r.values = {}
    BY <1>2
  <2> QED BY <1>2, <2>1, <2>2, Zenon DEF FreshOK
<1> QED BY <1>1, <1>3, FreshGoes, Zenon

\* A remove that begins changes no file.
LEMMA RemoveFInv == ASSUME FInv, KInv', NEW p \in Procs, Remove(p) PROVE FInv'
<1> DEFINE i == [Idle EXCEPT !.op = "remove"]
           r == [i EXCEPT !.pc = "path", !.part = "remove"]
<1>1. Begins(p, i) /\ UNCHANGED <<files, ended, stored>>
  BY Zenon DEF Remove, Calls
<1>2. DOMAIN i = Fields
  BY Zenon DEF Idle, Fields
<1>3. r.op = "remove"
  BY Zenon DEF Idle
<1> HIDE DEF i
<1>4. Similar(r, proc'[p]) /\ \A q \in Procs \ {p} : Alike(proc[q], proc'[q])
  BY <1>1, <1>2, Begun, Zenon DEF FInv
<1>5. FreshOK(proc'[p], files', ended, stored')
  BY <1>3, <1>4, Zenon DEF FreshOK, Similar
<1> QED BY <1>1, <1>4, <1>5, FreshStep, Zenon

(* A set that begins is over in no list, and its own list leaves out the   *)
(* sets that run.                                                          *)
LEMMA SetFInv == ASSUME FInv, KInv', NEW p \in Procs, Set(p) PROVE FInv'
<1>1. /\ UNCHANGED <<files, stored>>
      /\ ended' = Append(ended, DOMAIN ended \ {proc[q].n : q \in Procs})
  BY Zenon DEF Set, Calls
<1>2. PICK e \in Expirations :
         Begins(p, [Idle EXCEPT !.op = "set", !.n = Len(ended) + 1, !.expiration = e])
  BY Zenon DEF Set
<1> DEFINE i == [Idle EXCEPT !.op = "set", !.n = Len(ended) + 1, !.expiration = e]
           r == [i EXCEPT !.pc = "path", !.part = "remove"]
<1>3. DOMAIN i = Fields
  BY Zenon DEF Idle, Fields
<1>4. r.op = "set" /\ r.pc = "path" /\ r.part = "remove" /\ r.n = Len(ended) + 1
  BY Zenon DEF Idle
<1> HIDE DEF i
<1>5. Similar(r, proc'[p]) /\ \A q \in Procs \ {p} : Alike(proc[q], proc'[q])
  BY <1>2, <1>3, Begun, Zenon DEF i, FInv
<1> HIDE DEF r
<1>6. /\ ended \in Seq(SUBSET Sets) /\ Len(ended) \in Nat /\ DOMAIN ended = 1..Len(ended)
      /\ stored \subseteq DOMAIN ended
  <2>1. ended \in Seq(SUBSET Sets) /\ stored \subseteq 1..Len(ended)
    BY Zenon DEF FInv, KInv
  <2> QED BY <2>1
<1>7. /\ DOMAIN ended' = 1..(Len(ended) + 1)
      /\ \A n \in DOMAIN ended : ended'[n] = ended[n]
      /\ ended'[Len(ended) + 1] = DOMAIN ended \ {proc[q].n : q \in Procs}
  <2>1. DOMAIN ended \ {proc[q].n : q \in Procs} \in SUBSET Sets
    <3>1. Len(ended) < MaxSets /\ MaxSets \in Nat
      BY KvstoreAssumption, Zenon DEF Set, KvstoreAssumption
    <3> QED BY <1>6, <3>1 DEF Sets
  <2> QED BY <1>1, <1>6, <2>1
<1>8. DOMAIN ended \subseteq DOMAIN ended' /\ Len(ended) + 1 \notin DOMAIN ended
  BY <1>6, <1>7
<1>9. \A n \in DOMAIN ended' : n \in DOMAIN ended \/ n = Len(ended) + 1
  BY <1>6, <1>7
<1>10. \A n \in DOMAIN ended' : ended'[n] \subseteq DOMAIN ended
  BY <1>7, <1>9, Zenon DEF FInv
<1>11. \A n \in stored' : Gone(n, files', ended')
  BY <1>1, <1>6, <1>7, Zenon DEF FInv, Gone
<1>12. FreshOK(proc'[p], files', ended', stored')
  <2>1. \A n \in DOMAIN ended' : proc'[p].n \notin ended'[n]
    BY <1>4, <1>5, <1>8, <1>10, Zenon DEF Similar
  <2>2. proc'[p].op = "set" /\ proc'[p].pc = "path" /\ ~Past(proc'[p])
    BY <1>4, <1>5, Zenon DEF Similar, Past
  <2> QED BY <2>1, <2>2, Zenon DEF FreshOK
<1>13. ASSUME NEW q \in Procs \ {p} PROVE FreshOK(proc'[q], files', ended', stored')
  <2>1. /\ FreshOK(proc[q], files, ended, stored) /\ Alike(proc[q], proc'[q])
        /\ proc[q].op = "set" => proc[q].n \in DOMAIN ended
    <3>1. ProcOK(proc[q], files, Len(ended), stored) /\ FreshOK(proc[q], files, ended, stored)
      BY Zenon DEF FInv, KInv
    <3>2. proc[q].op = "set" => proc[q].n \in DOMAIN ended
      BY <1>6, <3>1, Zenon DEF ProcOK
    <3> QED BY <1>5, <3>1, <3>2, Zenon
  <2>2. CASE proc[q].op = "set"
    <3>1. \A n \in DOMAIN ended' : proc[q].n \notin ended'[n]
      <4>1. \A n \in DOMAIN ended : proc[q].n \notin ended'[n]
        BY <1>7, <2>1, <2>2, Zenon DEF FreshOK
      <4>2. proc[q].n \notin ended'[Len(ended) + 1]
        BY <1>7, Zenon
      <4> QED BY <1>9, <4>1, <4>2, Zenon
    <3>2. ended'[proc[q].n] = ended[proc[q].n]
      BY <1>7, <2>1, <2>2, Zenon
    <3> QED BY <1>1, <2>1, <2>2, <3>1, <3>2, Zenon DEF FreshOK, Alike, Similar, Past, Gone
  <2>3. CASE proc[q].op = "get"
    <3>1. \A n \in stored : ended'[n] = ended[n]
      BY <1>6, <1>7, Zenon
    <3> QED BY <1>1, <2>1, <2>3, <3>1, Zenon DEF FreshOK, Alike, Similar
  <2>4. CASE proc[q].op \notin {"set", "get"}
    BY <2>1, <2>4, Zenon DEF FreshOK, Alike, Similar
  <2> QED BY <2>2, <2>3, <2>4, Zenon
<1> QED BY <1>8, <1>10, <1>11, <1>12, <1>13, Zenon DEF FInv

\* A process goes on in its call with what FInv speaks of unchanged.
LEMMA SameFresh ==
    ASSUME NEW r, NEW s, NEW fs, NEW nd, NEW done, FreshOK(r, fs, nd, done),
           s.op = r.op, s.n = r.n, s.over = r.over, s.values = r.values,
           s.pc \notin {"remove", "done"}, Past(s) => Past(r)
    PROVE  FreshOK(s, fs, nd, done)
BY Zenon DEF FreshOK

\* build_key_path adds no file.
LEMMA BuildKeyPathFInv == ASSUME FInv, KInv', NEW p \in Procs, BuildKeyPath(p) PROVE FInv'
<1> DEFINE r == proc[p]
<1>1. /\ r.pc = "path" /\ UNCHANGED <<files, ended, stored>>
      /\ ProcOK(r, files, Len(ended), stored) /\ FreshOK(r, files, ended, stored)
      /\ DOMAIN r = Fields
  BY Zenon DEF BuildKeyPath, FInv, KInv, ProcOK, history
<1>2. r.part \in {"get", "remove", "real", "tmp"}
  BY <1>1, Zenon DEF ProcOK, SetOK
<1>3. PICK s : /\ Goes(p, s)
               /\ s.op = r.op /\ s.n = r.n /\ s.over = r.over /\ s.values = r.values
               /\ s.pc \notin {"remove", "done"} /\ (Past(s) => Past(r))
  <2>1. CASE r.part = "get"
    <3> DEFINE s == [r EXCEPT !.pc = "count_open"]
    <3>1. Goes(p, s)
      BY <2>1, Zenon DEF BuildKeyPath
    <3> QED BY <1>1, <3>1 DEF Past, Fields, Idle
  <2>2. CASE r.part = "remove"
    <3> DEFINE s == [r EXCEPT !.pc = "remove_open"]
    <3>1. Goes(p, s)
      BY <2>2, Zenon DEF BuildKeyPath
    <3> QED BY <1>1, <3>1 DEF Past, Fields, Idle
  <2>3. CASE r.part = "real"
    <3> DEFINE s == [r EXCEPT !.pc = "mkstemp", !.real = NameOf(r, FALSE), !.due = now + r.expiration]
    <3>1. Goes(p, s)
      BY <2>3, Zenon DEF BuildKeyPath
    <3> QED BY <1>1, <2>3, <3>1, Zenon DEF Past, Fields, Idle
  <2>4. CASE r.part = "tmp"
    <3> DEFINE s == [r EXCEPT !.pc = "mkstemp", !.tmp = NameOf(r, TRUE)]
    <3>1. Goes(p, s)
      BY <2>4, Zenon DEF BuildKeyPath
    <3> QED BY <1>1, <2>4, <3>1, Zenon DEF Past, Fields, Idle
  <2> QED BY <1>2, <2>1, <2>2, <2>3, <2>4, Zenon
<1>4. FreshOK(s, files, ended, stored)
  BY <1>1, <1>3, SameFresh, Zenon
<1> QED BY <1>1, <1>3, <1>4, FreshGoes, Zenon

\* The listing begins with all the files, or there are none.
LEMMA RemoveOpenFInv == ASSUME FInv, KInv', NEW p \in Procs, RemoveOpen(p) PROVE FInv'
<1> DEFINE r == proc[p]
           s == [(IF dir THEN Opened(r) ELSE r) EXCEPT !.pc = "remove"]
<1>1. /\ r.pc = "remove_open" /\ Goes(p, s) /\ UNCHANGED <<files, ended, stored>>
      /\ FreshOK(r, files, ended, stored) /\ DOMAIN r = Fields
      /\ r.op \in {"remove", "set"}
  BY Zenon DEF RemoveOpen, FInv, KInv, ProcOK, history
<1>2. DOMAIN files # {} => dir
  BY Zenon DEF FInv, KInv
<1>3. s.op = r.op /\ s.n = r.n /\ s.pc = "remove" /\ ~Past(s)
  BY <1>1, Zenon DEF Opened, Past, Fields, Idle
<1>4. dir => s.snap = DOMAIN files /\ s.seen = {}
  BY <1>1, Zenon DEF Opened, Fields, Idle
<1> HIDE DEF s
<1>5. \A f \in DOMAIN files : f \in s.snap \ s.seen
  BY <1>2, <1>4, Zenon
<1>6. FreshOK(s, files, ended, stored)
  BY <1>1, <1>3, <1>5, Zenon DEF FreshOK
<1> QED BY <1>1, <1>6, FreshGoes, Zenon

\* What the listing has returned is unlinked.
LEMMA RemoveFileFInv == ASSUME FInv, KInv', NEW p \in Procs, RemoveFile(p) PROVE FInv'
<1> DEFINE r == proc[p]
<1>1. PICK f \in Entries(r) :
         /\ Goes(p, [r EXCEPT !.seen = @ \cup {f}])
         /\ IF f.tmp THEN UNCHANGED files ELSE Keep(DOMAIN files \ {f})
  BY Zenon DEF RemoveFile
<1> DEFINE s == [r EXCEPT !.seen = @ \cup {f}]
<1>2. /\ r.pc = "remove" /\ UNCHANGED <<ended, stored>>
      /\ FreshOK(r, files, ended, stored) /\ DOMAIN r = Fields
      /\ r.op \in {"remove", "set"}
  BY Zenon DEF RemoveFile, FInv, KInv, ProcOK, history
<1>3. /\ s.op = r.op /\ s.n = r.n /\ s.pc = "remove" /\ s.snap = r.snap
      /\ s.seen = r.seen \cup {f}
  BY <1>2, Zenon DEF Fields, Idle
<1> HIDE DEF s
<1>4. proc'[p] = s /\ \A q \in Procs \ {p} : Alike(proc[q], proc'[q])
  BY <1>1, Went, Zenon DEF s, FInv
<1>5. \A g \in DOMAIN files' : g \in DOMAIN files /\ (g = f => g.tmp)
  BY <1>1, Zenon DEF Keep, Restrict
<1>6. FreshOK(s, files', ended, stored')
  BY <1>2, <1>3, <1>5, Zenon DEF FreshOK, Past
<1> QED BY <1>2, <1>4, <1>5, <1>6, FreshStep, Zenon

\* The listing is complete: nothing that was over is left.
LEMMA RemoveDirFInv == ASSUME FInv, KInv', NEW p \in Procs, RemoveDir(p) PROVE FInv'
<1> DEFINE r == proc[p]
<1>1. /\ r.pc = "remove" /\ files' = files /\ Listed(r)
      /\ FreshOK(r, files, ended, stored) /\ DOMAIN r = Fields
      /\ r.op \in {"remove", "set"}
  BY Zenon DEF RemoveDir, FInv, KInv, ProcOK
<1>2. PICK s : /\ GoesRmdir(p, s, DOMAIN files) /\ UNCHANGED <<ended, stored>>
               /\ DOMAIN s = Fields /\ FreshOK(s, files, ended, stored)
  <2>1. CASE r.op = "remove"
    <3>1. DOMAIN Idle = Fields
      BY Zenon DEF Fields
    <3> QED BY <2>1, <3>1, IdleFresh, Zenon DEF RemoveDir, Return
  <2>2. CASE r.op # "remove"
    <3> DEFINE s == [Closed(r) EXCEPT !.pc = "path", !.part = "real"]
    <3>1. GoesRmdir(p, s, DOMAIN files) /\ UNCHANGED <<ended, stored>>
      BY <2>2, Zenon DEF RemoveDir, history
    <3>2. DOMAIN s = Fields /\ s.op = r.op /\ s.n = r.n /\ s.pc = "path"
      BY <1>1, Zenon DEF Closed, Fields, Idle
    <3> HIDE DEF s
    <3>3. r.op = "set"
      BY <1>1, <2>2, Zenon
    <3>4. Gone(r.n, files, ended)
      BY <1>1, <3>3, Zenon DEF FreshOK, Gone, Listed
    <3>5. FreshOK(s, files, ended, stored)
      BY <1>1, <3>2, <3>3, <3>4, Zenon DEF FreshOK
    <3> QED BY <3>1, <3>2, <3>5, Zenon
  <2> QED BY <2>1, <2>2, Zenon
<1>3. Alike(s, proc'[p]) /\ \A q \in Procs \ {p} : Alike(proc[q], proc'[q])
  BY <1>2, WentRmdir, Zenon DEF FInv
<1>4. FreshOK(proc'[p], files', ended, stored')
  <2>1. proc'[p].op = "set" => s.op = "set"
    BY <1>3, Zenon DEF Alike, Similar
  <2> QED BY <1>1, <1>2, <1>3, Zenon DEF FreshOK, Alike, Similar, Past, Gone
<1> QED BY <1>1, <1>2, <1>3, <1>4, FreshStep, Zenon

\* A set that fails, a get that returns and a process that crashes.
LEMMA LeavesFInv ==
    ASSUME FInv, KInv', NEW p \in Procs, Goes(p, Idle), UNCHANGED <<ended, stored>>,
           \A f \in DOMAIN files' : ~f.tmp => f \in DOMAIN files
    PROVE  FInv'
<1>1. proc'[p] = Idle /\ \A q \in Procs \ {p} : Alike(proc[q], proc'[q])
  BY Went, Zenon DEF FInv
<1> QED BY <1>1, IdleFresh, FreshStep, Zenon

(* A set that is past its remove goes on to s, and adds at most a real     *)
(* file of its own or a temporary one.                                     *)
LEMMA PastFInv ==
    ASSUME FInv, KInv', NEW p \in Procs, NEW s, Goes(p, s),
           proc[p].op = "set", Past(proc[p]), UNCHANGED <<ended, stored>>,
           s.op = "set", s.n = proc[p].n, s.pc # "remove",
           \A f \in DOMAIN files' : ~f.tmp => f \in DOMAIN files \/ f.n = proc[p].n
    PROVE  FInv'
<1>1. proc'[p] = s /\ \A q \in Procs \ {p} : Alike(proc[q], proc'[q])
  BY Went, Zenon DEF FInv
<1>2. FreshOK(proc[p], files, ended, stored) /\ proc[p].n \in DOMAIN ended
  <2>1. KInv /\ FreshOK(proc[p], files, ended, stored)
    BY Zenon DEF FInv
  <2>2. ended \in Seq(SUBSET Sets) /\ ProcOK(proc[p], files, Len(ended), stored)
    BY <2>1, Zenon DEF KInv
  <2>3. proc[p].n \in 1..Len(ended)
    BY <2>2, Zenon DEF ProcOK
  <2>4. DOMAIN ended = 1..Len(ended)
    BY <2>2
  <2> QED BY <2>1, <2>3, <2>4, Zenon
<1>3. FreshOK(s, files', ended, stored)
  BY <1>2, Zenon DEF FreshOK, Gone
<1> QED BY <1>1, <1>3, FreshStep, Zenon

\* The empty file is of a set that runs.
LEMMA MkstempFInv == ASSUME FInv, KInv', NEW p \in Procs, Mkstemp(p) PROVE FInv'
<1> DEFINE r == proc[p]
<1>1. r.pc = "mkstemp"
  BY Zenon DEF Mkstemp
<1>2. r.op = "set" /\ DOMAIN r = Fields /\ SetOK(r, files) /\ Past(r)
  BY <1>1, InSet, Zenon DEF FInv, Past
<1>3. RealOf(r) /\ (r.part = "tmp" => TmpOf(r))
  BY <1>1, <1>2, Zenon DEF SetOK, Early
<1>4. CASE ~dir
  BY <1>4, LeavesFInv, Zenon DEF Mkstemp, Return
<1>5. CASE dir
  <2> DEFINE s == IF r.part = "tmp" THEN [r EXCEPT !.pc = "write"]
                  ELSE [r EXCEPT !.pc = "path", !.part = "tmp"]
             f == IF r.part = "tmp" THEN r.tmp ELSE r.real
  <2>1. Put(f, 0) /\ Goes(p, s) /\ UNCHANGED <<ended, stored>>
    BY <1>5, Zenon DEF Mkstemp, history
  <2>2. s.op = "set" /\ s.n = r.n /\ s.pc # "remove"
    BY <1>2, Zenon DEF Fields, Idle
  <2>3. DOMAIN files' = DOMAIN files \cup {f} /\ f.n = r.n
    BY <1>3, <2>1, PutFrame, Zenon DEF RealOf, TmpOf
  <2> HIDE DEF s, f
  <2> QED BY <1>2, <2>1, <2>2, <2>3, PastFInv, Zenon
<1> QED BY <1>4, <1>5, Zenon

\* write adds no file.
LEMMA WriteFInv == ASSUME FInv, KInv', NEW p \in Procs, Write(p) PROVE FInv'
<1> DEFINE r == proc[p]
           s == [r EXCEPT !.pc = "rename"]
<1>1. r.pc = "write"
  BY Zenon DEF Write
<1>2. r.op = "set" /\ DOMAIN r = Fields /\ SetOK(r, files) /\ Past(r)
  BY <1>1, InSet, Zenon DEF FInv, Past
<1>3. r.tmp \in DOMAIN files
  BY <1>1, <1>2, Zenon DEF SetOK
<1>4. \A data : Put(r.tmp, data) => DOMAIN files' = DOMAIN files
  BY <1>3, Zenon DEF Put
<1>5. s.op = "set" /\ s.n = r.n /\ s.pc # "remove"
  BY <1>2, Zenon DEF Fields, Idle
<1>6. CASE Put(r.tmp, r.n) /\ Goes(p, s) /\ UNCHANGED history
  <2>1. DOMAIN files' = DOMAIN files /\ UNCHANGED <<ended, stored>>
    BY <1>4, <1>6, Zenon DEF history
  <2> HIDE DEF s
  <2> QED BY <1>2, <1>5, <1>6, <2>1, PastFInv, Zenon
<1>7. CASE /\ \E data \in {0, 0 - r.n} : Put(r.tmp, data)
           /\ Goes(p, Idle) /\ Return(p, "EOTHER")
  <2>1. DOMAIN files' = DOMAIN files /\ UNCHANGED <<ended, stored>>
    BY <1>4, <1>7, Zenon DEF Return
  <2> QED BY <1>7, <2>1, LeavesFInv, Zenon
<1> QED BY <1>6, <1>7, Zenon DEF Write

\* The renamed file is of a set that runs.
LEMMA RenameFInv == ASSUME FInv, KInv', NEW p \in Procs, Rename(p) PROVE FInv'
<1> DEFINE r == proc[p]
           s == [r EXCEPT !.pc = "chmod"]
<1>1. /\ r.pc = "rename" /\ UNCHANGED <<ended, stored>> /\ Goes(p, s)
      /\ DOMAIN files' = (DOMAIN files \ {r.tmp}) \cup {r.real}
  BY Zenon DEF Rename, history
<1>2. r.op = "set" /\ DOMAIN r = Fields /\ SetOK(r, files) /\ Past(r)
  BY <1>1, InSet, Zenon DEF FInv, Past
<1>3. r.real.n = r.n
  BY <1>1, <1>2, Zenon DEF SetOK, Early, RealOf
<1>4. s.op = "set" /\ s.n = r.n /\ s.pc # "remove"
  BY <1>2, Zenon DEF Fields, Idle
<1> HIDE DEF s
<1> QED BY <1>1, <1>2, <1>3, <1>4, PastFInv, Zenon

\* A set that returns IB_OK had removed what was over before it.
LEMMA ChmodFInv == ASSUME FInv, KInv', NEW p \in Procs, Chmod(p) PROVE FInv'
<1>1. /\ proc[p].pc = "chmod" /\ UNCHANGED <<files, ended>> /\ Goes(p, Idle)
      /\ stored \subseteq stored' /\ stored' \subseteq stored \cup {proc[p].n}
  BY Zenon DEF Chmod, Return
<1>2. proc[p].op = "set" /\ Past(proc[p])
  BY <1>1, InSet, Zenon DEF FInv, Past
<1>3. Gone(proc[p].n, files, ended)
  BY <1>2, Zenon DEF FInv, FreshOK
<1>4. proc'[p] = Idle /\ \A q \in Procs \ {p} : Alike(proc[q], proc'[q])
  BY <1>1, Went, Zenon DEF FInv
<1> QED BY <1>1, <1>3, <1>4, IdleFresh, FreshStep, Zenon
-----------------------------------------------------------------------------
\* A get that fails has nothing to return.
LEMMA FailsFInv ==
    ASSUME FInv, KInv', NEW p \in Procs, NEW rc, GetFails(p, rc), rc # "OK",
           proc[p].pc \in {"count_open", "count", "load_open", "load", "done"},
           UNCHANGED <<files, ended, stored>>
    PROVE  FInv'
<1> DEFINE s == [Closed(proc[p]) EXCEPT !.pc = "done", !.rc = rc, !.values = <<>>]
<1>1. Goes(p, s)
  BY Zenon DEF GetFails
<1>2. proc[p].op = "get" /\ DOMAIN proc[p] = Fields /\ FreshOK(proc[p], files, ended, stored)
  BY InGet, Zenon DEF FInv
<1>3. s.op = "get" /\ s.over = proc[p].over /\ s.values = <<>> /\ s.rc = rc
  BY <1>2, Zenon DEF Closed, Fields, Idle
<1> HIDE DEF s
<1>4. s.values \in Seq(Values) /\ DOMAIN s.values = {}
  BY <1>3
<1>5. FreshOK(s, files, ended, stored)
  BY <1>2, <1>3, <1>4, Zenon DEF FreshOK
<1> QED BY <1>1, <1>5, FreshGoes, Zenon

\* opendir loads nothing.
LEMMA GetOpenFInv == ASSUME FInv, KInv', NEW p \in Procs, GetOpen(p) PROVE FInv'
<1> DEFINE r == proc[p]
           s == [Opened(r) EXCEPT !.pc = IF @ = "count_open" THEN "count" ELSE "load"]
<1>1. r.pc \in {"count_open", "load_open"} /\ UNCHANGED <<files, ended, stored>>
  BY Zenon DEF GetOpen, history
<1>2. r.op = "get" /\ DOMAIN r = Fields /\ FreshOK(r, files, ended, stored)
  BY <1>1, InGet, Zenon DEF FInv
<1>3. CASE ~dir
  <2>1. GetFails(p, "EOTHER")
    BY <1>3, Zenon DEF GetOpen
  <2> QED BY <1>1, <2>1, FailsFInv, Zenon
<1>4. CASE dir
  <2>1. Goes(p, s)
    BY <1>4, Zenon DEF GetOpen
  <2>2. /\ s.op = r.op /\ s.n = r.n /\ s.over = r.over /\ s.values = r.values
        /\ s.pc \notin {"remove", "done"} /\ (Past(s) => Past(r))
    BY <1>1, <1>2, Zenon DEF Opened, Past, Fields, Idle
  <2> HIDE DEF s
  <2>3. FreshOK(s, files, ended, stored)
    BY <1>2, <2>2, SameFresh, Zenon
  <2> QED BY <1>1, <2>1, <2>3, FreshGoes, Zenon
<1> QED BY <1>3, <1>4, Zenon

\* Counting loads nothing.
LEMMA CountFInv == ASSUME FInv, KInv', NEW p \in Procs, Count(p) PROVE FInv'
<1> DEFINE r == proc[p]
           s(f) == [r EXCEPT !.seen = @ \cup {f}, !.count = @ + 1]
<1>1. r.pc = "count" /\ UNCHANGED <<files, ended, stored>>
  BY Zenon DEF Count, history
<1>2. r.op = "get" /\ DOMAIN r = Fields /\ FreshOK(r, files, ended, stored)
  BY <1>1, InGet, Zenon DEF FInv
<1>3. PICK f : Goes(p, s(f))
  BY Zenon DEF Count
<1>4. /\ s(f).op = "get" /\ s(f).over = r.over /\ s(f).values = r.values
      /\ s(f).pc = "count"
  BY <1>1, <1>2, Zenon DEF Fields, Idle
<1> HIDE DEF s
<1>5. FreshOK(s(f), files, ended, stored)
  BY <1>2, <1>4, Zenon DEF FreshOK
<1> QED BY <1>1, <1>3, <1>5, FreshGoes, Zenon

LEMMA CountListedFInv == ASSUME FInv, KInv', NEW p \in Procs, CountListed(p) PROVE FInv'
<1> DEFINE r == proc[p]
           s == [Closed(r) EXCEPT !.pc = "load_open"]
<1>1. r.pc = "count" /\ UNCHANGED <<files, ended, stored>>
  BY Zenon DEF CountListed, history
<1>2. r.op = "get" /\ DOMAIN r = Fields /\ FreshOK(r, files, ended, stored)
  BY <1>1, InGet, Zenon DEF FInv
<1>3. GetFails(p, "ENOENT") \/ Goes(p, s)
  BY Zenon DEF CountListed
<1>4. /\ s.op = r.op /\ s.n = r.n /\ s.over = r.over /\ s.values = r.values
      /\ s.pc \notin {"remove", "done"} /\ (Past(s) => Past(r))
  BY <1>1, <1>2, Zenon DEF Closed, Past, Fields, Idle
<1> HIDE DEF s
<1>5. FreshOK(s, files, ended, stored)
  BY <1>2, <1>4, SameFresh, Zenon
<1>6. CASE GetFails(p, "ENOENT")
  BY <1>1, <1>6, FailsFInv, Zenon
<1>7. CASE Goes(p, s)
  BY <1>1, <1>5, <1>7, FreshGoes, Zenon
<1> QED BY <1>3, <1>6, <1>7, Zenon

(* What is loaded is in a real file, and no real file is of a set that is  *)
(* over.                                                                   *)
LEMMA LoadFInv == ASSUME FInv, KInv', NEW p \in Procs, Load(p) PROVE FInv'
<1> DEFINE v(f) == [n |-> f.n, create |-> f.create, data |-> files[f]]
           r(f) == [proc[p] EXCEPT !.seen = @ \cup {f}]
           loaded(f) == [r(f) EXCEPT !.values = Append(@, v(f))]
<1>1. /\ proc[p].pc = "load" /\ UNCHANGED <<ended, stored>> /\ proc[p].op = "get"
      /\ DOMAIN proc[p] = Fields /\ FreshOK(proc[p], files, ended, stored)
  BY InGet, Zenon DEF Load, FInv, history
<1>2. PICK f : \/ Goes(p, r(f)) /\ UNCHANGED <<files, dir>>
               \/ Goes(p, loaded(f)) /\ UNCHANGED <<files, dir>> /\ f \in DOMAIN files /\ ~f.tmp
               \/ GetFails(p, "EOTHER") /\ UNCHANGED <<files, dir>>
               \/ \E fs \in {DOMAIN files \ {f}, DOMAIN files} :
                     Keep(fs) /\ GoesRmdir(p, r(f), fs)
  BY Zenon DEF Load
<1>3. /\ DOMAIN r(f) = Fields /\ r(f).op = "get" /\ r(f).over = proc[p].over
      /\ r(f).values = proc[p].values /\ r(f).pc = "load"
  BY <1>1, Zenon DEF Fields, Idle
<1>4. /\ loaded(f).op = "get" /\ loaded(f).over = proc[p].over /\ loaded(f).pc = "load"
      /\ loaded(f).values = Append(proc[p].values, v(f))
  BY <1>3, Zenon DEF Fields, Idle
<1> HIDE DEF r, loaded
<1>5. FreshOK(r(f), files, ended, stored)
  BY <1>1, <1>3, Zenon DEF FreshOK
<1>6. CASE Goes(p, r(f)) /\ UNCHANGED <<files, dir>>
  BY <1>1, <1>5, <1>6, FreshGoes, Zenon
<1>7. CASE Goes(p, loaded(f)) /\ UNCHANGED <<files, dir>> /\ f \in DOMAIN files /\ ~f.tmp
  <2>1. v(f) \in Values /\ f.n \notin proc[p].over
    <3>1. f \in Names /\ files[f] \in Int
      <4>1. FilesOK(files, Len(ended), stored)
        BY Zenon DEF FInv, KInv
      <4>2. f \in Names /\ files[f] \in (0 - MaxSets)..MaxSets
        BY <1>7, <4>1, Zenon DEF FilesOK
      <4> QED BY <4>2, KvstoreAssumption
    <3>2. \A n \in stored : f.n \notin ended[n]
      BY <1>7, Zenon DEF FInv, Gone
    <3> QED BY <1>1, <3>1, <3>2, Zenon DEF FreshOK, Names, Values
  <2>2. v(f).n = f.n
    BY Zenon
  <2> HIDE DEF v
  <2>3. /\ loaded(f).values \in Seq(Values)
        /\ \A i \in DOMAIN loaded(f).values : loaded(f).values[i].n \notin proc[p].over
    <3>1. proc[p].values \in Seq(Values)
      BY <1>1, Zenon DEF FreshOK
    <3>2. \A i \in DOMAIN proc[p].values : proc[p].values[i].n \notin proc[p].over
      BY <1>1, Zenon DEF FreshOK
    <3>3. \A i \in DOMAIN Append(proc[p].values, v(f)) :
             \/ i \in DOMAIN proc[p].values /\ Append(proc[p].values, v(f))[i] = proc[p].values[i]
             \/ Append(proc[p].values, v(f))[i] = v(f)
      BY <2>1, <3>1
    <3>4. Append(proc[p].values, v(f)) \in Seq(Values)
      BY <2>1, <3>1
    <3> QED BY <1>4, <2>1, <2>2, <3>2, <3>3, <3>4, Zenon
  <2>4. FreshOK(loaded(f), files, ended, stored)
    BY <1>1, <1>4, <2>3, Zenon DEF FreshOK
  <2> QED BY <1>1, <1>7, <2>4, FreshGoes, Zenon
<1>8. CASE GetFails(p, "EOTHER") /\ UNCHANGED <<files, dir>>
  BY <1>1, <1>8, FailsFInv, Zenon
<1>9. ASSUME NEW fs \in {DOMAIN files \ {f}, DOMAIN files},
             Keep(fs), GoesRmdir(p, r(f), fs)
      PROVE  FInv'
  <2>1. Alike(r(f), proc'[p]) /\ \A q \in Procs \ {p} : Alike(proc[q], proc'[q])
    BY <1>3, <1>9, WentRmdir, Zenon DEF FInv
  <2>2. \A g \in DOMAIN files' : g \in DOMAIN files
    BY <1>9, Zenon DEF Keep, Restrict
  <2>3. FreshOK(proc'[p], files', ended, stored')
    BY <1>1, <1>3, <1>5, <2>1, Zenon DEF FreshOK, Alike, Similar
  <2> QED BY <1>1, <2>1, <2>2, <2>3, FreshStep, Zenon
<1> QED BY <1>2, <1>6, <1>7, <1>8, <1>9, Zenon

\* The value returned is one of those loaded.
LEMMA LoadListedFInv == ASSUME FInv, KInv', NEW p \in Procs, LoadListed(p) PROVE FInv'
<1> DEFINE r == proc[p]
           s(v) == [Closed(r) EXCEPT !.pc = "done", !.values = <<>>, !.value = v]
<1>1. /\ r.pc = "load" /\ UNCHANGED <<files, ended, stored>> /\ r.op = "get"
      /\ DOMAIN r = Fields /\ FreshOK(r, files, ended, stored)
  BY InGet, Zenon DEF LoadListed, FInv, history
<1>2. CASE GetFails(p, "ENOENT")
  BY <1>1, <1>2, FailsFInv, Zenon
<1>3. ASSUME NEW i \in DOMAIN r.values, Goes(p, s(r.values[i])) PROVE FInv'
  <2> DEFINE t == s(r.values[i])
  <2>1. t.op = "get" /\ t.over = r.over /\ t.values = <<>> /\ t.value = r.values[i]
    BY <1>1, Zenon DEF Closed, Fields, Idle
  <2> HIDE DEF s
  <2>2. r.values[i].n \notin r.over
    BY <1>1, <1>3, Zenon DEF FreshOK
  <2>3. t.values \in Seq(Values) /\ DOMAIN t.values = {}
    BY <2>1
  <2>4. FreshOK(t, files, ended, stored)
    BY <1>1, <2>1, <2>2, <2>3, Zenon DEF FreshOK
  <2> QED BY <1>1, <1>3, <2>4, FreshGoes, Zenon
<1> QED BY <1>2, <1>3, Zenon DEF LoadListed

(* A failure that kvremove ignores: of its set, nothing is said any more   *)
(* of what it has removed.                                                 *)
LEMMA MissedFInv ==
    ASSUME FInv, KInv', NEW p \in Procs, UnlinkFails(p) \/ RemoveFails(p)
    PROVE  FInv'
<1>1. KInv
  BY Zenon DEF FInv
<1>2. PICK s :
         /\ Goes(p, s) \/ GoesRmdir(p, s, DOMAIN files)
         /\ DOMAIN s = Fields
         /\ s.op = "none" \/ (s.op = proc[p].op /\ s.n = proc[p].n /\ ~s.quiet)
         /\ proc[p].op \in {"set", "remove"} /\ Misses(p)
  BY <1>1, MissedStep, Zenon
<1>3. /\ DOMAIN ended' = DOMAIN ended
      /\ \A n \in DOMAIN ended : ended'[n] \subseteq ended[n]
      /\ \A n \in stored : n \in DOMAIN ended /\ ended'[n] = ended[n]
      /\ proc[p].op = "set" => proc[p].n \in DOMAIN ended /\ ended'[proc[p].n] = {}
      /\ UNCHANGED <<files, stored>>
  BY <1>1, <1>2, MissedEnded, Zenon
<1>4. Alike(s, proc'[p]) /\ \A q \in Procs \ {p} : Alike(proc[q], proc'[q])
  BY <1>1, <1>2, MissedWent, Zenon
<1>5. \A n \in DOMAIN ended' : ended'[n] \subseteq DOMAIN ended'
  BY <1>3, Zenon DEF FInv
<1>6. \A n \in stored' : Gone(n, files', ended')
  BY <1>3, Zenon DEF FInv, Gone
<1>7. FreshOK(proc'[p], files', ended', stored')
  <2>1. proc'[p].op = s.op /\ proc'[p].n = s.n
    BY <1>4, Zenon DEF Alike, Similar
  <2>2. CASE s.op = "set"
    <3>1. proc[p].op = "set" /\ proc'[p].n = proc[p].n
      BY <1>2, <2>1, <2>2, Zenon
    <3>2. \A n \in DOMAIN ended : proc[p].n \notin ended[n]
      BY <3>1, Zenon DEF FInv, FreshOK
    <3> QED BY <1>3, <2>1, <2>2, <3>1, <3>2, Zenon DEF FreshOK, Gone
  <2>3. CASE s.op \in {"none", "remove"}
    BY <2>1, <2>3, Zenon DEF FreshOK
  <2> QED BY <1>2, <2>2, <2>3, Zenon
<1>8. ASSUME NEW q \in Procs, q # p PROVE FreshOK(proc'[q], files', ended', stored')
  <2>1. FreshOK(proc[q], files, ended, stored) /\ Alike(proc[q], proc'[q])
    BY <1>4, <1>8, Zenon DEF FInv
  <2>2. CASE proc[q].op = "set"
    <3>1. proc[q].n \in DOMAIN ended
      <4>1. ended \in Seq(SUBSET Sets)
        BY <1>1, Zenon DEF KInv
      <4>2. DOMAIN ended = 1..Len(ended)
        BY <4>1
      <4> QED BY <1>1, <2>2, <4>2, Zenon DEF KInv, ProcOK
    <3> QED BY <1>3, <2>1, <2>2, <3>1, Zenon DEF FreshOK, Alike, Similar, Past, Gone
  <2>3. CASE proc[q].op = "get"
    BY <1>3, <2>1, <2>3, Zenon DEF FreshOK, Alike, Similar
  <2>4. CASE proc[q].op \notin {"set", "get"}
    BY <2>1, <2>4, Zenon DEF FreshOK, Alike, Similar
  <2> QED BY <2>2, <2>3, <2>4, Zenon
<1> QED BY <1>5, <1>6, <1>7, <1>8, Zenon DEF FInv

\* A set or a get that fails adds no file and has nothing to return.
LEMMA SetFailsFInv == ASSUME FInv, KInv', NEW p \in Procs, SetFails(p) PROVE FInv'
<1>1. Goes(p, Idle) /\ UNCHANGED <<files, ended, stored>>
  BY SetFailsStep, Zenon DEF FInv
<1> QED BY <1>1, LeavesFInv, Zenon

LEMMA GetErrorFInv == ASSUME FInv, KInv', NEW p \in Procs, GetError(p) PROVE FInv'
<1>1. PICK s :
         /\ Goes(p, s) /\ proc[p].op = "get" /\ s.op = "get" /\ s.pc = "done"
         /\ s.rc = "EOTHER" /\ s.values = <<>> /\ s.over = proc[p].over
         /\ UNCHANGED <<files, ended, stored>>
  BY GetErrorStep, Zenon DEF FInv
<1>2. s.values \in Seq(Values) /\ DOMAIN s.values = {}
  BY <1>1
<1>3. FreshOK(s, files, ended, stored)
  BY <1>1, <1>2, Zenon DEF FInv, FreshOK
<1> QED BY <1>1, <1>3, FreshGoes, Zenon

\* Every step preserves the invariant.
LEMMA NextFInv == FInv /\ [Next]_vars => FInv'
<1> SUFFICES ASSUME FInv, [Next]_vars PROVE FInv'
  BY Zenon
<1>0. KInv'
  BY NextKInv, Zenon DEF FInv
<1>1. ASSUME NEW p \in Procs, Get(p) \/ Set(p) \/ Remove(p) \/ BuildKeyPath(p) PROVE FInv'
  BY <1>0, <1>1, GetFInv, SetFInv, RemoveFInv, BuildKeyPathFInv, Zenon
<1>2. ASSUME NEW p \in Procs, RemoveOpen(p) \/ RemoveFile(p) \/ RemoveDir(p) PROVE FInv'
  BY <1>0, <1>2, RemoveOpenFInv, RemoveFileFInv, RemoveDirFInv, Zenon
<1>3. ASSUME NEW p \in Procs, Mkstemp(p) \/ Write(p) \/ Rename(p) \/ Chmod(p) PROVE FInv'
  BY <1>0, <1>3, MkstempFInv, WriteFInv, RenameFInv, ChmodFInv, Zenon
<1>4. ASSUME NEW p \in Procs, GetOpen(p) \/ Count(p) \/ CountListed(p) PROVE FInv'
  BY <1>0, <1>4, GetOpenFInv, CountFInv, CountListedFInv, Zenon
<1>5. ASSUME NEW p \in Procs, Load(p) \/ LoadListed(p) PROVE FInv'
  BY <1>0, <1>5, LoadFInv, LoadListedFInv, Zenon
<1>6. ASSUME NEW p \in Procs, GetReturns(p) \/ Crash(p) PROVE FInv'
  BY <1>0, <1>6, LeavesFInv, Zenon DEF GetReturns, Crash, history
<1>7. CASE UNCHANGED <<files, proc, ended, stored>>
  BY <1>0, <1>7, Zenon DEF FInv
<1>9. ASSUME NEW p \in Procs, UnlinkFails(p) \/ RemoveFails(p) \/ SetFails(p) \/ GetError(p)
      PROVE  FInv'
  BY <1>0, <1>9, MissedFInv, SetFailsFInv, GetErrorFInv, Zenon
<1> QED BY <1>1, <1>2, <1>3, <1>4, <1>5, <1>6, <1>7, <1>9, Zenon DEF Next, Tick, vars, history

(* A get never returns a value that a completed set has replaced, if       *)
(* nothing of the kvremove in that set failed, for any number of processes *)
(* and sets and wherever else they crash or fail: what was over when the   *)
(* set began is removed before the set makes its file, and cannot come     *)
(* back.                                                                   *)
THEOREM ReadsAreFresh == Spec => []FreshRead
<1>1. FInv => FreshRead
  <2> SUFFICES ASSUME FInv, NEW p \in Procs, proc[p].pc = "done", proc[p].rc = "OK"
               PROVE  proc[p].value.n \notin proc[p].over
    BY Zenon DEF FreshRead
  <2>1. proc[p].op = "get"
    BY InGet, Zenon DEF FInv
  <2> QED BY <2>1, Zenon DEF FInv, FreshOK
<1>2. Spec => []FInv
  BY InitFInv, NextFInv, PTL DEF Spec
<1> QED BY <1>1, <1>2, PTL
-----------------------------------------------------------------------------
\* When a file is no longer read.
Deadline(f) == f.expire * Second

\* Of the files l speaks of, those that can still be read at t.
Live(l, t) == {f \in l.names : t <= Deadline(f)}

\* A value that get r was given, of the file that l speaks of.
Known(v, r, l) == \E f \in l.names : v.data = f.n /\ r.begun <= Deadline(f)

Writes(r) == r.op \in {"set", "remove"}

(* A set or remove that is alone has yet to be given the real files that   *)
(* are left, and past its remove the only one is its own.                  *)
AloneOK(r, fs) ==
    /\ r.pc = "remove" => \A f \in DOMAIN fs : ~f.tmp => f \in r.snap \ r.seen
    /\ r.op = "set" /\ Past(r) => \A f \in DOMAIN fs : ~f.tmp => f.n = r.n

(* A get that is alone at t, since the last set or remove left l, has read *)
(* only what l speaks of; it has read it, or will be given it, for as long *)
(* as it can be read.                                                      *)
ReadOK(r, t, l) ==
    /\ r.begun \in Nat /\ r.begun <= t
    /\ r.pc # "done" => r.rc = "OK"
    /\ r.pc \in {"path", "count_open", "count", "load_open"} => r.values = <<>>
    /\ r.pc \in {"path", "count_open"} => r.count = 0
    /\ r.pc = "count" => /\ r.count \in Nat
                         /\ r.count = 0 => Live(l, t) \subseteq r.snap \ r.seen
    /\ r.pc \in {"load_open", "load"} => r.count \in Nat /\ r.count > 0
    /\ \A i \in DOMAIN r.values : Known(r.values[i], r, l)
    /\ r.pc = "load" =>
          /\ \A f \in r.snap : ~f.tmp => f \in l.names
          /\ r.values # <<>> \/ Live(l, t) \subseteq r.snap \ r.seen
    /\ r.pc = "done" => IF r.rc = "OK" THEN Known(r.value, r, l) ELSE Live(l, t) = {}

QuietOK(r, fs, t, l) ==
    /\ Writes(r) /\ r.quiet => AloneOK(r, fs)
    /\ r.op = "get" /\ r.quiet /\ l.known => ReadOK(r, t, l)

(* While it is known what the last set or remove left, that is the only    *)
(* real file, and it is there with its value until it expires.             *)
LastOK(fs, t, l) ==
    l.known =>
        /\ \A f \in DOMAIN fs : ~f.tmp => f \in l.names
        /\ \A f, g \in l.names : f = g
        /\ \A f \in l.names :
              /\ f \in Names /\ ~f.tmp /\ Due(f, l.due) /\ l.due \in Nat
              /\ t <= Deadline(f) => f \in DOMAIN fs /\ fs[f] = f.n

\* Whoever is alone is: the others do not write.
Alone ==
    /\ last.known => \A q \in Procs : ~Writes(proc[q])
    /\ \A p, q \in Procs :
          proc[p].op # "none" /\ proc[p].quiet /\ Writes(proc[q]) => p = q

(* The inductive invariant behind ReadsLast.                               *)
RInv ==
    /\ FInv
    /\ Alone
    /\ LastOK(files, now, last)
    /\ \A p \in Procs : QuietOK(proc[p], files, now, last)
-----------------------------------------------------------------------------
\* They also agree on what RInv speaks of.
Same(r, s) ==
    Alike(r, s) /\ s.quiet = r.quiet /\ s.begun = r.begun /\ s.count = r.count

\* Goes and GoesRmdir leave the other processes as they are.
LEMMA WentSame ==
    ASSUME KInv, NEW p \in Procs, NEW r, DOMAIN r = Fields,
           Goes(p, r) \/ \E fs : GoesRmdir(p, r, fs)
    PROVE  Same(r, proc'[p]) /\ \A q \in Procs \ {p} : Same(proc[q], proc'[q])
<1>1. \A q \in Procs : DOMAIN proc[q] = Fields
  BY Zenon DEF KInv, ProcOK
<1>2. DOMAIN proc = Procs
  BY Zenon DEF KInv
<1>3. CASE Goes(p, r)
  BY <1>1, <1>2, <1>3, Zenon DEF Goes, Same, Alike, Similar
<1>4. CASE proc' = [q \in Procs |-> [(IF q = p THEN r ELSE proc[q]) EXCEPT !.open = FALSE]]
  <2>1. ASSUME NEW s, DOMAIN s = Fields PROVE Same(s, [s EXCEPT !.open = FALSE])
    BY <2>1, Zenon DEF Same, Alike, Similar, Fields, Idle
  <2>2. Same(r, proc'[p])
    <3>1. proc'[p] = [r EXCEPT !.open = FALSE]
      BY <1>4, Zenon
    <3> QED BY <2>1, <3>1, Zenon
  <2>3. ASSUME NEW q \in Procs \ {p} PROVE Same(proc[q], proc'[q])
    <3>1. proc'[q] = [proc[q] EXCEPT !.open = FALSE]
      BY <1>4, Zenon
    <3>2. DOMAIN proc[q] = Fields
      BY <1>1, Zenon
    <3> QED BY <2>1, <3>1, <3>2, Zenon
  <2> QED BY <2>2, <2>3, Zenon
<1> QED BY <1>3, <1>4, Zenon DEF GoesRmdir

LEMMA SameTime == ASSUME now \in Nat, now' = now PROVE now <= now'
OBVIOUS

\* A deadline is a time.
LEMMA DeadlineIsTime == ASSUME NEW f \in Names PROVE Deadline(f) \in Nat
<1>1. f.expire \in Nat /\ Second \in Nat
  BY KvstoreAssumption, Zenon DEF KvstoreAssumption, Names
<1> QED BY <1>1 DEF Deadline

\* A file that has not expired is in time.
LEMMA InTime ==
    ASSUME NEW f \in Names, NEW t \in Nat, ~Expired(f, t)
    PROVE  t <= Deadline(f)
<1>1. PICK d \in Nat : d = Deadline(f)
  BY DeadlineIsTime, Zenon
<1>2. ~(t > d)
  BY <1>1, Zenon DEF Expired, Deadline
<1>3. t <= d
  BY <1>2
<1> QED BY <1>1, <1>3, Zenon

\* What can be read at a later time can be read now.
LEMMA LiveShrinks ==
    ASSUME NEW l, l.names \subseteq Names, NEW t \in Nat, NEW u \in Nat, t <= u
    PROVE  Live(l, u) \subseteq Live(l, t)
<1> SUFFICES ASSUME NEW f \in l.names, u <= Deadline(f) PROVE t <= Deadline(f)
  BY Zenon DEF Live
<1>1. Deadline(f) \in Nat
  BY DeadlineIsTime, Zenon
<1> QED BY <1>1

(* What is known of a process stays true of one alike as time passes and   *)
(* files go.                                                               *)
LEMMA QuietLater ==
    ASSUME NEW r, NEW s, NEW fs, NEW gs, NEW t \in Nat, NEW u \in Nat, NEW l,
           l.known => l.names \subseteq Names,
           QuietOK(r, fs, t, l), Same(r, s), t <= u,
           DOMAIN gs \subseteq DOMAIN fs
    PROVE  QuietOK(s, gs, u, l)
<1>1. Writes(s) /\ s.quiet => AloneOK(s, gs)
  BY Zenon DEF QuietOK, Writes, AloneOK, Past, Same, Alike, Similar
<1>2. ASSUME s.op = "get", s.quiet, l.known PROVE ReadOK(s, u, l)
  <2>1. ReadOK(r, t, l) /\ Live(l, u) \subseteq Live(l, t)
    BY <1>2, LiveShrinks, Zenon DEF QuietOK, Same, Alike, Similar
  <2>2. s.begun \in Nat /\ s.begun <= u
    BY <2>1 DEF ReadOK, Same
  <2>3. \A v : Known(v, r, l) => Known(v, s, l)
    BY Zenon DEF Known, Same
  <2>4. r.pc = "done" => IF s.rc = "OK" THEN Known(s.value, s, l) ELSE Live(l, u) = {}
    BY <2>1, <2>3, Zenon DEF ReadOK, Same, Alike
  <2> QED BY <2>1, <2>2, <2>3, <2>4, Zenon DEF ReadOK, Same, Alike, Similar
<1> QED BY <1>1, <1>2, Zenon DEF QuietOK

\* Nothing is said of a process that is not alone.
LEMMA NotQuiet ==
    ASSUME NEW r, NEW fs, NEW t, NEW l, r.op = "none" \/ ~r.quiet
    PROVE  QuietOK(r, fs, t, l)
BY Zenon DEF QuietOK, Writes

\* When a process writes, no other is alone.
LEMMA OthersNotQuiet ==
    ASSUME RInv, NEW p \in Procs, Writes(proc[p]), NEW q \in Procs, q # p
    PROVE  ~last.known /\ (proc[q].op = "none" \/ ~proc[q].quiet)
BY Zenon DEF RInv, Alone

(* A step of p that does not begin or end a set or remove.  Either it      *)
(* takes files away at most, or p writes.                                  *)
LEMMA ReadStep ==
    ASSUME RInv, FInv', NEW p \in Procs, last' = last, now <= now', now' \in Nat,
           \A q \in Procs \ {p} : Same(proc[q], proc'[q]),
           proc'[p].op = "none" \/ (proc'[p].op = proc[p].op /\ (proc'[p].quiet => proc[p].quiet)),
           DOMAIN files' \subseteq DOMAIN files \/ Writes(proc[p]),
           LastOK(files', now', last),
           QuietOK(proc'[p], files', now', last)
    PROVE  RInv'
<1>1. Alone'
  <2>1. ASSUME NEW q \in Procs
        PROVE  /\ Writes(proc'[q]) => Writes(proc[q])
               /\ proc'[q].op # "none" => proc[q].op # "none" /\ (proc'[q].quiet => proc[q].quiet)
    <3>1. CASE q = p
      BY <3>1, Zenon DEF Writes
    <3>2. CASE q # p
      BY <3>2, Zenon DEF Writes, Same, Alike, Similar
    <3> QED BY <3>1, <3>2, Zenon
  <2> QED BY <2>1, Zenon DEF RInv, Alone
<1>2. ASSUME NEW q \in Procs, q # p PROVE QuietOK(proc'[q], files', now', last)
  <2>1. Same(proc[q], proc'[q])
    BY <1>2, Zenon
  <2>2. CASE Writes(proc[p])
    <3>1. proc'[q].op = "none" \/ ~proc'[q].quiet
      BY <1>2, <2>1, <2>2, OthersNotQuiet, Zenon DEF Same, Alike, Similar
    <3> QED BY <3>1, NotQuiet, Zenon
  <2>3. CASE DOMAIN files' \subseteq DOMAIN files
    <3>1. QuietOK(proc[q], files, now, last) /\ now \in Nat
      BY Zenon DEF RInv, FInv, KInv
    <3>2. last.known => last.names \subseteq Names
      BY Zenon DEF RInv, LastOK
    <3> QED BY <2>1, <2>3, <3>1, <3>2, QuietLater, Zenon
  <2> QED BY <2>2, <2>3, Zenon
<1> QED BY <1>1, <1>2, Zenon DEF RInv

(* A set or remove of p ends.                                              *)
LEMMA ReadReturn ==
    ASSUME RInv, FInv', NEW p \in Procs, Writes(proc[p]),
           \A q \in Procs \ {p} : Same(proc[q], proc'[q]),
           proc'[p].op = "none",
           last'.known => proc[p].quiet,
           LastOK(files', now', last')
    PROVE  RInv'
<1>1. ASSUME NEW q \in Procs
      PROVE  proc'[q].op = "none" \/ ~proc'[q].quiet
  <2>1. CASE q # p
    BY <2>1, OthersNotQuiet, Zenon DEF Same, Alike, Similar
  <2> QED BY <2>1, Zenon
<1>2. \A q \in Procs : QuietOK(proc'[q], files', now', last')
  BY <1>1, NotQuiet, Zenon
<1>3. ASSUME last'.known, NEW q \in Procs PROVE ~Writes(proc'[q])
  <2>1. CASE q = p
    BY <2>1, Zenon DEF Writes
  <2>2. CASE q # p
    <3>1. ~Writes(proc[q])
      BY <1>3, <2>2, Zenon DEF RInv, Alone, Writes
    <3> QED BY <2>2, <3>1, Zenon DEF Same, Alike, Similar, Writes
  <2> QED BY <2>1, <2>2, Zenon
<1>4. Alone'
  BY <1>1, <1>3, Zenon DEF Alone
<1> QED BY <1>2, <1>4, Zenon DEF RInv

\* No values, and one more.
LEMMA NoValues == ASSUME NEW vs, vs = <<>> PROVE DOMAIN vs = {} /\ Len(vs) = 0
OBVIOUS

LEMMA AddValue ==
    ASSUME NEW vs \in Seq(Values), NEW v, NEW ws, ws = Append(vs, v)
    PROVE  /\ ws # <<>>
           /\ \A i \in DOMAIN ws : (i \in DOMAIN vs /\ ws[i] = vs[i]) \/ ws[i] = v
<1>1. Len(vs) \in Nat /\ DOMAIN vs = 1..Len(vs)
  OBVIOUS
<1>2. DOMAIN ws = 1..(Len(vs) + 1) /\ ws[Len(vs) + 1] = v
  BY <1>1
<1>3. \A i \in 1..Len(vs) : ws[i] = vs[i]
  BY <1>1
<1>4. ws # <<>>
  BY <1>1, <1>2, NoValues
<1>5. \A i \in 1..(Len(vs) + 1) : i \in 1..Len(vs) \/ i = Len(vs) + 1
  BY <1>1
<1> QED BY <1>1, <1>2, <1>3, <1>4, <1>5, Zenon
-----------------------------------------------------------------------------
(* The steps of a set or remove.                                           *)
LEMMA WriterGoes ==
    ASSUME RInv, FInv', NEW p \in Procs, Writes(proc[p]), last' = last, now' = now,
           NEW s, DOMAIN s = Fields, Goes(p, s) \/ \E fs : GoesRmdir(p, s, fs),
           s.op = proc[p].op, s.quiet => proc[p].quiet,
           s.quiet => AloneOK(s, files')
    PROVE  RInv'
<1>1. KInv /\ now \in Nat
  BY Zenon DEF RInv, FInv, KInv
<1>2. Same(s, proc'[p]) /\ \A q \in Procs \ {p} : Same(proc[q], proc'[q])
  BY <1>1, WentSame, Zenon
<1>3. ~last.known
  BY Zenon DEF RInv, Alone
<1>4. QuietOK(proc'[p], files', now', last)
  BY <1>2, <1>3, Zenon DEF QuietOK, AloneOK, Past, Same, Alike, Similar, Writes
<1>5. LastOK(files', now', last)
  BY <1>3, Zenon DEF LastOK
<1>6. proc'[p].op = proc[p].op /\ (proc'[p].quiet => proc[p].quiet)
  BY <1>2, Zenon DEF Same, Alike, Similar
<1>7. now <= now'
  BY <1>1, SameTime, Zenon
<1> QED BY <1>1, <1>2, <1>4, <1>5, <1>6, <1>7, ReadStep, Zenon

LEMMA WriterEnds ==
    ASSUME RInv, FInv', NEW p \in Procs, Writes(proc[p]),
           Goes(p, Idle) \/ \E fs : GoesRmdir(p, Idle, fs),
           NEW rc, Return(p, rc),
           rc = "OK" /\ proc[p].quiet => LastOK(files', now', last')
    PROVE  RInv'
<1>1. KInv
  BY Zenon DEF RInv, FInv
<1>2. DOMAIN Idle = Fields /\ Idle.op = "none"
  BY Zenon DEF Fields, Idle
<1>3. Same(Idle, proc'[p]) /\ \A q \in Procs \ {p} : Same(proc[q], proc'[q])
  BY <1>1, <1>2, WentSame, Zenon
<1>4. proc'[p].op = "none"
  BY <1>2, <1>3, Zenon DEF Same, Alike, Similar
<1>5. last'.known => rc = "OK" /\ proc[p].quiet
  BY Zenon DEF Return, Unknown
<1>6. LastOK(files', now', last')
  BY <1>5, Zenon DEF LastOK
<1> QED BY <1>3, <1>4, <1>5, <1>6, ReadReturn, Zenon

\* build_key_path leaves the files alone.
LEMMA BuildKeyPathRInv == ASSUME RInv, FInv', NEW p \in Procs, BuildKeyPath(p) PROVE RInv'
<1> DEFINE r == proc[p]
<1>1. /\ r.pc = "path" /\ UNCHANGED <<now, files, last>>
      /\ ProcOK(r, files, Len(ended), stored) /\ KInv /\ now \in Nat
      /\ QuietOK(r, files, now, last)
      /\ LastOK(files, now, last)
  BY Zenon DEF BuildKeyPath, history, RInv, FInv, KInv
<1>2. r.part \in {"get", "remove", "real", "tmp"} /\ r.op \in {"get", "set", "remove"}
  BY <1>1, Zenon DEF ProcOK, SetOK
<1>3. PICK s : /\ Goes(p, s) /\ DOMAIN s = Fields /\ s.op = r.op /\ s.quiet = r.quiet
               /\ s.pc \in {"count_open", "remove_open", "mkstemp"}
               /\ s.pc = "count_open" <=> r.part = "get"
               /\ s.pc = "mkstemp" <=> r.part \in {"real", "tmp"}
               /\ s.n = r.n /\ s.values = r.values /\ s.begun = r.begun /\ s.rc = r.rc
               /\ s.count = r.count
  <2> DEFINE a == [r EXCEPT !.pc = "count_open"]
             b == [r EXCEPT !.pc = "remove_open"]
             c == [r EXCEPT !.pc = "mkstemp", !.real = NameOf(r, FALSE), !.due = now + r.expiration]
             d == [r EXCEPT !.pc = "mkstemp", !.tmp = NameOf(r, TRUE)]
  <2>1. CASE r.part = "get"
    <3>1. Goes(p, a)
      BY <2>1, Zenon DEF BuildKeyPath
    <3>2. /\ DOMAIN a = Fields /\ a.op = r.op /\ a.quiet = r.quiet /\ a.pc = "count_open"
          /\ a.n = r.n /\ a.values = r.values /\ a.begun = r.begun /\ a.rc = r.rc
          /\ a.count = r.count
      BY <1>1, Zenon DEF ProcOK, Fields, Idle
    <3> HIDE DEF a
    <3> QED BY <2>1, <3>1, <3>2, Zenon
  <2>2. CASE r.part = "remove"
    <3>1. Goes(p, b)
      BY <2>2, Zenon DEF BuildKeyPath
    <3>2. /\ DOMAIN b = Fields /\ b.op = r.op /\ b.quiet = r.quiet /\ b.pc = "remove_open"
          /\ b.n = r.n /\ b.values = r.values /\ b.begun = r.begun /\ b.rc = r.rc
          /\ b.count = r.count
      BY <1>1, Zenon DEF ProcOK, Fields, Idle
    <3> HIDE DEF b
    <3> QED BY <2>2, <3>1, <3>2, Zenon
  <2>3. CASE r.part = "real"
    <3>1. Goes(p, c)
      BY <2>3, Zenon DEF BuildKeyPath
    <3>2. /\ DOMAIN c = Fields /\ c.op = r.op /\ c.quiet = r.quiet /\ c.pc = "mkstemp"
          /\ c.n = r.n /\ c.values = r.values /\ c.begun = r.begun /\ c.rc = r.rc
          /\ c.count = r.count
      BY <1>1, Zenon DEF ProcOK, Fields, Idle
    <3> HIDE DEF c
    <3> QED BY <2>3, <3>1, <3>2, Zenon
  <2>4. CASE r.part = "tmp"
    <3>1. Goes(p, d)
      BY <2>4, Zenon DEF BuildKeyPath
    <3>2. /\ DOMAIN d = Fields /\ d.op = r.op /\ d.quiet = r.quiet /\ d.pc = "mkstemp"
          /\ d.n = r.n /\ d.values = r.values /\ d.begun = r.begun /\ d.rc = r.rc
          /\ d.count = r.count
      BY <1>1, Zenon DEF ProcOK, Fields, Idle
    <3> HIDE DEF d
    <3> QED BY <2>4, <3>1, <3>2, Zenon
  <2> QED BY <1>2, <2>1, <2>2, <2>3, <2>4, Zenon
<1>4. CASE Writes(r)
  <2>1. r.quiet => AloneOK(s, files')
    <3>1. r.part # "get"
      BY <1>1, <1>4, Zenon DEF ProcOK, SetOK, Writes
    <3> QED BY <1>1, <1>3, <1>4, <3>1, Zenon DEF QuietOK, AloneOK, Past
  <2> QED BY <1>1, <1>3, <1>4, <2>1, WriterGoes, Zenon
<1>5. CASE r.op = "get"
  <2>1. r.part = "get"
    BY <1>1, <1>5, Zenon DEF ProcOK
  <2>2. Same(s, proc'[p]) /\ \A q \in Procs \ {p} : Same(proc[q], proc'[q])
    BY <1>1, <1>3, WentSame, Zenon
  <2>3. QuietOK(s, files, now, last)
    <3>1. s.pc = "count_open"
      BY <1>3, <2>1, Zenon
    <3>2. ASSUME s.quiet, last.known PROVE ReadOK(s, now, last)
      <4>1. ReadOK(r, now, last)
        BY <1>1, <1>3, <1>5, <3>2, Zenon DEF QuietOK
      <4>2. s.values = <<>>
        BY <1>1, <1>3, <4>1, Zenon DEF ReadOK
      <4>3. DOMAIN s.values = {}
        BY <4>2, NoValues, Zenon
      <4> QED BY <1>1, <1>3, <3>1, <4>1, <4>2, <4>3, Zenon DEF ReadOK
    <3> QED BY <1>3, <1>5, <3>2, Zenon DEF QuietOK, Writes
  <2>4. QuietOK(proc'[p], files', now', last)
    <3>1. now <= now /\ (last.known => last.names \subseteq Names)
      BY <1>1 DEF LastOK
    <3> QED BY <1>1, <2>2, <2>3, <3>1, QuietLater, Zenon
  <2>5. proc'[p].op = r.op /\ proc'[p].quiet = r.quiet
    BY <1>3, <2>2, Zenon DEF Same, Alike, Similar
  <2>6. now <= now'
    BY <1>1, SameTime, Zenon
  <2> QED BY <1>1, <2>2, <2>4, <2>5, <2>6, ReadStep, Zenon
<1> QED BY <1>2, <1>4, <1>5, Zenon DEF Writes

\* The listing of a remove has all the files that are there.
LEMMA RemoveOpenRInv == ASSUME RInv, FInv', NEW p \in Procs, RemoveOpen(p) PROVE RInv'
<1> DEFINE r == proc[p]
           s == [(IF dir THEN Opened(r) ELSE r) EXCEPT !.pc = "remove"]
<1>1. /\ r.pc = "remove_open" /\ Goes(p, s) /\ UNCHANGED <<now, files, last>>
      /\ DOMAIN r = Fields /\ Writes(r)
      /\ DOMAIN files # {} => dir
  BY Zenon DEF RemoveOpen, RInv, FInv, KInv, ProcOK, history, Writes
<1>2. /\ DOMAIN s = Fields /\ s.op = r.op /\ s.quiet = r.quiet /\ s.pc = "remove"
      /\ dir => s.snap = DOMAIN files /\ s.seen = {}
  BY <1>1, Zenon DEF Opened, Fields, Idle
<1> HIDE DEF s
<1>3. AloneOK(s, files')
  BY <1>1, <1>2, Zenon DEF AloneOK, Past
<1> QED BY <1>1, <1>2, <1>3, WriterGoes, Zenon

\* remove_file unlinks the real file it is given.
LEMMA RemoveFileRInv == ASSUME RInv, FInv', NEW p \in Procs, RemoveFile(p) PROVE RInv'
<1> DEFINE r == proc[p]
<1>1. PICK f \in Entries(r) :
         /\ Goes(p, [r EXCEPT !.seen = @ \cup {f}])
         /\ IF f.tmp THEN UNCHANGED files ELSE Keep(DOMAIN files \ {f})
  BY Zenon DEF RemoveFile
<1>2. /\ r.pc = "remove" /\ UNCHANGED <<now, last>> /\ DOMAIN r = Fields /\ Writes(r)
      /\ QuietOK(r, files, now, last)
  BY Zenon DEF RemoveFile, RInv, FInv, KInv, ProcOK, history, Writes
<1> DEFINE s == [r EXCEPT !.seen = @ \cup {f}]
<1>3. /\ DOMAIN s = Fields /\ s.op = r.op /\ s.quiet = r.quiet /\ s.pc = "remove"
      /\ s.snap = r.snap /\ s.seen = r.seen \cup {f}
  BY <1>2, Zenon DEF Fields, Idle
<1> HIDE DEF s
<1>4. DOMAIN files' \subseteq DOMAIN files /\ (~f.tmp => f \notin DOMAIN files')
  BY <1>1, Zenon DEF Keep, Restrict
<1>5. r.quiet => AloneOK(s, files')
  BY <1>2, <1>3, <1>4, Zenon DEF QuietOK, AloneOK, Past
<1> QED BY <1>1, <1>2, <1>3, <1>5, WriterGoes, Zenon DEF s

\* When the listing ends no real file is left.
LEMMA RemoveDirRInv == ASSUME RInv, FInv', NEW p \in Procs, RemoveDir(p) PROVE RInv'
<1> DEFINE r == proc[p]
<1>1. /\ r.pc = "remove" /\ UNCHANGED <<now, files>> /\ DOMAIN r = Fields /\ Writes(r)
      /\ QuietOK(r, files, now, last) /\ Listed(r)
  BY Zenon DEF RemoveDir, RInv, FInv, KInv, ProcOK, Writes
<1>2. r.quiet => \A f \in DOMAIN files : f.tmp
  BY <1>1, Zenon DEF QuietOK, AloneOK, Listed
<1>3. CASE r.op = "remove"
  <2>1. GoesRmdir(p, Idle, DOMAIN files) /\ Return(p, "OK")
    BY <1>3, Zenon DEF RemoveDir
  <2>2. r.quiet => last'.names = {}
    BY <1>3, <2>1, Zenon DEF Return
  <2>3. r.quiet => LastOK(files', now', last')
    BY <1>1, <1>2, <2>2 DEF LastOK
  <2> QED BY <1>1, <2>1, <2>3, WriterEnds, Zenon
<1>4. CASE r.op = "set"
  <2> DEFINE s == [Closed(r) EXCEPT !.pc = "path", !.part = "real"]
  <2>1. GoesRmdir(p, s, DOMAIN files) /\ last' = last
    BY <1>4, Zenon DEF RemoveDir, history
  <2>2. DOMAIN s = Fields /\ s.op = r.op /\ s.quiet = r.quiet /\ s.pc = "path"
    BY <1>1, Zenon DEF Closed, Fields, Idle
  <2> HIDE DEF s
  <2>3. r.quiet => AloneOK(s, files')
    BY <1>1, <1>2, <2>2, Zenon DEF AloneOK
  <2> QED BY <1>1, <2>1, <2>2, <2>3, WriterGoes, Zenon
<1> QED BY <1>1, <1>3, <1>4, Zenon DEF Writes
\* What RInv says of a process in a set past its remove.
LEMMA InWrite ==
    ASSUME RInv, NEW p \in Procs, proc[p].pc \in {"mkstemp", "write", "rename", "chmod"}
    PROVE  /\ proc[p].op = "set" /\ Writes(proc[p]) /\ DOMAIN proc[p] = Fields
           /\ SetOK(proc[p], files)
           /\ proc[p].quiet => \A f \in DOMAIN files : ~f.tmp => f.n = proc[p].n
<1>1. KInv /\ QuietOK(proc[p], files, now, last)
  BY Zenon DEF RInv, FInv
<1>2. proc[p].op = "set" /\ DOMAIN proc[p] = Fields /\ SetOK(proc[p], files)
  BY <1>1, InSet, Zenon
<1> QED BY <1>1, <1>2, Zenon DEF QuietOK, Writes, AloneOK, Past

\* mkstemp makes a file of the set.
LEMMA MkstempRInv == ASSUME RInv, FInv', NEW p \in Procs, Mkstemp(p) PROVE RInv'
<1> DEFINE r == proc[p]
<1>1. r.pc = "mkstemp" /\ UNCHANGED <<now, dir>>
  BY Zenon DEF Mkstemp
<1>2. /\ r.op = "set" /\ Writes(r) /\ DOMAIN r = Fields /\ SetOK(r, files)
      /\ r.quiet => \A f \in DOMAIN files : ~f.tmp => f.n = r.n
  BY <1>1, InWrite, Zenon
<1>3. CASE ~dir
  <2>1. Goes(p, Idle) /\ Return(p, "EOTHER") /\ UNCHANGED files
    BY <1>3, Zenon DEF Mkstemp
  <2> QED BY <1>2, <2>1, WriterEnds, Zenon
<1>4. CASE dir
  <2> DEFINE f == IF r.part = "tmp" THEN r.tmp ELSE r.real
             s == IF r.part = "tmp" THEN [r EXCEPT !.pc = "write"]
                                    ELSE [r EXCEPT !.pc = "path", !.part = "tmp"]
  <2>1. Put(f, 0) /\ Goes(p, s) /\ last' = last
    BY <1>4, Zenon DEF Mkstemp, history
  <2>2. /\ DOMAIN s = Fields /\ s.op = r.op /\ s.quiet = r.quiet /\ s.pc \in {"write", "path"}
        /\ s.n = r.n
    BY <1>2, Zenon DEF Fields, Idle
  <2>3. f.n = r.n
    BY <1>1, <1>2, Zenon DEF SetOK, RealOf, TmpOf
  <2> HIDE DEF s, f
  <2>4. DOMAIN files' = DOMAIN files \cup {f}
    BY <2>1, Zenon DEF Put
  <2>5. r.quiet => AloneOK(s, files')
    BY <1>2, <2>2, <2>3, <2>4, Zenon DEF AloneOK
  <2> QED BY <1>1, <1>2, <2>1, <2>2, <2>5, WriterGoes, Zenon
<1> QED BY <1>3, <1>4, Zenon

\* The value goes into the temporary file.
LEMMA WriteRInv == ASSUME RInv, FInv', NEW p \in Procs, Write(p) PROVE RInv'
<1> DEFINE r == proc[p]
<1>1. r.pc = "write" /\ UNCHANGED <<now, dir>>
  BY Zenon DEF Write
<1>2. /\ r.op = "set" /\ Writes(r) /\ DOMAIN r = Fields /\ SetOK(r, files)
      /\ r.quiet => \A f \in DOMAIN files : ~f.tmp => f.n = r.n
  BY <1>1, InWrite, Zenon
<1>3. r.tmp \in DOMAIN files /\ r.tmp.tmp
  BY <1>1, <1>2, Zenon DEF SetOK, TmpOf
<1>4. PICK data : Put(r.tmp, data)
  BY Zenon DEF Write
<1>5. DOMAIN files' = DOMAIN files
  BY <1>3, <1>4, Zenon DEF Put
<1>6. CASE Goes(p, Idle) /\ Return(p, "EOTHER")
  BY <1>2, <1>5, <1>6, WriterEnds, Zenon
<1>7. CASE Goes(p, [r EXCEPT !.pc = "rename"]) /\ UNCHANGED history
  <2> DEFINE s == [r EXCEPT !.pc = "rename"]
  <2>1. DOMAIN s = Fields /\ s.op = r.op /\ s.quiet = r.quiet /\ s.pc = "rename" /\ s.n = r.n
    BY <1>2, Zenon DEF Fields, Idle
  <2>2. Goes(p, s) /\ last' = last
    BY <1>7, Zenon DEF history
  <2> HIDE DEF s
  <2>3. r.quiet => AloneOK(s, files')
    BY <1>2, <1>5, <2>1, Zenon DEF AloneOK
  <2> QED BY <1>1, <1>2, <1>5, <2>1, <2>2, <2>3, WriterGoes, Zenon
<1> QED BY <1>6, <1>7, Zenon DEF Write

\* The value takes the place of the empty file.
LEMMA RenameRInv == ASSUME RInv, FInv', NEW p \in Procs, Rename(p) PROVE RInv'
<1> DEFINE r == proc[p]
           s == [r EXCEPT !.pc = "chmod"]
<1>1. r.pc = "rename" /\ UNCHANGED <<now, dir, last>> /\ Goes(p, s)
  BY Zenon DEF Rename, history
<1>2. /\ r.op = "set" /\ Writes(r) /\ DOMAIN r = Fields /\ SetOK(r, files)
      /\ r.quiet => \A f \in DOMAIN files : ~f.tmp => f.n = r.n
  BY <1>1, InWrite, Zenon
<1>3. DOMAIN files' \subseteq DOMAIN files \cup {r.real} /\ r.real.n = r.n
  <2>1. r.real.n = r.n
    BY <1>1, <1>2, Zenon DEF SetOK, RealOf, Early
  <2> QED BY <2>1, Zenon DEF Rename
<1>4. DOMAIN s = Fields /\ s.op = r.op /\ s.quiet = r.quiet /\ s.pc = "chmod" /\ s.n = r.n
  BY <1>2, Zenon DEF Fields, Idle
<1> HIDE DEF s
<1>5. r.quiet => AloneOK(s, files')
  BY <1>2, <1>3, <1>4, Zenon DEF AloneOK
<1> QED BY <1>1, <1>2, <1>4, <1>5, WriterGoes, Zenon

\* A set that was alone leaves its file, with its value, and no other.
LEMMA ChmodRInv == ASSUME RInv, FInv', NEW p \in Procs, Chmod(p) PROVE RInv'
<1> DEFINE r == proc[p]
<1>1. /\ r.pc = "chmod" /\ UNCHANGED <<now, dir, files>> /\ Goes(p, Idle)
  BY Zenon DEF Chmod
<1>2. /\ r.op = "set" /\ Writes(r) /\ DOMAIN r = Fields /\ SetOK(r, files)
      /\ r.quiet => \A f \in DOMAIN files : ~f.tmp => f.n = r.n
  BY <1>1, InWrite, Zenon
<1>3. CASE r.real \in DOMAIN files
  <2>1. Return(p, "OK")
    BY <1>3, Zenon DEF Chmod
  <2>2. ASSUME r.quiet PROVE LastOK(files', now', last')
    <3>1. last'.names = {r.real} /\ last'.due = r.due
      BY <1>2, <2>1, <2>2, Zenon DEF Return
    <3>2. /\ r.real \in Names /\ ~r.real.tmp /\ r.real.n = r.n
          /\ Due(r.real, r.due) /\ r.due \in Nat
      BY <1>1, <1>2, Zenon DEF SetOK, RealOf, Early
    <3>3. \A f \in DOMAIN files : ~f.tmp => f = r.real /\ files[f] = r.n
      BY <1>1, <1>2, <2>2, Zenon DEF SetOK, Early
    <3> QED BY <1>1, <1>3, <3>1, <3>2, <3>3, Zenon DEF LastOK
  <2> QED BY <1>1, <1>2, <2>1, <2>2, WriterEnds, Zenon
<1>4. CASE r.real \notin DOMAIN files
  BY <1>1, <1>2, <1>4, WriterEnds, Zenon DEF Chmod
<1> QED BY <1>3, <1>4, Zenon

\* A set or remove begins: nobody else is alone, and nothing is known.
LEMMA BeginsRInv ==
    ASSUME RInv, FInv', NEW p \in Procs, NEW r, DOMAIN r = Fields, Begins(p, r),
           UNCHANGED files
    PROVE  RInv'
<1>1. KInv /\ \A q \in Procs : DOMAIN proc[q] = Fields
  BY Zenon DEF RInv, FInv, KInv, ProcOK
<1>2. last' = Unknown /\ ~last'.known
  BY Zenon DEF Begins, Unknown
<1>3. ASSUME NEW q \in Procs \ {p}
      PROVE  /\ proc'[q].op = "none" \/ ~proc'[q].quiet
             /\ proc'[q].op = proc[q].op
  <2>1. \/ proc[q] = Idle /\ proc'[q] = Idle
        \/ proc'[q] = [proc[q] EXCEPT !.quiet = FALSE]
    BY Zenon DEF Begins
  <2>2. DOMAIN proc[q] = Fields
    BY <1>1, Zenon
  <2> QED BY <2>1, <2>2 DEF Fields, Idle
<1>4. proc'[p].quiet = (Writers = {}) /\ proc'[p].pc = "path" /\ proc'[p].part = "remove"
  BY Zenon DEF Begins, Fields, Idle
<1>5. ASSUME NEW q \in Procs PROVE QuietOK(proc'[q], files', now', last')
  <2>1. CASE q = p
    BY <1>2, <1>4, <2>1, Zenon DEF QuietOK, AloneOK, Past
  <2>2. CASE q # p
    BY <1>3, <2>2, NotQuiet, Zenon
  <2> QED BY <2>1, <2>2, Zenon
<1>6. Alone'
  <2>1. ASSUME NEW q \in Procs, NEW s \in Procs, proc'[q].op # "none", proc'[q].quiet,
               Writes(proc'[s])
        PROVE  q = s
    <3>1. q = p
      BY <1>3, <2>1, Zenon
    <3>2. Writers = {}
      BY <1>4, <2>1, <3>1, Zenon
    <3>3. CASE s # p
      BY <1>3, <2>1, <3>2, <3>3, Zenon DEF Writers, Writes
    <3> QED BY <3>1, <3>3, Zenon
  <2> QED BY <1>2, <2>1, Zenon DEF Alone
<1>7. LastOK(files', now', last')
  BY <1>2, Zenon DEF LastOK
<1> QED BY <1>1, <1>5, <1>6, <1>7, Zenon DEF RInv

\* ib_kvstore_remove and ib_kvstore_set are called.
LEMMA RemoveRInv == ASSUME RInv, FInv', NEW p \in Procs, Remove(p) PROVE RInv'
<1> DEFINE r == [Idle EXCEPT !.op = "remove"]
<1>1. DOMAIN r = Fields
  BY Zenon DEF Fields, Idle
<1>2. Begins(p, r) /\ UNCHANGED files
  BY Zenon DEF Remove, Calls
<1> HIDE DEF r
<1> QED BY <1>1, <1>2, BeginsRInv, Zenon

LEMMA SetRInv == ASSUME RInv, FInv', NEW p \in Procs, Set(p) PROVE RInv'
<1> DEFINE r(e) == [Idle EXCEPT !.op = "set", !.n = Len(ended) + 1, !.expiration = e]
<1>1. \A e : DOMAIN r(e) = Fields
  BY Zenon DEF Fields, Idle
<1>2. PICK e : Begins(p, r(e))
  BY Zenon DEF Set
<1>3. UNCHANGED files
  BY Zenon DEF Set, Calls
<1> HIDE DEF r
<1> QED BY <1>1, <1>2, <1>3, BeginsRInv, Zenon
-----------------------------------------------------------------------------
(* The steps of a get.                                                     *)
LEMMA GetGoes ==
    ASSUME RInv, FInv', NEW p \in Procs, proc[p].op = "get", last' = last, now' = now,
           NEW s, DOMAIN s = Fields, Goes(p, s) \/ \E fs : GoesRmdir(p, s, fs),
           s.op = "get", s.quiet => proc[p].quiet,
           DOMAIN files' \subseteq DOMAIN files,
           LastOK(files', now, last),
           s.quiet /\ last.known => ReadOK(s, now, last)
    PROVE  RInv'
<1>1. KInv /\ now \in Nat /\ now <= now'
  <2>1. KInv /\ now \in Nat
    BY Zenon DEF RInv, FInv, KInv
  <2> QED BY <2>1, SameTime, Zenon
<1>2. Same(s, proc'[p]) /\ \A q \in Procs \ {p} : Same(proc[q], proc'[q])
  BY <1>1, WentSame, Zenon
<1>3. QuietOK(s, files', now, last)
  BY Zenon DEF QuietOK, Writes
<1>4. QuietOK(proc'[p], files', now', last)
  <2>1. last.known => last.names \subseteq Names
    BY Zenon DEF LastOK
  <2> QED BY <1>1, <1>2, <1>3, <2>1, QuietLater, Zenon
<1>5. proc'[p].op = proc[p].op /\ (proc'[p].quiet => proc[p].quiet)
  BY <1>2, Zenon DEF Same, Alike, Similar
<1> QED BY <1>1, <1>2, <1>4, <1>5, ReadStep, Zenon

\* What RInv says of a process in a get past its path.
LEMMA InRead ==
    ASSUME RInv, NEW p \in Procs,
           proc[p].pc \in {"count_open", "count", "load_open", "load", "done"}
    PROVE  /\ proc[p].op = "get" /\ DOMAIN proc[p] = Fields
           /\ LastOK(files, now, last)
           /\ proc[p].quiet /\ last.known => ReadOK(proc[p], now, last)
           /\ proc[p].values \in Seq(Values)
<1>1. /\ KInv /\ QuietOK(proc[p], files, now, last)
      /\ LastOK(files, now, last) /\ FreshOK(proc[p], files, ended, stored)
  BY Zenon DEF RInv, FInv
<1>2. proc[p].op = "get" /\ DOMAIN proc[p] = Fields
  BY <1>1, InGet, Zenon
<1> QED BY <1>1, <1>2, Zenon DEF QuietOK, FreshOK

\* A get fails when there is nothing left that it could read.
LEMMA FailsRInv ==
    ASSUME RInv, FInv', NEW p \in Procs, NEW rc, rc # "OK", GetFails(p, rc),
           proc[p].pc \in {"count_open", "count", "load_open", "load"},
           UNCHANGED <<now, files, last>>,
           proc[p].quiet /\ last.known => Live(last, now) = {}
    PROVE  RInv'
<1> DEFINE r == proc[p]
           s == [Closed(r) EXCEPT !.pc = "done", !.rc = rc, !.values = <<>>]
<1>1. /\ r.op = "get" /\ DOMAIN r = Fields /\ LastOK(files, now, last)
      /\ r.quiet /\ last.known => ReadOK(r, now, last)
  BY InRead, Zenon
<1>2. Goes(p, s)
  BY Zenon DEF GetFails
<1>3. /\ DOMAIN s = Fields /\ s.op = "get" /\ s.quiet = r.quiet /\ s.pc = "done"
      /\ s.rc = rc /\ s.values = <<>> /\ s.begun = r.begun
  BY <1>1, Zenon DEF Closed, Fields, Idle
<1> HIDE DEF s
<1>4. ASSUME s.quiet, last.known PROVE ReadOK(s, now, last)
  <2>1. s.begun \in Nat /\ s.begun <= now
    BY <1>1, <1>3, <1>4, Zenon DEF ReadOK
  <2>2. DOMAIN s.values = {} /\ Live(last, now) = {}
    BY <1>3, <1>4, NoValues, Zenon
  <2> QED BY <1>3, <2>1, <2>2, Zenon DEF ReadOK
<1> QED BY <1>1, <1>2, <1>3, <1>4, GetGoes, Zenon

\* ib_kvstore_get is called.
LEMMA GetRInv == ASSUME RInv, FInv', NEW p \in Procs, Get(p) PROVE RInv'
<1> DEFINE s == [Idle EXCEPT !.op = "get", !.pc = "path", !.part = "get",
                             !.begun = now, !.quiet = Writers = {},
                             !.over = UNION {ended[n] : n \in stored}]
<1>1. /\ proc[p] = Idle /\ UNCHANGED <<now, files, last>> /\ Goes(p, s)
      /\ KInv /\ now \in Nat /\ LastOK(files, now, last)
  BY Zenon DEF Get, Calls, RInv, FInv, KInv
<1>2. /\ DOMAIN s = Fields /\ s.op = "get" /\ s.quiet = (Writers = {}) /\ s.pc = "path"
      /\ s.rc = "OK" /\ s.values = <<>> /\ s.begun = now /\ s.count = 0
  BY Zenon DEF Fields, Idle
<1> HIDE DEF s
<1>3. Same(s, proc'[p]) /\ \A q \in Procs \ {p} : Same(proc[q], proc'[q])
  BY <1>1, <1>2, WentSame, Zenon
<1>4. last.known => last.names \subseteq Names
  BY <1>1, Zenon DEF LastOK
<1>5. QuietOK(proc'[p], files', now', last')
  <2>1. QuietOK(s, files, now, last)
    <3>1. DOMAIN s.values = {} /\ s.begun \in Nat /\ s.begun <= now
      BY <1>1, <1>2, NoValues
    <3>2. ReadOK(s, now, last)
      BY <1>2, <3>1, Zenon DEF ReadOK
    <3> QED BY <1>2, <3>2, Zenon DEF QuietOK, Writes
  <2>2. now <= now /\ DOMAIN files \subseteq DOMAIN files
    BY <1>1
  <2>3. QuietOK(proc'[p], files, now, last)
    BY <1>1, <1>3, <1>4, <2>1, <2>2, QuietLater, Zenon
  <2> QED BY <1>1, <2>3, Zenon
<1>6. ASSUME NEW q \in Procs, q # p PROVE QuietOK(proc'[q], files', now', last')
  <2>1. QuietOK(proc[q], files, now, last) /\ Same(proc[q], proc'[q])
    BY <1>3, <1>6, Zenon DEF RInv
  <2>2. now <= now /\ DOMAIN files \subseteq DOMAIN files
    BY <1>1
  <2>3. QuietOK(proc'[q], files, now, last)
    BY <1>1, <1>4, <2>1, <2>2, QuietLater, Zenon
  <2> QED BY <1>1, <2>3, Zenon
<1>7. Alone'
  <2>1. ASSUME NEW q \in Procs PROVE Writes(proc'[q]) => q # p /\ Writes(proc[q])
    <3>1. CASE q = p
      BY <1>2, <1>3, <3>1, Zenon DEF Same, Alike, Similar, Writes
    <3>2. CASE q # p
      BY <1>3, <3>2, Zenon DEF Same, Alike, Similar, Writes
    <3> QED BY <3>1, <3>2, Zenon
  <2>2. last'.known => \A q \in Procs : ~Writes(proc'[q])
    BY <1>1, <2>1, Zenon DEF RInv, Alone
  <2>3. ASSUME NEW q \in Procs, NEW t \in Procs, proc'[q].op # "none", proc'[q].quiet,
               Writes(proc'[t])
        PROVE  q = t
    <3>1. CASE q = p
      <4>1. Writers = {}
        BY <1>2, <1>3, <2>3, <3>1, Zenon DEF Same
      <4> QED BY <2>1, <2>3, <4>1, Zenon DEF Writers, Writes
    <3>2. CASE q # p
      <4>1. proc[q].op # "none" /\ proc[q].quiet
        BY <1>3, <2>3, <3>2, Zenon DEF Same, Alike, Similar
      <4> QED BY <2>1, <2>3, <4>1, Zenon DEF RInv, Alone
    <3> QED BY <3>1, <3>2, Zenon
  <2> QED BY <2>2, <2>3, Zenon DEF Alone
<1> QED BY <1>1, <1>5, <1>6, <1>7, Zenon DEF RInv

\* The file that can be read is in the directory, so there is one.
LEMMA GetOpenRInv == ASSUME RInv, FInv', NEW p \in Procs, GetOpen(p) PROVE RInv'
<1> DEFINE r == proc[p]
<1>1. r.pc \in {"count_open", "load_open"} /\ UNCHANGED <<now, files, last>>
  BY Zenon DEF GetOpen, history
<1>2. /\ r.op = "get" /\ DOMAIN r = Fields /\ LastOK(files, now, last)
      /\ r.quiet /\ last.known => ReadOK(r, now, last)
      /\ DOMAIN files # {} => dir
  BY <1>1, InRead, Zenon DEF RInv, FInv, KInv
<1>3. last.known => Live(last, now) \subseteq DOMAIN files
  BY <1>2, Zenon DEF LastOK, Live
<1>4. CASE ~dir
  <2>1. GetFails(p, "EOTHER") /\ (last.known => Live(last, now) = {})
    BY <1>2, <1>3, <1>4, Zenon DEF GetOpen
  <2> QED BY <1>1, <2>1, FailsRInv, Zenon
<1>5. CASE dir
  <2> DEFINE s == [Opened(r) EXCEPT !.pc = IF @ = "count_open" THEN "count" ELSE "load"]
  <2>1. Goes(p, s)
    BY <1>5, Zenon DEF GetOpen
  <2>2. /\ DOMAIN s = Fields /\ s.op = "get" /\ s.quiet = r.quiet
        /\ s.pc = IF r.pc = "count_open" THEN "count" ELSE "load"
        /\ s.rc = r.rc /\ s.values = r.values /\ s.begun = r.begun /\ s.count = r.count
        /\ s.snap = DOMAIN files /\ s.seen = {}
    BY <1>2, Zenon DEF Opened, Fields, Idle
  <2> HIDE DEF s
  <2>3. ASSUME s.quiet, last.known PROVE ReadOK(s, now, last)
    <3>1. ReadOK(r, now, last) /\ Live(last, now) \subseteq s.snap \ s.seen
      BY <1>2, <1>3, <2>2, <2>3, Zenon
    <3>2. \A f \in s.snap : ~f.tmp => f \in last.names
      BY <1>2, <2>2, <2>3, Zenon DEF LastOK
    <3>3. /\ s.pc = "count" => s.count = 0
          /\ s.pc = "load" => s.count \in Nat /\ s.count > 0
      BY <1>1, <2>2, <3>1, Zenon DEF ReadOK
    <3>4. s.values = <<>> /\ s.rc = "OK" /\ s.begun \in Nat /\ s.begun <= now
      BY <1>1, <2>2, <3>1, Zenon DEF ReadOK
    <3>5. DOMAIN s.values = {} /\ s.pc \in {"count", "load"}
      BY <1>1, <2>2, <3>4, NoValues, Zenon
    <3> QED BY <3>1, <3>2, <3>3, <3>4, <3>5 DEF ReadOK
  <2> QED BY <1>1, <1>2, <2>1, <2>2, <2>3, GetGoes, Zenon
<1> QED BY <1>4, <1>5, Zenon

\* An entry that was counted makes room for a value.
LEMMA CountRInv == ASSUME RInv, FInv', NEW p \in Procs, Count(p) PROVE RInv'
<1> DEFINE r == proc[p]
           s(f) == [r EXCEPT !.seen = @ \cup {f}, !.count = @ + 1]
<1>1. r.pc = "count" /\ UNCHANGED <<now, files, last>>
  BY Zenon DEF Count, history
<1>2. /\ r.op = "get" /\ DOMAIN r = Fields /\ LastOK(files, now, last)
      /\ r.quiet /\ last.known => ReadOK(r, now, last)
  BY <1>1, InRead, Zenon
<1>3. PICK f : Goes(p, s(f))
  BY Zenon DEF Count
<1>4. /\ DOMAIN s(f) = Fields /\ s(f).op = "get" /\ s(f).quiet = r.quiet
      /\ s(f).pc = "count" /\ s(f).rc = r.rc /\ s(f).values = r.values
      /\ s(f).begun = r.begun /\ s(f).count = r.count + 1
  BY <1>1, <1>2, Zenon DEF Fields, Idle
<1> HIDE DEF s
<1>5. ASSUME s(f).quiet, last.known PROVE ReadOK(s(f), now, last)
  <2>1. ReadOK(r, now, last) /\ r.count \in Nat
    BY <1>1, <1>2, <1>4, <1>5, Zenon DEF ReadOK
  <2>2. s(f).count \in Nat /\ s(f).count # 0
    <3>1. PICK k \in Nat : k = r.count
      BY <2>1, Zenon
    <3>2. k + 1 \in Nat /\ k + 1 # 0
      OBVIOUS
    <3> QED BY <1>4, <3>1, <3>2, Zenon
  <2> QED BY <1>1, <1>4, <2>1, <2>2, Zenon DEF ReadOK, Known
<1> QED BY <1>1, <1>2, <1>3, <1>4, <1>5, GetGoes, Zenon

\* The file that can be read was counted.
LEMMA CountListedRInv == ASSUME RInv, FInv', NEW p \in Procs, CountListed(p) PROVE RInv'
<1> DEFINE r == proc[p]
           s == [Closed(r) EXCEPT !.pc = "load_open"]
<1>1. r.pc = "count" /\ UNCHANGED <<now, files, last>> /\ Listed(r)
  BY Zenon DEF CountListed, history
<1>2. /\ r.op = "get" /\ DOMAIN r = Fields /\ LastOK(files, now, last)
      /\ r.quiet /\ last.known => ReadOK(r, now, last)
  BY <1>1, InRead, Zenon
<1>3. CASE r.count = 0
  <2>1. GetFails(p, "ENOENT")
    BY <1>3, Zenon DEF CountListed
  <2>2. r.quiet /\ last.known => Live(last, now) = {}
    BY <1>1, <1>2, <1>3, Zenon DEF ReadOK, LastOK, Live, Listed
  <2> QED BY <1>1, <2>1, <2>2, FailsRInv, Zenon
<1>4. CASE r.count # 0
  <2>1. Goes(p, s)
    BY <1>4, Zenon DEF CountListed
  <2>2. /\ DOMAIN s = Fields /\ s.op = "get" /\ s.quiet = r.quiet /\ s.pc = "load_open"
        /\ s.rc = r.rc /\ s.values = r.values /\ s.begun = r.begun /\ s.count = r.count
    BY <1>2, Zenon DEF Closed, Fields, Idle
  <2> HIDE DEF s
  <2>3. ASSUME s.quiet, last.known PROVE ReadOK(s, now, last)
    <3>1. ReadOK(r, now, last) /\ r.count \in Nat
      BY <1>1, <1>2, <2>2, <2>3, Zenon DEF ReadOK
    <3>2. s.count \in Nat /\ s.count > 0
      <4>1. PICK k \in Nat : k = r.count
        BY <3>1, Zenon
      <4>2. k > 0
        BY <1>4, <4>1
      <4> QED BY <2>2, <4>1, <4>2, Zenon
    <3> QED BY <1>1, <2>2, <3>1, <3>2, Zenon DEF ReadOK, Known
  <2> QED BY <1>1, <1>2, <2>1, <2>2, <2>3, GetGoes, Zenon
<1> QED BY <1>3, <1>4, Zenon

\* The file that can be read is loaded, or another was.
LEMMA LoadRInv == ASSUME RInv, FInv', NEW p \in Procs, Load(p) PROVE RInv'
<1> DEFINE v(f) == [n |-> f.n, create |-> f.create, data |-> files[f]]
           r(f) == [proc[p] EXCEPT !.seen = @ \cup {f}]
           loaded(f) == [r(f) EXCEPT !.values = Append(@, v(f))]
<1>1. proc[p].pc = "load" /\ UNCHANGED <<now, last>>
  BY Zenon DEF Load, history
<1>2. /\ proc[p].op = "get" /\ DOMAIN proc[p] = Fields /\ LastOK(files, now, last)
      /\ proc[p].quiet /\ last.known => ReadOK(proc[p], now, last)
      /\ proc[p].values \in Seq(Values) /\ now \in Nat
      /\ DOMAIN files \subseteq Names
  BY <1>1, InRead, Zenon DEF RInv, FInv, KInv, FilesOK
<1>3. PICK f \in Entries(proc[p]) :
         \/ /\ Len(r(f).values) >= r(f).count \/ f.tmp
            /\ Goes(p, r(f)) /\ UNCHANGED <<files, dir>>
         \/ /\ ~f.tmp /\ ~Expired(f, now) /\ f \in DOMAIN files
            /\ Goes(p, loaded(f)) /\ UNCHANGED <<files, dir>>
         \/ /\ ~f.tmp /\ ~Expired(f, now) /\ f \notin DOMAIN files
            /\ GetFails(p, "EOTHER") /\ UNCHANGED <<files, dir>>
         \/ /\ ~f.tmp /\ Expired(f, now)
            /\ \E fs \in {DOMAIN files \ {f}, DOMAIN files} :
                  Keep(fs) /\ GoesRmdir(p, r(f), fs)
  BY Zenon DEF Load
<1>4. ASSUME proc[p].quiet, last.known
      PROVE  /\ ~f.tmp => f \in last.names /\ f \in Names
             /\ ReadOK(proc[p], now, last)
  <2>1. f \in DOMAIN files \/ f \in proc[p].snap
    BY Zenon DEF Entries
  <2> QED BY <1>1, <1>2, <1>4, <2>1, Zenon DEF LastOK, ReadOK
<1>5. Expired(f, now) <=> now > Deadline(f)
  BY Zenon DEF Expired, Deadline
<1>6. /\ DOMAIN r(f) = Fields /\ r(f).op = "get" /\ r(f).quiet = proc[p].quiet
      /\ r(f).pc = "load" /\ r(f).rc = proc[p].rc /\ r(f).values = proc[p].values
      /\ r(f).begun = proc[p].begun /\ r(f).count = proc[p].count
      /\ r(f).snap = proc[p].snap /\ r(f).seen = proc[p].seen \cup {f}
  BY <1>1, <1>2, Zenon DEF Fields, Idle
<1>7. /\ DOMAIN loaded(f) = Fields /\ loaded(f).op = "get"
      /\ loaded(f).quiet = proc[p].quiet
      /\ loaded(f).pc = "load" /\ loaded(f).rc = proc[p].rc
      /\ loaded(f).values = Append(proc[p].values, v(f))
      /\ loaded(f).begun = proc[p].begun /\ loaded(f).count = proc[p].count
      /\ loaded(f).snap = proc[p].snap /\ loaded(f).seen = proc[p].seen \cup {f}
  BY <1>6, Zenon DEF Fields, Idle
<1> HIDE DEF r, loaded
<1>8. CASE /\ Len(r(f).values) >= r(f).count \/ f.tmp
           /\ Goes(p, r(f)) /\ UNCHANGED <<files, dir>>
  <2>1. ASSUME r(f).quiet, last.known PROVE ReadOK(r(f), now, last)
    <3>1. ReadOK(proc[p], now, last)
      BY <1>4, <1>6, <2>1, Zenon
    <3>2. proc[p].values # <<>> \/ Live(last, now) \subseteq proc[p].snap \ (proc[p].seen \cup {f})
      <4>1. CASE f.tmp
        BY <1>1, <1>2, <2>1, <3>1, <4>1, Zenon DEF ReadOK, LastOK, Live
      <4>2. CASE Len(proc[p].values) >= proc[p].count
        <5>1. proc[p].count \in Nat /\ proc[p].count > 0
          BY <1>1, <3>1, Zenon DEF ReadOK
        <5>2. PICK k \in Nat : k = proc[p].count /\ k > 0
          BY <5>1, Zenon
        <5>3. ~(0 >= k)
          BY <5>2
        <5>4. proc[p].values = <<>> => Len(proc[p].values) = 0
          BY NoValues, Zenon
        <5> QED BY <4>2, <5>2, <5>3, <5>4, Zenon
      <4> QED BY <1>6, <1>8, <4>1, <4>2, Zenon
    <3> QED BY <1>1, <1>6, <3>1, <3>2, Zenon DEF ReadOK, Known
  <2> QED BY <1>1, <1>2, <1>6, <1>8, <2>1, GetGoes, Zenon
<1>9. CASE /\ ~f.tmp /\ ~Expired(f, now) /\ f \in DOMAIN files
           /\ Goes(p, loaded(f)) /\ UNCHANGED <<files, dir>>
  <2>1. ASSUME loaded(f).quiet, last.known PROVE ReadOK(loaded(f), now, last)
    <3>1. ReadOK(proc[p], now, last) /\ f \in last.names /\ f \in Names
      BY <1>4, <1>7, <1>9, <2>1, Zenon
    <3>2. now <= Deadline(f)
      BY <1>2, <1>9, <3>1, InTime, Zenon
    <3>3. v(f).data = f.n /\ proc[p].begun <= Deadline(f)
      <4>1. files[f] = f.n
        BY <1>2, <2>1, <3>1, <3>2, Zenon DEF LastOK
      <4>2. proc[p].begun \in Nat /\ proc[p].begun <= now
        BY <3>1, Zenon DEF ReadOK
      <4>3. now \in Nat /\ Deadline(f) \in Nat
        BY <1>2, <3>1, DeadlineIsTime, Zenon
      <4>4. proc[p].begun <= Deadline(f)
        BY <3>2, <4>2, <4>3
      <4> QED BY <4>1, <4>4, Zenon
    <3>4. Known(v(f), loaded(f), last)
      BY <1>7, <3>1, <3>3, Zenon DEF Known
    <3> HIDE DEF v
    <3>5. /\ loaded(f).values # <<>>
          /\ \A i \in DOMAIN loaded(f).values :
                \/ i \in DOMAIN proc[p].values /\ loaded(f).values[i] = proc[p].values[i]
                \/ loaded(f).values[i] = v(f)
      <4> DEFINE vs == proc[p].values
      <4>1. vs \in Seq(Values) /\ loaded(f).values = Append(vs, v(f))
        BY <1>2, <1>7, Zenon
      <4> HIDE DEF vs
      <4> QED BY <4>1, AddValue DEF vs
    <3>6. \A i \in DOMAIN loaded(f).values : Known(loaded(f).values[i], loaded(f), last)
      <4>1. \A i \in DOMAIN proc[p].values : Known(proc[p].values[i], loaded(f), last)
        BY <1>7, <3>1, Zenon DEF ReadOK, Known
      <4> QED BY <3>4, <3>5, <4>1, Zenon
    <3> QED BY <1>1, <1>7, <3>1, <3>5, <3>6, Zenon DEF ReadOK
  <2> QED BY <1>1, <1>2, <1>7, <1>9, <2>1, GetGoes, Zenon
<1>10. CASE /\ ~f.tmp /\ ~Expired(f, now) /\ f \notin DOMAIN files
            /\ GetFails(p, "EOTHER") /\ UNCHANGED <<files, dir>>
  <2>1. ASSUME proc[p].quiet, last.known PROVE FALSE
    <3>1. f \in last.names /\ f \in Names
      BY <1>4, <1>10, <2>1, Zenon
    <3>2. now <= Deadline(f)
      BY <1>2, <1>10, <3>1, InTime, Zenon
    <3> QED BY <1>2, <1>10, <2>1, <3>1, <3>2, Zenon DEF LastOK
  <2> QED BY <1>1, <1>10, <2>1, FailsRInv, Zenon
<1>11. ASSUME ~f.tmp, Expired(f, now), NEW fs \in {DOMAIN files \ {f}, DOMAIN files},
              Keep(fs), GoesRmdir(p, r(f), fs)
       PROVE  RInv'
  <2>1. /\ DOMAIN files' = fs /\ DOMAIN files' \subseteq DOMAIN files
        /\ \A g \in DOMAIN files : g # f => g \in DOMAIN files'
        /\ \A g \in DOMAIN files' : files'[g] = files[g]
    BY <1>11, Zenon DEF Keep, Restrict
  <2>2. ASSUME last.known PROVE f \notin Live(last, now)
    <3>1. CASE f \in last.names
      <4>1. Deadline(f) \in Nat
        BY <1>2, <2>2, <3>1, DeadlineIsTime, Zenon DEF LastOK
      <4>2. now \in Nat /\ now > Deadline(f)
        BY <1>2, <1>5, <1>11, Zenon
      <4>3. ~(now <= Deadline(f))
        BY <4>1, <4>2
      <4> QED BY <4>3, Zenon DEF Live
    <3> QED BY <3>1, Zenon DEF Live
  <2>3. LastOK(files', now, last)
    BY <1>2, <2>1, <2>2, Zenon DEF LastOK, Live
  <2>4. ASSUME r(f).quiet, last.known PROVE ReadOK(r(f), now, last)
    <3>1. ReadOK(proc[p], now, last)
      BY <1>4, <1>6, <2>4, Zenon
    <3>2. proc[p].values # <<>> \/ Live(last, now) \subseteq proc[p].snap \ (proc[p].seen \cup {f})
      BY <1>1, <2>2, <2>4, <3>1, Zenon DEF ReadOK
    <3> QED BY <1>1, <1>6, <3>1, <3>2, Zenon DEF ReadOK, Known
  <2> QED BY <1>1, <1>2, <1>6, <1>11, <2>1, <2>3, <2>4, GetGoes, Zenon
<1> QED BY <1>3, <1>8, <1>9, <1>10, <1>11, Zenon

\* A listing that ends has returned the file that can be read.
LEMMA LoadListedRInv == ASSUME RInv, FInv', NEW p \in Procs, LoadListed(p) PROVE RInv'
<1> DEFINE r == proc[p]
           s(v) == [Closed(r) EXCEPT !.pc = "done", !.values = <<>>, !.value = v]
<1>1. r.pc = "load" /\ UNCHANGED <<now, files, last>> /\ Listed(r)
  BY Zenon DEF LoadListed, history
<1>2. /\ r.op = "get" /\ DOMAIN r = Fields /\ LastOK(files, now, last)
      /\ r.quiet /\ last.known => ReadOK(r, now, last)
  BY <1>1, InRead, Zenon
<1>3. CASE r.values = <<>> /\ GetFails(p, "ENOENT")
  <2>1. r.quiet /\ last.known => Live(last, now) = {}
    BY <1>1, <1>2, <1>3, Zenon DEF ReadOK, LastOK, Live, Listed
  <2> QED BY <1>1, <1>3, <2>1, FailsRInv, Zenon
<1>4. ASSUME NEW i \in DOMAIN r.values, Goes(p, s(r.values[i])) PROVE RInv'
  <2> DEFINE t == s(r.values[i])
  <2>1. /\ DOMAIN t = Fields /\ t.op = "get" /\ t.quiet = r.quiet /\ t.pc = "done"
        /\ t.rc = r.rc /\ t.values = <<>> /\ t.begun = r.begun /\ t.value = r.values[i]
    BY <1>2, Zenon DEF Closed, Fields, Idle
  <2> HIDE DEF s
  <2>2. ASSUME t.quiet, last.known PROVE ReadOK(t, now, last)
    <3>1. ReadOK(r, now, last) /\ r.rc = "OK"
      BY <1>1, <1>2, <2>1, <2>2, Zenon DEF ReadOK
    <3>2. Known(t.value, t, last)
      BY <1>4, <2>1, <3>1, Zenon DEF ReadOK, Known
    <3>3. DOMAIN t.values = {}
      BY <2>1, NoValues, Zenon
    <3>4. t.begun \in Nat /\ t.begun <= now
      BY <2>1, <3>1, Zenon DEF ReadOK
    <3> HIDE DEF t
    <3> QED BY <2>1, <3>1, <3>2, <3>3, <3>4, Zenon DEF ReadOK
  <2> QED BY <1>1, <1>2, <1>4, <2>1, <2>2, GetGoes, Zenon
<1> QED BY <1>3, <1>4, Zenon DEF LoadListed

\* A get that returns, and a process that crashes.
LEMMA LeavesRInv ==
    ASSUME RInv, FInv', NEW p \in Procs, GetReturns(p) \/ Crash(p)
    PROVE  RInv'
<1>1. Goes(p, Idle) /\ UNCHANGED <<now, files, last>>
  BY Zenon DEF GetReturns, Crash, history
<1>2. KInv /\ now \in Nat /\ LastOK(files, now, last)
  BY Zenon DEF RInv, FInv, KInv
<1>3. DOMAIN Idle = Fields /\ Idle.op = "none"
  BY Zenon DEF Fields, Idle
<1>4. Same(Idle, proc'[p]) /\ \A q \in Procs \ {p} : Same(proc[q], proc'[q])
  BY <1>1, <1>2, <1>3, WentSame, Zenon
<1>5. proc'[p].op = "none"
  BY <1>3, <1>4, Zenon DEF Same, Alike, Similar
<1>6. QuietOK(proc'[p], files', now', last)
  BY <1>5, NotQuiet, Zenon
<1>7. now <= now'
  BY <1>1, <1>2, SameTime, Zenon
<1> QED BY <1>1, <1>2, <1>4, <1>5, <1>6, <1>7, ReadStep, Zenon

\* A failure that kvremove ignores: p is not alone from then on.
LEMMA MissedRInv ==
    ASSUME RInv, FInv', NEW p \in Procs, UnlinkFails(p) \/ RemoveFails(p)
    PROVE  RInv'
<1>1. KInv /\ now \in Nat /\ LastOK(files, now, last)
  BY Zenon DEF RInv, FInv, KInv
<1>2. PICK s :
         /\ Goes(p, s) \/ GoesRmdir(p, s, DOMAIN files)
         /\ DOMAIN s = Fields
         /\ s.op = "none" \/ (s.op = proc[p].op /\ ~s.quiet)
         /\ proc[p].op \in {"set", "remove"} /\ Misses(p)
  BY <1>1, MissedStep, Zenon
<1>3. UNCHANGED <<now, files, last>>
  BY <1>2, Zenon DEF Misses
<1>4. Same(s, proc'[p]) /\ \A q \in Procs \ {p} : Same(proc[q], proc'[q])
  BY <1>1, <1>2, WentSame, Zenon
<1>5. proc'[p].op = "none" \/ (proc'[p].op = proc[p].op /\ ~proc'[p].quiet)
  BY <1>2, <1>4, Zenon DEF Same, Alike, Similar
<1>6. QuietOK(proc'[p], files', now', last)
  BY <1>5, NotQuiet, Zenon
<1>7. now <= now'
  BY <1>1, <1>3, SameTime, Zenon
<1> QED BY <1>1, <1>3, <1>4, <1>5, <1>6, <1>7, ReadStep, Zenon

\* A set or a get that fails leaves nothing known, or is not alone.
LEMMA SetFailsRInv == ASSUME RInv, FInv', NEW p \in Procs, SetFails(p) PROVE RInv'
<1>1. Writes(proc[p]) /\ Goes(p, Idle) /\ Return(p, "EOTHER")
  BY SetFailsStep, Zenon DEF RInv, FInv, Writes
<1> QED BY <1>1, WriterEnds, Zenon

LEMMA GetErrorRInv == ASSUME RInv, FInv', NEW p \in Procs, GetError(p) PROVE RInv'
<1>1. KInv /\ LastOK(files, now, last)
  BY Zenon DEF RInv, FInv
<1>2. PICK s :
         /\ Goes(p, s) /\ DOMAIN s = Fields /\ proc[p].op = "get" /\ s.op = "get"
         /\ ~s.quiet /\ UNCHANGED <<now, files, last>>
  BY <1>1, GetErrorStep, Zenon
<1> QED BY <1>1, <1>2, GetGoes, Zenon

\* The clock ticks.
LEMMA TickRInv ==
    ASSUME RInv, FInv', UNCHANGED <<files, proc, last>>, now <= now', now' \in Nat
    PROVE  RInv'
<1>1. /\ KInv /\ now \in Nat /\ LastOK(files, now, last)
      /\ \A q \in Procs : QuietOK(proc[q], files, now, last) /\ Same(proc[q], proc[q])
  BY Zenon DEF RInv, FInv, KInv, ProcOK, Same, Alike, Similar
<1>2. last.known => last.names \subseteq Names
  BY <1>1, Zenon DEF LastOK
<1>3. ASSUME NEW q \in Procs PROVE QuietOK(proc'[q], files', now', last')
  <2>1. QuietOK(proc[q], files, now, last) /\ Same(proc[q], proc[q])
    BY <1>1, Zenon
  <2> QED BY <1>1, <1>2, <2>1, QuietLater, Zenon
<1>4. LastOK(files', now', last')
  <2>1. last.known => Live(last, now') \subseteq Live(last, now)
    BY <1>1, <1>2, LiveShrinks, Zenon
  <2> QED BY <1>1, <2>1, Zenon DEF LastOK, Live
<1>5. Alone'
  BY Zenon DEF RInv, Alone
<1> QED BY <1>3, <1>4, <1>5, Zenon DEF RInv

\* Initially nothing was set and nothing is there.
LEMMA InitRInv == Init => RInv
<1> SUFFICES ASSUME Init PROVE RInv
  BY Zenon
<1>1. /\ files = <<>> /\ last = [known |-> TRUE, names |-> {}, due |-> 0]
      /\ \A p \in Procs : proc[p] = Idle
  BY Zenon DEF Init
<1>2. DOMAIN files = {} /\ Idle.op = "none"
  <2>1. DOMAIN files = {}
    BY <1>1
  <2>2. Idle.op = "none"
    BY Zenon DEF Idle
  <2> QED BY <2>1, <2>2, Zenon
<1>4. LastOK(files, now, last)
  BY <1>1, <1>2, Zenon DEF LastOK
<1>5. \A p \in Procs : QuietOK(proc[p], files, now, last)
  BY <1>1, <1>2, NotQuiet, Zenon
<1>6. Alone
  BY <1>1, <1>2, Zenon DEF Alone, Writes
<1> QED BY <1>4, <1>5, <1>6, InitFInv, Zenon DEF RInv

\* Every step preserves the invariant.
LEMMA NextRInv == RInv /\ [Next]_vars => RInv'
<1> SUFFICES ASSUME RInv, [Next]_vars PROVE RInv'
  BY Zenon
<1>0. FInv'
  BY NextFInv, Zenon DEF RInv
<1>1. ASSUME NEW p \in Procs, Get(p) \/ Set(p) \/ Remove(p) \/ BuildKeyPath(p) PROVE RInv'
  BY <1>0, <1>1, GetRInv, SetRInv, RemoveRInv, BuildKeyPathRInv, Zenon
<1>2. ASSUME NEW p \in Procs, RemoveOpen(p) \/ RemoveFile(p) \/ RemoveDir(p) PROVE RInv'
  BY <1>0, <1>2, RemoveOpenRInv, RemoveFileRInv, RemoveDirRInv, Zenon
<1>3. ASSUME NEW p \in Procs, Mkstemp(p) \/ Write(p) \/ Rename(p) \/ Chmod(p) PROVE RInv'
  BY <1>0, <1>3, MkstempRInv, WriteRInv, RenameRInv, ChmodRInv, Zenon
<1>4. ASSUME NEW p \in Procs, GetOpen(p) \/ Count(p) \/ CountListed(p) PROVE RInv'
  BY <1>0, <1>4, GetOpenRInv, CountRInv, CountListedRInv, Zenon
<1>5. ASSUME NEW p \in Procs, Load(p) \/ LoadListed(p) PROVE RInv'
  BY <1>0, <1>5, LoadRInv, LoadListedRInv, Zenon
<1>6. ASSUME NEW p \in Procs, GetReturns(p) \/ Crash(p) PROVE RInv'
  BY <1>0, <1>6, LeavesRInv, Zenon
<1>7. CASE Tick \/ UNCHANGED vars
  <2>1. now \in Nat
    BY Zenon DEF RInv, FInv, KInv
  <2>2. UNCHANGED <<files, proc, last>>
    BY <1>7, Zenon DEF Tick, vars, history
  <2>3. now' = now \/ \E t \in 1..Second : now' = now + t
    BY <1>7, Zenon DEF Tick, vars
  <2>4. now <= now' /\ now' \in Nat
    BY <2>1, <2>3, KvstoreAssumption DEF KvstoreAssumption
  <2> QED BY <1>0, <2>2, <2>4, TickRInv, Zenon
<1>9. ASSUME NEW p \in Procs, UnlinkFails(p) \/ RemoveFails(p) \/ SetFails(p) \/ GetError(p)
      PROVE  RInv'
  BY <1>0, <1>9, MissedRInv, SetFailsRInv, GetErrorRInv, Zenon
<1> QED BY <1>1, <1>2, <1>3, <1>4, <1>5, <1>6, <1>7, <1>9, Zenon DEF Next

(* A get that meets no failure and that no set or remove overlaps returns  *)
(* what the last of them left, if that one was alone, met no failure and   *)
(* returned IB_OK: nothing but its value, not once the expiration it was   *)
(* given is over, and for sure until two seconds before; for any number of *)
(* processes and whatever earlier crashes and failures have left.          *)
THEOREM ReadsReturnLast == Spec => []ReadsLast
<1>1. RInv => ReadsLast
  <2> SUFFICES ASSUME RInv, NEW p \in Procs,
                      proc[p].pc = "done", proc[p].quiet, last.known
               PROVE  /\ proc[p].rc = "OK" =>
                            \E f \in last.names :
                               proc[p].value.data = f.n /\ proc[p].begun <= last.due
                      /\ \A f \in last.names :
                            f.expire # 0 /\ now + 2 * (Second - 1) <= last.due =>
                                proc[p].rc = "OK"
    BY Zenon DEF ReadsLast
  <2>1. ReadOK(proc[p], now, last) /\ LastOK(files, now, last) /\ now \in Nat /\ Second \in Nat
    BY InRead, KvstoreAssumption, Zenon DEF RInv, FInv, KInv, KvstoreAssumption
  <2>2. ASSUME NEW f \in last.names
        PROVE  /\ Deadline(f) \in Nat /\ last.due \in Nat /\ Deadline(f) <= last.due
               /\ f.expire # 0 => last.due <= Deadline(f) + 2 * (Second - 1)
    BY <2>1, DeadlineIsTime, Zenon DEF LastOK, Due, Deadline
  <2>3. ASSUME proc[p].rc = "OK"
        PROVE  \E f \in last.names :
                  proc[p].value.data = f.n /\ proc[p].begun <= last.due
    <3>1. PICK f \in last.names : proc[p].value.data = f.n /\ proc[p].begun <= Deadline(f)
      BY <2>1, <2>3, Zenon DEF ReadOK, Known
    <3>2. PICK d \in Nat : d = Deadline(f) /\ d <= last.due /\ proc[p].begun <= d
      BY <2>2, <3>1, Zenon
    <3>3. proc[p].begun \in Nat /\ last.due \in Nat
      BY <2>1, <2>2, Zenon DEF ReadOK
    <3>4. proc[p].begun <= last.due
      BY <3>2, <3>3
    <3> QED BY <3>1, <3>4, Zenon
  <2>4. ASSUME NEW f \in last.names, f.expire # 0, now + 2 * (Second - 1) <= last.due
        PROVE  proc[p].rc = "OK"
    <3>1. PICK d \in Nat : d = Deadline(f) /\ last.due <= d + 2 * (Second - 1)
      BY <2>2, <2>4, Zenon
    <3>2. last.due \in Nat
      BY <2>2, Zenon
    <3>3. now <= d
      BY <2>1, <2>4, <3>1, <3>2
    <3> QED BY <2>1, <2>4, <3>1, <3>3, Zenon DEF ReadOK, Live
  <2> QED BY <2>3, <2>4, Zenon
<1>2. Spec => []RInv
  BY InitRInv, NextRInv, PTL DEF Spec
<1> QED BY <1>1, <1>2, PTL
=============================================================================
