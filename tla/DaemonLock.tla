----------------------------- MODULE DaemonLock -----------------------------
(***************************************************************************)
(* acquireLock and release of src/daemon.ts: daemon.lock is created with   *)
(* O_EXCL, carries the pid of its owner, and is removed by whoever finds   *)
(* that pid dead.  Every system call is a step of its own, and a process   *)
(* may die between any two.  Any number of processes may be inside         *)
(* acquireLock together: nothing keeps a second start, or a migration,     *)
(* from beginning while the first is under way.  A pid belongs to one      *)
(* process for good: that the system gives a dead daemon's pid to another  *)
(* program is left out.                                                    *)
(***************************************************************************)
EXTENDS Naturals

CONSTANT Proc   \* processes that run the daemon or a migration, by pid

ASSUME LockAssumption == "none" \notin Proc

\* The file at lockPath: who created it, and whether the pid has been written.
File == [by : Proc \cup {"none"}, named : BOOLEAN]
Absent == [by |-> "none", named |-> FALSE]

VARIABLES lock,      \* the file
          pc,        \* where each process is
          attempt,   \* the loop variable of acquireLock
          pid,       \* the pid read from the file; "none" if it was empty
          met,       \* history: the lock was held at some time during the start
          beside,    \* history: another start was under way at some time during it
          raced      \* history: such a start has removed the file

vars == <<lock, pc, attempt, pid, met, beside, raced>>

Starting == {"open", "write", "read", "kill", "rm"}
Place == Starting \cup {"new", "held", "busy", "gone"}

TypeOK ==
    /\ lock \in File
    /\ pc \in [Proc -> Place]
    /\ attempt \in [Proc -> 0..2]
    /\ pid \in [Proc -> Proc \cup {"none"}]
    /\ met \in [Proc -> BOOLEAN]
    /\ beside \in [Proc -> BOOLEAN]
    /\ raced \in BOOLEAN

Init ==
    /\ lock = Absent
    /\ pc = [p \in Proc |-> "new"]
    /\ attempt = [p \in Proc |-> 0]
    /\ pid = [p \in Proc |-> "none"]
    /\ met = [p \in Proc |-> FALSE]
    /\ beside = [p \in Proc |-> FALSE]
    /\ raced = FALSE

\* p goes to another place; whoever is starting then meets the holders and the
\* other starters of then.
Go(p, place) ==
    /\ pc' = [pc EXCEPT ![p] = place]
    /\ met' = [q \in Proc |-> met[q] \/ (pc'[q] \in Starting /\ \E h \in Proc : pc'[h] = "held")]
    /\ beside' = [q \in Proc |->
           beside[q] \/ (pc'[q] \in Starting /\ \E o \in Proc \ {q} : pc'[o] \in Starting)]

Start(p) ==
    /\ pc[p] = "new"
    /\ Go(p, "open")
    /\ UNCHANGED <<lock, attempt, pid, raced>>

\* openSync(lockPath, "wx")
Open(p) ==
    /\ pc[p] = "open"
    /\ \/ /\ lock = Absent
          /\ lock' = [by |-> p, named |-> FALSE]
          /\ Go(p, "write")
       \/ /\ lock # Absent
          /\ Go(p, "read")
          /\ UNCHANGED lock
    /\ UNCHANGED <<attempt, pid, raced>>

\* writeFileSync(fd, pid) goes through the descriptor: it is seen if the file is
\* still the one that p created.
Written(p) == IF lock.by = p THEN [lock EXCEPT !.named = TRUE] ELSE lock

\* The pid is written and acquireLock returns.
WritePid(p) ==
    /\ pc[p] = "write"
    /\ lock' = Written(p)
    /\ Go(p, "held")
    /\ UNCHANGED <<attempt, pid, raced>>

\* readFileSync: a file that has gone meanwhile is BUSY, and so thrown.
ReadPid(p) ==
    /\ pc[p] = "read"
    /\ \/ /\ lock = Absent
          /\ Go(p, "busy")
          /\ UNCHANGED pid
       \/ /\ lock # Absent
          /\ pid' = [pid EXCEPT ![p] = IF lock.named THEN lock.by ELSE "none"]
          /\ Go(p, "kill")
    /\ UNCHANGED <<lock, attempt, raced>>

\* Mutant: every lock is stale.
StaleAlways(q) == TRUE

\* process.kill(pid, 0) finds nobody, or the file carried no pid.
Stale(q) == q = "none" \/ pc[q] \in {"busy", "gone"}

CheckPid(p) ==
    /\ pc[p] = "kill"
    /\ Go(p, IF Stale(pid[p]) THEN "rm" ELSE "busy")
    /\ UNCHANGED <<lock, attempt, pid, raced>>

\* Mutant: one attempt.
AttemptsOne == 1

Attempts == 2

\* rmSync(lockPath), whatever is there by now, and the next attempt.
Remove(p) ==
    /\ pc[p] = "rm"
    /\ lock' = Absent
    /\ attempt' = [attempt EXCEPT ![p] = @ + 1]
    /\ Go(p, IF attempt[p] + 1 < Attempts THEN "open" ELSE "busy")
    /\ raced' = (raced \/ beside[p])
    /\ UNCHANGED pid

\* Daemon.stop ends in release, which unlinks the path.
Release(p) ==
    /\ pc[p] = "held"
    /\ lock' = Absent
    /\ Go(p, "gone")
    /\ UNCHANGED <<attempt, pid, raced>>

Die(p) ==
    /\ pc[p] \in Starting \cup {"held"}
    /\ Go(p, "gone")
    /\ UNCHANGED <<lock, attempt, pid, raced>>

Next ==
    \E p \in Proc :
        \/ Start(p) \/ Open(p) \/ WritePid(p) \/ ReadPid(p) \/ CheckPid(p)
        \/ Remove(p) \/ Release(p) \/ Die(p)

Spec == Init /\ [][Next]_vars

-----------------------------------------------------------------------------
\* The store, its depth counter and the engine's maps assume that nobody else
\* writes.  Two daemons serve together only after a start that overlapped another
\* has removed the file: whatever leftovers are reclaimed by starts that are alone,
\* and however many starts meet a pid that lives, one daemon at a time holds the
\* lock.
Exclusive ==
    ~raced => \A p, q \in Proc : pc[p] = "held" /\ pc[q] = "held" => p = q

\* What a daemon that died left behind, a pid or an empty file, keeps nobody out:
\* a start is refused only if the lock was held, or another start was under way, at
\* some time during it.
RefusedByHolder == \A p \in Proc : pc[p] = "busy" => met[p] \/ beside[p]

-----------------------------------------------------------------------------
(* A formula that does not hold of the code; see the README. *)

\* The lock is exclusive whoever starts when.
ExclusiveAlways == \A p, q \in Proc : pc[p] = "held" /\ pc[q] = "held" => p = q
=============================================================================
