-------------------------- MODULE DaemonLockProofs --------------------------
(***************************************************************************)
(* Proofs about DaemonLock for any number of processes, any number of them *)
(* inside acquireLock together.  A start that is alone is not disturbed:   *)
(* only the holder can act beside it, and only by leaving.  As long as     *)
(* only such starts have removed the file, it names whoever holds the      *)
(* lock.                                                                   *)
(***************************************************************************)
EXTENDS DaemonLock, TLAPS

\* A starter has met the holders and the other starters.
Met ==
    \A p \in Proc : pc[p] \in Starting =>
        /\ (\E h \in Proc : pc[h] = "held") => met[p]
        /\ (\E o \in Proc \ {p} : pc[o] \in Starting) => beside[p]

\* Only a process that has written its pid is named in the file.
NamedTrue ==
    /\ lock # Absent => lock.by \in Proc
    /\ lock # Absent /\ lock.named => pc[lock.by] \in {"held", "gone"}
    /\ \A p \in Proc : pc[p] = "kill" /\ pid[p] # "none" => pc[pid[p]] \in {"held", "gone"}

\* An attempt is left as long as a start lasts; one that is alone has used it only
\* to come to a free path.
AttemptTrue ==
    \A p \in Proc :
        /\ pc[p] = "new" => attempt[p] = 0
        /\ pc[p] \in Starting => attempt[p] \in 0..1
        /\ pc[p] \in {"read", "kill", "rm"} /\ ~beside[p] => attempt[p] = 0
        /\ pc[p] = "open" /\ attempt[p] # 0 /\ ~beside[p] => lock = Absent
        /\ pc[p] = "read" /\ lock = Absent /\ ~beside[p] => met[p]

\* The file is the one of whoever writes or holds; and what a start that is alone
\* has found out about the holder stays true.
FileTrue ==
    \A p \in Proc :
        /\ pc[p] = "write" => lock = [by |-> p, named |-> FALSE]
        /\ pc[p] = "held" => lock = [by |-> p, named |-> TRUE]
        /\ pc[p] = "kill" /\ ~beside[p] => \A h \in Proc : pc[h] = "held" => pid[p] = h
        /\ pc[p] = "rm" /\ ~beside[p] => \A h \in Proc : pc[h] # "held"

IndInv ==
    /\ TypeOK /\ Met /\ NamedTrue /\ AttemptTrue
    /\ RefusedByHolder
    /\ ~raced => FileTrue

\* Nobody has started.
LEMMA InitInd == Init => IndInv
<1> SUFFICES ASSUME Init PROVE IndInv
  OBVIOUS
<1>1. TypeOK
  <2>1. lock \in File
    BY DEF Init, File, Absent
  <2>2. pc \in [Proc -> Place]
    BY DEF Init, Place
  <2>3. attempt \in [Proc -> 0..2] /\ pid \in [Proc -> Proc \cup {"none"}]
    BY DEF Init
  <2>4. met \in [Proc -> BOOLEAN] /\ beside \in [Proc -> BOOLEAN] /\ raced \in BOOLEAN
    BY DEF Init
  <2> QED BY <2>1, <2>2, <2>3, <2>4 DEF TypeOK
<1>2. \A p \in Proc : pc[p] = "new" /\ attempt[p] = 0
  BY DEF Init
<1>3. lock = Absent
  BY DEF Init
<1> QED BY <1>1, <1>2, <1>3
        DEF IndInv, Met, NamedTrue, AttemptTrue, FileTrue, RefusedByHolder, Starting

\* What a step of p leaves alone and what it writes into the history.
Moved(p, place) ==
    /\ pc' \in [Proc -> Place] /\ met' \in [Proc -> BOOLEAN] /\ beside' \in [Proc -> BOOLEAN]
    /\ pc'[p] = place /\ \A q \in Proc \ {p} : pc'[q] = pc[q]
    /\ \A q \in Proc : (met[q] => met'[q]) /\ (beside[q] => beside'[q])
    /\ \A q \in Proc : pc'[q] \in Starting =>
          /\ (\E h \in Proc : pc'[h] = "held") => met'[q]
          /\ (\E o \in Proc \ {q} : pc'[o] \in Starting) => beside'[q]

\* Go does.
LEMMA GoMoved ==
    ASSUME TypeOK, NEW p \in Proc, NEW place \in Place, Go(p, place)
    PROVE Moved(p, place)
<1> DEFINE Holder(q) == pc'[q] \in Starting /\ \E h \in Proc : pc'[h] = "held"
           Other(q) == pc'[q] \in Starting /\ \E o \in Proc \ {q} : pc'[o] \in Starting
<1>1. pc' \in [Proc -> Place] /\ pc'[p] = place /\ \A q \in Proc \ {p} : pc'[q] = pc[q]
  BY DEF Go, TypeOK
<1>2. met' = [q \in Proc |-> met[q] \/ Holder(q)] /\ beside' = [q \in Proc |-> beside[q] \/ Other(q)]
  BY DEF Go
<1>3. \A q \in Proc : Holder(q) \in BOOLEAN /\ Other(q) \in BOOLEAN
  OBVIOUS
<1> HIDE DEF Holder, Other
<1>4. met' \in [Proc -> BOOLEAN] /\ beside' \in [Proc -> BOOLEAN]
  BY <1>2, <1>3 DEF TypeOK
<1>5. \A q \in Proc : met'[q] = (met[q] \/ Holder(q)) /\ beside'[q] = (beside[q] \/ Other(q))
  BY <1>2
<1> QED BY <1>1, <1>4, <1>5 DEF Moved, Holder, Other

\* A start that is alone: nobody else is inside acquireLock before the step, nor after.
LEMMA Alone ==
    ASSUME IndInv, NEW p \in Proc, NEW place \in Place, Moved(p, place),
           NEW q \in Proc \ {p}, pc'[q] \in Starting, ~beside'[q]
    PROVE pc[q] = pc'[q] /\ pc[p] \notin Starting /\ place \notin Starting /\ ~beside[q]
  BY DEF IndInv, Met, Moved

\* The pid is in the file, or the file is somebody else's.
LEMMA WrittenIs ==
    ASSUME TypeOK, NEW p \in Proc
    PROVE \/ lock.by = p /\ Written(p) = [by |-> p, named |-> TRUE]
          \/ lock.by # p /\ Written(p) = lock
  BY DEF TypeOK, File, Written

\* Whoever was alone so far is not any more.
LEMMA StartInd == ASSUME IndInv, NEW p \in Proc, Start(p) PROVE IndInv'
<1>1. /\ pc[p] = "new"
      /\ UNCHANGED <<lock, attempt, pid, raced>>
      /\ Go(p, "open")
  BY DEF Start
<1>2. Moved(p, "open")
  BY <1>1, GoMoved DEF IndInv, Place, Starting
<1>3. TypeOK'
  BY <1>1, <1>2
  DEF IndInv, TypeOK, File, Absent, AttemptTrue, Starting, Moved
<1>4. Met'
  BY <1>1, <1>2
  DEF Met, Moved
<1>5. NamedTrue'
  BY <1>1, <1>2, LockAssumption
  DEF IndInv, TypeOK, NamedTrue, Moved, Absent, File
<1>6. AttemptTrue'
  BY <1>1, <1>2, Alone
  DEF IndInv, TypeOK, AttemptTrue, Moved, Met, Starting, Absent, File
<1>7. RefusedByHolder'
  BY <1>1, <1>2
  DEF IndInv, TypeOK, NamedTrue, AttemptTrue, RefusedByHolder, Moved, Met, Starting, Stale
<1>8. ~raced' => FileTrue'
  BY <1>1, <1>2, Alone
  DEF IndInv, TypeOK, NamedTrue, FileTrue, Moved, Met, Starting, Absent, File, Stale
<1> QED BY <1>3, <1>4, <1>5, <1>6, <1>7, <1>8 DEF IndInv

\* The file is made on a free path, or is somebody's.
LEMMA OpenInd == ASSUME IndInv, NEW p \in Proc, Open(p) PROVE IndInv'
<1>1. CASE lock = Absent
  <2>1. /\ pc[p] = "open"
        /\ lock' = [by |-> p, named |-> FALSE]
        /\ UNCHANGED <<attempt, pid, raced>>
        /\ Go(p, "write")
    BY <1>1 DEF Open
  <2>2. Moved(p, "write")
    BY <2>1, GoMoved DEF IndInv, Place, Starting
  <2>3. TypeOK'
    BY <1>1, <2>1, <2>2
    DEF IndInv, TypeOK, File, Absent, AttemptTrue, Starting, Moved
  <2>4. Met'
    BY <1>1, <2>1, <2>2
    DEF Met, Moved
  <2>5. NamedTrue'
    BY <1>1, <2>1, <2>2, LockAssumption
    DEF IndInv, TypeOK, NamedTrue, Moved, Absent, File
  <2>6. AttemptTrue'
    BY <1>1, <2>1, <2>2, Alone
    DEF IndInv, TypeOK, AttemptTrue, Moved, Met, Starting, Absent, File
  <2>7. RefusedByHolder'
    BY <1>1, <2>1, <2>2
    DEF IndInv, TypeOK, NamedTrue, AttemptTrue, RefusedByHolder, Moved, Met, Starting, Stale
  <2>8. ~raced' => FileTrue'
    <3> SUFFICES ASSUME ~raced' PROVE FileTrue'
      OBVIOUS
    <3>1. FileTrue
      BY <1>1, <2>1, <2>2 DEF IndInv
    <3>2. \A q \in Proc : (pc'[q] = "write" => lock' = [by |-> q, named |-> FALSE])
                         /\ (pc'[q] = "held" => lock' = [by |-> q, named |-> TRUE])
      BY <1>1, <2>1, <2>2, <3>1, LockAssumption DEF IndInv, TypeOK, FileTrue, Moved, Absent
    <3>3. \A q \in Proc : pc'[q] = "kill" /\ ~beside'[q] => \A h \in Proc : pc'[h] = "held" => pid'[q] = h
      BY <1>1, <2>1, <2>2, <3>1, Alone DEF IndInv, TypeOK, FileTrue, Moved, Starting, Place
    <3>4. \A q \in Proc : pc'[q] = "rm" /\ ~beside'[q] => \A h \in Proc : pc'[h] # "held"
      BY <1>1, <2>1, <2>2, <3>1, Alone, LockAssumption DEF IndInv, TypeOK, FileTrue, Moved, Starting, Place
    <3> QED BY <3>2, <3>3, <3>4 DEF FileTrue
  <2> QED BY <2>3, <2>4, <2>5, <2>6, <2>7, <2>8 DEF IndInv
<1>2. CASE lock # Absent
  <2>1. /\ pc[p] = "open"
        /\ UNCHANGED <<lock, attempt, pid, raced>>
        /\ Go(p, "read")
    BY <1>2 DEF Open
  <2>2. Moved(p, "read")
    BY <2>1, GoMoved DEF IndInv, Place, Starting
  <2>3. TypeOK'
    BY <1>2, <2>1, <2>2
    DEF IndInv, TypeOK, File, Absent, AttemptTrue, Starting, Moved
  <2>4. Met'
    BY <1>2, <2>1, <2>2
    DEF Met, Moved
  <2>5. NamedTrue'
    BY <1>2, <2>1, <2>2, LockAssumption
    DEF IndInv, TypeOK, NamedTrue, Moved, Absent, File
  <2>6. AttemptTrue'
    BY <1>2, <2>1, <2>2, Alone
    DEF IndInv, TypeOK, AttemptTrue, Moved, Met, Starting, Absent, File
  <2>7. RefusedByHolder'
    BY <1>2, <2>1, <2>2
    DEF IndInv, TypeOK, NamedTrue, AttemptTrue, RefusedByHolder, Moved, Met, Starting, Stale
  <2>8. ~raced' => FileTrue'
    BY <1>2, <2>1, <2>2, Alone
    DEF IndInv, TypeOK, NamedTrue, FileTrue, Moved, Met, Starting, Absent, File, Stale
  <2> QED BY <2>3, <2>4, <2>5, <2>6, <2>7, <2>8 DEF IndInv
<1> QED BY <1>1, <1>2

\* The pid goes into the file if it is still the starter's own.
LEMMA WritePidInd == ASSUME IndInv, NEW p \in Proc, WritePid(p) PROVE IndInv'
<1>1. /\ pc[p] = "write"
      /\ lock' = Written(p)
      /\ UNCHANGED <<attempt, pid, raced>>
      /\ Go(p, "held")
      /\ \/ lock.by = p /\ lock' = [by |-> p, named |-> TRUE]
         \/ lock.by # p /\ lock' = lock
  BY WrittenIs DEF WritePid, IndInv
<1>2. Moved(p, "held")
  BY <1>1, GoMoved DEF IndInv, Place, Starting
<1>3. TypeOK'
  <2>1. lock' \in File
    <3>1. [by |-> p, named |-> TRUE] \in File
      BY DEF File
    <3> QED BY <1>1, <3>1 DEF IndInv, TypeOK
  <2> QED BY <1>1, <1>2, <2>1 DEF IndInv, TypeOK, Moved
<1>4. Met'
  BY <1>1, <1>2
  DEF Met, Moved
<1>5. NamedTrue'
  BY <1>1, <1>2, LockAssumption
  DEF IndInv, TypeOK, NamedTrue, Moved, Absent, File
<1>6. AttemptTrue'
  BY <1>1, <1>2, Alone
  DEF IndInv, TypeOK, AttemptTrue, Moved, Met, Starting, Absent, File
<1>7. RefusedByHolder'
  BY <1>1, <1>2
  DEF IndInv, TypeOK, NamedTrue, AttemptTrue, RefusedByHolder, Moved, Met, Starting, Stale
<1>8. ~raced' => FileTrue'
  BY <1>1, <1>2, Alone
  DEF IndInv, TypeOK, NamedTrue, FileTrue, Moved, Met, Starting, Absent, File, Stale
<1> QED BY <1>3, <1>4, <1>5, <1>6, <1>7, <1>8 DEF IndInv

\* What is read names the holder, or a process that died.
LEMMA ReadPidInd == ASSUME IndInv, NEW p \in Proc, ReadPid(p) PROVE IndInv'
<1>1. CASE lock = Absent
  <2>1. /\ pc[p] = "read"
        /\ UNCHANGED <<lock, attempt, pid, raced>>
        /\ Go(p, "busy")
    BY <1>1 DEF ReadPid
  <2>2. Moved(p, "busy")
    BY <2>1, GoMoved DEF IndInv, Place, Starting
  <2>3. TypeOK'
    BY <1>1, <2>1, <2>2
    DEF IndInv, TypeOK, File, Absent, AttemptTrue, Starting, Moved
  <2>4. Met'
    BY <1>1, <2>1, <2>2
    DEF Met, Moved
  <2>5. NamedTrue'
    BY <1>1, <2>1, <2>2, LockAssumption
    DEF IndInv, TypeOK, NamedTrue, Moved, Absent, File
  <2>6. AttemptTrue'
    BY <1>1, <2>1, <2>2, Alone
    DEF IndInv, TypeOK, AttemptTrue, Moved, Met, Starting, Absent, File
  <2>7. RefusedByHolder'
    BY <1>1, <2>1, <2>2
    DEF IndInv, TypeOK, NamedTrue, AttemptTrue, RefusedByHolder, Moved, Met, Starting, Stale
  <2>8. ~raced' => FileTrue'
    <3> SUFFICES ASSUME ~raced' PROVE FileTrue'
      OBVIOUS
    <3>1. FileTrue
      BY <1>1, <2>1, <2>2 DEF IndInv
    <3>2. \A q \in Proc : (pc'[q] = "write" => lock' = [by |-> q, named |-> FALSE])
                         /\ (pc'[q] = "held" => lock' = [by |-> q, named |-> TRUE])
      BY <1>1, <2>1, <2>2, <3>1, LockAssumption DEF IndInv, TypeOK, FileTrue, Moved, Absent
    <3>3. \A q \in Proc : pc'[q] = "kill" /\ ~beside'[q] => \A h \in Proc : pc'[h] = "held" => pid'[q] = h
      BY <1>1, <2>1, <2>2, <3>1, Alone DEF IndInv, TypeOK, FileTrue, Moved, Starting, Place
    <3>4. \A q \in Proc : pc'[q] = "rm" /\ ~beside'[q] => \A h \in Proc : pc'[h] # "held"
      BY <1>1, <2>1, <2>2, <3>1, Alone, LockAssumption DEF IndInv, TypeOK, FileTrue, Moved, Starting, Place
    <3> QED BY <3>2, <3>3, <3>4 DEF FileTrue
  <2> QED BY <2>3, <2>4, <2>5, <2>6, <2>7, <2>8 DEF IndInv
<1>2. CASE lock # Absent
  <2>1. /\ pc[p] = "read"
        /\ pid' = [pid EXCEPT ![p] = IF lock.named THEN lock.by ELSE "none"]
        /\ UNCHANGED <<lock, attempt, raced>>
        /\ Go(p, "kill")
    BY <1>2 DEF ReadPid
  <2>2. Moved(p, "kill")
    BY <2>1, GoMoved DEF IndInv, Place, Starting
  <2>3. TypeOK'
    BY <1>2, <2>1, <2>2
    DEF IndInv, TypeOK, File, Absent, AttemptTrue, Starting, Moved
  <2>4. Met'
    BY <1>2, <2>1, <2>2
    DEF Met, Moved
  <2>5. NamedTrue'
    BY <1>2, <2>1, <2>2, LockAssumption
    DEF IndInv, TypeOK, NamedTrue, Moved, Absent, File
  <2>6. AttemptTrue'
    BY <1>2, <2>1, <2>2, Alone
    DEF IndInv, TypeOK, AttemptTrue, Moved, Met, Starting, Absent, File
  <2>7. RefusedByHolder'
    BY <1>2, <2>1, <2>2
    DEF IndInv, TypeOK, NamedTrue, AttemptTrue, RefusedByHolder, Moved, Met, Starting, Stale
  <2>8. ~raced' => FileTrue'
    BY <1>2, <2>1, <2>2, Alone
    DEF IndInv, TypeOK, NamedTrue, FileTrue, Moved, Met, Starting, Absent, File, Stale
  <2> QED BY <2>3, <2>4, <2>5, <2>6, <2>7, <2>8 DEF IndInv
<1> QED BY <1>1, <1>2

\* A holder is alive, so a file that names it is not stale.
LEMMA CheckPidInd == ASSUME IndInv, NEW p \in Proc, CheckPid(p) PROVE IndInv'
<1>1. CASE Stale(pid[p])
  <2>1. /\ pc[p] = "kill"
        /\ UNCHANGED <<lock, attempt, pid, raced>>
        /\ Go(p, "rm")
    BY <1>1 DEF CheckPid
  <2>2. Moved(p, "rm")
    BY <2>1, GoMoved DEF IndInv, Place, Starting
  <2>3. TypeOK'
    BY <1>1, <2>1, <2>2
    DEF IndInv, TypeOK, File, Absent, AttemptTrue, Starting, Moved
  <2>4. Met'
    BY <1>1, <2>1, <2>2
    DEF Met, Moved
  <2>5. NamedTrue'
    BY <1>1, <2>1, <2>2, LockAssumption
    DEF IndInv, TypeOK, NamedTrue, Moved, Absent, File
  <2>6. AttemptTrue'
    BY <1>1, <2>1, <2>2, Alone
    DEF IndInv, TypeOK, AttemptTrue, Moved, Met, Starting, Absent, File
  <2>7. RefusedByHolder'
    BY <1>1, <2>1, <2>2
    DEF IndInv, TypeOK, NamedTrue, AttemptTrue, RefusedByHolder, Moved, Met, Starting, Stale
  <2>8. ~raced' => FileTrue'
    <3> SUFFICES ASSUME ~raced' PROVE FileTrue'
      OBVIOUS
    <3>1. FileTrue
      BY <1>1, <2>1, <2>2 DEF IndInv
    <3>2. \A q \in Proc : (pc'[q] = "write" => lock' = [by |-> q, named |-> FALSE])
                         /\ (pc'[q] = "held" => lock' = [by |-> q, named |-> TRUE])
      BY <1>1, <2>1, <2>2, <3>1, LockAssumption DEF IndInv, TypeOK, FileTrue, Moved, Absent
    <3>3. \A q \in Proc : pc'[q] = "kill" /\ ~beside'[q] => \A h \in Proc : pc'[h] = "held" => pid'[q] = h
      BY <1>1, <2>1, <2>2, <3>1, Alone DEF IndInv, TypeOK, FileTrue, Moved, Starting, Place
    <3>4. \A q \in Proc : pc'[q] = "rm" /\ ~beside'[q] => \A h \in Proc : pc'[h] # "held"
      BY <1>1, <2>1, <2>2, <3>1, Alone, LockAssumption DEF IndInv, TypeOK, FileTrue, Moved, Starting, Place, Stale, Met
    <3> QED BY <3>2, <3>3, <3>4 DEF FileTrue
  <2> QED BY <2>3, <2>4, <2>5, <2>6, <2>7, <2>8 DEF IndInv
<1>2. CASE ~Stale(pid[p])
  <2>1. /\ pc[p] = "kill"
        /\ UNCHANGED <<lock, attempt, pid, raced>>
        /\ Go(p, "busy")
    BY <1>2 DEF CheckPid
  <2>2. Moved(p, "busy")
    BY <2>1, GoMoved DEF IndInv, Place, Starting
  <2>3. TypeOK'
    BY <1>2, <2>1, <2>2
    DEF IndInv, TypeOK, File, Absent, AttemptTrue, Starting, Moved
  <2>4. Met'
    BY <1>2, <2>1, <2>2
    DEF Met, Moved
  <2>5. NamedTrue'
    BY <1>2, <2>1, <2>2, LockAssumption
    DEF IndInv, TypeOK, NamedTrue, Moved, Absent, File
  <2>6. AttemptTrue'
    BY <1>2, <2>1, <2>2, Alone
    DEF IndInv, TypeOK, AttemptTrue, Moved, Met, Starting, Absent, File
  <2>7. RefusedByHolder'
    BY <1>2, <2>1, <2>2
    DEF IndInv, TypeOK, NamedTrue, AttemptTrue, RefusedByHolder, Moved, Met, Starting, Stale
  <2>8. ~raced' => FileTrue'
    BY <1>2, <2>1, <2>2, Alone
    DEF IndInv, TypeOK, NamedTrue, FileTrue, Moved, Met, Starting, Absent, File, Stale
  <2> QED BY <2>3, <2>4, <2>5, <2>6, <2>7, <2>8 DEF IndInv
<1> QED BY <1>1, <1>2

\* A start that is alone removes nobody's file, and its next attempt finds none.
LEMMA RemoveInd == ASSUME IndInv, NEW p \in Proc, Remove(p) PROVE IndInv'
<1>3. pc[p] = "rm" /\ attempt[p] \in 0..1
  BY DEF Remove, IndInv, AttemptTrue, Starting
<1>1. CASE attempt[p] = 0
  <2>1. /\ pc[p] = "rm"
        /\ lock' = Absent
        /\ UNCHANGED pid
        /\ raced' = (raced \/ beside[p])
        /\ attempt' = [attempt EXCEPT ![p] = 1]
        /\ Go(p, "open")
    BY <1>1, <1>3 DEF Remove, Attempts
  <2>2. Moved(p, "open")
    BY <2>1, GoMoved DEF IndInv, Place, Starting
  <2>3. TypeOK'
    <3>1. raced' \in BOOLEAN /\ (raced' => raced \/ beside[p])
      BY <2>1 DEF IndInv, TypeOK
    <3>2. attempt' \in [Proc -> 0..2]
      BY <2>1 DEF IndInv, TypeOK
    <3>3. lock' \in File
      BY <2>1 DEF File, Absent
    <3> QED BY <2>1, <2>2, <3>1, <3>2, <3>3 DEF IndInv, TypeOK, Moved
  <2>4. Met'
    BY <1>1, <2>1, <2>2
    DEF Met, Moved
  <2>5. NamedTrue'
    BY <1>1, <2>1, <2>2, LockAssumption
    DEF IndInv, TypeOK, NamedTrue, Moved, Absent, File
  <2>6. AttemptTrue'
    BY <1>1, <2>1, <2>2, Alone
    DEF IndInv, TypeOK, AttemptTrue, Moved, Met, Starting, Absent, File
  <2>7. RefusedByHolder'
    BY <1>1, <2>1, <2>2
    DEF IndInv, TypeOK, NamedTrue, AttemptTrue, RefusedByHolder, Moved, Met, Starting, Stale
  <2>8. ~raced' => FileTrue'
    BY <1>1, <2>1, <2>2, Alone
    DEF IndInv, TypeOK, NamedTrue, FileTrue, Moved, Met, Starting, Absent, File, Stale
  <2> QED BY <2>3, <2>4, <2>5, <2>6, <2>7, <2>8 DEF IndInv
<1>2. CASE attempt[p] = 1
  <2>1. /\ pc[p] = "rm"
        /\ lock' = Absent
        /\ UNCHANGED pid
        /\ raced' = (raced \/ beside[p])
        /\ attempt' = [attempt EXCEPT ![p] = 2]
        /\ Go(p, "busy")
    BY <1>2, <1>3 DEF Remove, Attempts
  <2>2. Moved(p, "busy")
    BY <2>1, GoMoved DEF IndInv, Place, Starting
  <2>3. TypeOK'
    <3>1. raced' \in BOOLEAN /\ (raced' => raced \/ beside[p])
      BY <2>1 DEF IndInv, TypeOK
    <3>2. attempt' \in [Proc -> 0..2]
      BY <2>1 DEF IndInv, TypeOK
    <3>3. lock' \in File
      BY <2>1 DEF File, Absent
    <3> QED BY <2>1, <2>2, <3>1, <3>2, <3>3 DEF IndInv, TypeOK, Moved
  <2>4. Met'
    BY <1>2, <2>1, <2>2
    DEF Met, Moved
  <2>5. NamedTrue'
    BY <1>2, <2>1, <2>2, LockAssumption
    DEF IndInv, TypeOK, NamedTrue, Moved, Absent, File
  <2>6. AttemptTrue'
    BY <1>2, <2>1, <2>2, Alone
    DEF IndInv, TypeOK, AttemptTrue, Moved, Met, Starting, Absent, File
  <2>7. RefusedByHolder'
    BY <1>2, <2>1, <2>2
    DEF IndInv, TypeOK, NamedTrue, AttemptTrue, RefusedByHolder, Moved, Met, Starting, Stale
  <2>8. ~raced' => FileTrue'
    BY <1>2, <2>1, <2>2, Alone
    DEF IndInv, TypeOK, NamedTrue, FileTrue, Moved, Met, Starting, Absent, File, Stale
  <2> QED BY <2>3, <2>4, <2>5, <2>6, <2>7, <2>8 DEF IndInv
<1> QED BY <1>1, <1>2, <1>3

\* A holder takes the file with it.
LEMMA ReleaseInd == ASSUME IndInv, NEW p \in Proc, Release(p) PROVE IndInv'
<1>1. /\ pc[p] = "held"
      /\ lock' = Absent
      /\ UNCHANGED <<attempt, pid, raced>>
      /\ Go(p, "gone")
  BY DEF Release
<1>2. Moved(p, "gone")
  BY <1>1, GoMoved DEF IndInv, Place, Starting
<1>3. TypeOK'
  BY <1>1, <1>2
  DEF IndInv, TypeOK, File, Absent, AttemptTrue, Starting, Moved
<1>4. Met'
  BY <1>1, <1>2
  DEF Met, Moved
<1>5. NamedTrue'
  BY <1>1, <1>2, LockAssumption
  DEF IndInv, TypeOK, NamedTrue, Moved, Absent, File
<1>6. AttemptTrue'
  BY <1>1, <1>2, Alone
  DEF IndInv, TypeOK, AttemptTrue, Moved, Met, Starting, Absent, File
<1>7. RefusedByHolder'
  BY <1>1, <1>2
  DEF IndInv, TypeOK, NamedTrue, AttemptTrue, RefusedByHolder, Moved, Met, Starting, Stale
<1>8. ~raced' => FileTrue'
  BY <1>1, <1>2, Alone
  DEF IndInv, TypeOK, NamedTrue, FileTrue, Moved, Met, Starting, Absent, File, Stale
<1> QED BY <1>3, <1>4, <1>5, <1>6, <1>7, <1>8 DEF IndInv

\* A process that dies leaves its file behind.
LEMMA DieInd == ASSUME IndInv, NEW p \in Proc, Die(p) PROVE IndInv'
<1>1. /\ pc[p] \in Starting \cup {"held"}
      /\ UNCHANGED <<lock, attempt, pid, raced>>
      /\ Go(p, "gone")
  BY DEF Die
<1>2. Moved(p, "gone")
  BY <1>1, GoMoved DEF IndInv, Place, Starting
<1>3. TypeOK'
  BY <1>1, <1>2
  DEF IndInv, TypeOK, File, Absent, AttemptTrue, Starting, Moved
<1>4. Met'
  BY <1>1, <1>2
  DEF Met, Moved
<1>5. NamedTrue'
  BY <1>1, <1>2, LockAssumption
  DEF IndInv, TypeOK, NamedTrue, Moved, Absent, File
<1>6. AttemptTrue'
  BY <1>1, <1>2, Alone
  DEF IndInv, TypeOK, AttemptTrue, Moved, Met, Starting, Absent, File
<1>7. RefusedByHolder'
  BY <1>1, <1>2
  DEF IndInv, TypeOK, NamedTrue, AttemptTrue, RefusedByHolder, Moved, Met, Starting, Stale
<1>8. ~raced' => FileTrue'
  BY <1>1, <1>2, Alone
  DEF IndInv, TypeOK, NamedTrue, FileTrue, Moved, Met, Starting, Absent, File, Stale
<1> QED BY <1>3, <1>4, <1>5, <1>6, <1>7, <1>8 DEF IndInv

\* Every system call, and every death, keeps the invariant.
LEMMA StepInd == IndInv /\ [Next]_vars => IndInv'
<1> SUFFICES ASSUME IndInv, [Next]_vars PROVE IndInv'
  OBVIOUS
<1>1. CASE UNCHANGED vars
  BY <1>1 DEF vars, IndInv, TypeOK, Met, NamedTrue, AttemptTrue, FileTrue, RefusedByHolder
<1>2. CASE Next
  BY <1>2, StartInd, OpenInd, WritePidInd, ReadPidInd, CheckPidInd, RemoveInd, ReleaseInd, DieInd
  DEF Next
<1> QED BY <1>1, <1>2

\* For any number of processes that start, stop and die at any time, together or
\* not: two daemons hold the lock together only after a start that overlapped
\* another has removed the file.
THEOREM OneDaemon == Spec => []Exclusive
<1>1. IndInv => Exclusive
  BY DEF IndInv, FileTrue, Exclusive
<1> QED BY <1>1, InitInd, StepInd, PTL DEF Spec

\* The types, the loop variable of acquireLock included: it never passes 2.
THEOREM LockTypes == Spec => []TypeOK
<1>1. IndInv => TypeOK
  BY DEF IndInv
<1> QED BY <1>1, InitInd, StepInd, PTL DEF Spec

\* And what a dead daemon left behind, a pid or an empty file, refuses nobody who
\* starts alone.
THEOREM RefusalIsByHolder == Spec => []RefusedByHolder
<1>1. IndInv => RefusedByHolder
  BY DEF IndInv
<1> QED BY <1>1, InitInd, StepInd, PTL DEF Spec
=============================================================================
