-------------------------- MODULE AuditChainProofs --------------------------
(***************************************************************************)
(* An export is whole, the verifiers accept what was exported and nothing  *)
(* else, and the log of a session that has ended is checked as it should   *)
(* be: for logs of any length, pages of any size, and any number of        *)
(* starts, losses, rollbacks and edits.  All three rest on what is true of *)
(* the rows of a log whatever is lost of them (Chain).                     *)
(***************************************************************************)
EXTENDS AuditChain, FiniteSetTheorems, SequenceTheorems, TLAPS

IsSeq(rows) == rows \in Seq(ToSet(rows))

\* A receipt as append writes it: hash and signature cover the core, and the hash
\* of the receipt before has the seq before.
Core(c) == c = [seq |-> c.seq, previous |-> c.previous, event |-> c.event]
Receipt(r) ==
    /\ r = [core |-> r.core, hash |-> Hash(r.core), signature |-> Hash(r.core)]
    /\ Core(r.core)
    /\ r.core.seq \in Nat \ {0}
    /\ r.core.seq = 1 => r.core.previous = Genesis
    /\ r.core.seq # 1 => r.core.previous # Genesis /\ r.core.previous[1] = r.core.seq - 1

\* Rows of a log, some of which may be missing: in the order of their seqs, and each
\* linked to the one before it if that has the seq before.
Chain(rows) ==
    /\ IsSeq(rows)
    /\ \A i \in 1..Len(rows) : Receipt(rows[i])
    /\ \A i, j \in 1..Len(rows) : i < j => rows[i].core.seq < rows[j].core.seq
    /\ \A i, j \in 1..Len(rows) : j = i + 1 /\ rows[j].core.seq = rows[i].core.seq + 1
                                     => rows[j].core.previous = rows[i].hash

Chains == Chain(log) /\ Chain(vouched) /\ Chain(copy.log) /\ Chain(whole)

\* The pin is the seq of what was vouched for.
Pinned == pin = Tip(vouched).seq

\* Unless the log was continued from before the pin, or a copy of another history was
\* put back, a row as old as the pin is one that was vouched for.
Past == ~forked => \A i \in 1..Len(log) :
                      log[i].core.seq <= pin => \E j \in 1..Len(vouched) : vouched[j] = log[i]

\* An export that is under way has the rows up to `after`.
Exported == /\ export = [on |-> export.on, after |-> export.after]
            /\ export.on => /\ up /\ whole = <<>>
                            /\ IsPrefix(file, log)
                            /\ export.after = Tip(file).seq

\* Whatever was done to a finished file, each line has the signature of a row.
Signed(lines, rows) ==
    \A i \in 1..Len(lines) :
        /\ lines[i] = [core |-> lines[i].core, hash |-> lines[i].hash,
                       signature |-> lines[i].signature]
        /\ Core(lines[i].core)
        /\ \E j \in 1..Len(rows) : lines[i].signature = rows[j].signature
Filed == IsSeq(file) /\ (whole # <<>> => Signed(file, whole))

AuditInv == Chains /\ Pinned /\ Past /\ Exported /\ Filed

-----------------------------------------------------------------------------
(* Sequences. *)

\* A sequence of anything is one of its own elements.
LEMMA AnySeq == ASSUME NEW S, NEW rows \in Seq(S) PROVE IsSeq(rows)
<1>1. Len(rows) \in Nat /\ rows \in [1..Len(rows) -> S] /\ DOMAIN rows = 1..Len(rows)
  BY LenProperties
<1>2. \A i \in 1..Len(rows) : rows[i] \in ToSet(rows)
  BY <1>1 DEF ToSet
<1>3. rows \in [1..Len(rows) -> ToSet(rows)]
  BY <1>1, <1>2
<1> QED BY <1>1, <1>3, SeqDef DEF IsSeq

\* Its length and its places.
LEMMA SeqFacts ==
    ASSUME NEW rows, IsSeq(rows)
    PROVE  /\ Len(rows) \in Nat /\ DOMAIN rows = 1..Len(rows)
           /\ \A i \in 1..Len(rows) : rows[i] \in ToSet(rows)
           /\ rows = <<>> <=> Len(rows) = 0
<1>1. Len(rows) \in Nat /\ rows \in [1..Len(rows) -> ToSet(rows)] /\ DOMAIN rows = 1..Len(rows)
  BY LenProperties DEF IsSeq
<1>2. rows = <<>> <=> Len(rows) = 0
  BY EmptySeq DEF IsSeq
<1> QED BY <1>1, <1>2

\* No rows.
LEMMA NoRows == IsSeq(<<>>) /\ Len(<<>>) = 0
  BY EmptySeq, AnySeq

\* One row more.
LEMMA Appended ==
    ASSUME NEW rows, IsSeq(rows), NEW r
    PROVE  /\ IsSeq(Append(rows, r)) /\ Len(Append(rows, r)) = Len(rows) + 1
           /\ \A i \in 1..Len(rows) : Append(rows, r)[i] = rows[i]
           /\ Append(rows, r)[Len(rows) + 1] = r
<1> DEFINE S == ToSet(rows) \cup {r}
<1>1. rows \in Seq(S) /\ r \in S
  BY SeqMonotonic DEF IsSeq
<1> HIDE DEF S
<1>2. /\ Append(rows, r) \in Seq(S) /\ Len(Append(rows, r)) = Len(rows) + 1
      /\ \A i \in 1..Len(rows) : Append(rows, r)[i] = rows[i]
      /\ Append(rows, r)[Len(rows) + 1] = r
  BY <1>1, AppendProperties
<1> QED BY <1>2, AnySeq

\* A part.
LEMMA Cut ==
    ASSUME NEW rows, IsSeq(rows), NEW m \in Nat \ {0}, NEW n \in 0..Len(rows), m <= n + 1
    PROVE  /\ IsSeq(SubSeq(rows, m, n)) /\ Len(SubSeq(rows, m, n)) = n - m + 1
           /\ \A i \in 1..n - m + 1 : SubSeq(rows, m, n)[i] = rows[m + i - 1]
<1>1. Len(rows) \in Nat /\ m \in Int /\ n \in Int
  BY SeqFacts
<1>2. \A i \in m..n : rows[i] \in ToSet(rows)
  BY <1>1, SeqFacts
<1>3. /\ SubSeq(rows, m, n) \in Seq(ToSet(rows))
      /\ Len(SubSeq(rows, m, n)) = (IF m <= n THEN n - m + 1 ELSE 0)
      /\ \A i \in 1..n - m + 1 : SubSeq(rows, m, n)[i] = rows[m + i - 1]
  BY <1>1, <1>2, SubSeqProperties
<1>4. Len(SubSeq(rows, m, n)) = n - m + 1
  BY <1>1, <1>3
<1> QED BY <1>3, <1>4, AnySeq

\* Two parts.
LEMMA Joined ==
    ASSUME NEW a, IsSeq(a), NEW b, IsSeq(b)
    PROVE  /\ IsSeq(a \o b) /\ Len(a \o b) = Len(a) + Len(b)
           /\ \A i \in 1..Len(a) + Len(b) :
                (a \o b)[i] = IF i <= Len(a) THEN a[i] ELSE b[i - Len(a)]
<1> DEFINE S == ToSet(a) \cup ToSet(b)
<1>1. a \in Seq(S) /\ b \in Seq(S)
  <2>1. ToSet(a) \subseteq S /\ ToSet(b) \subseteq S
    OBVIOUS
  <2> HIDE DEF S
  <2> QED BY <2>1, SeqMonotonic DEF IsSeq
<1> HIDE DEF S
<1> QED BY <1>1, ConcatProperties, AnySeq

\* One row less.
LEMMA Removed ==
    ASSUME NEW rows, IsSeq(rows), NEW i \in 1..Len(rows)
    PROVE  /\ IsSeq(RemoveAt(rows, i)) /\ Len(RemoveAt(rows, i)) = Len(rows) - 1
           /\ \A k \in 1..Len(rows) - 1 :
                RemoveAt(rows, i)[k] = rows[IF k < i THEN k ELSE k + 1]
<1> DEFINE a == SubSeq(rows, 1, i - 1)
           b == SubSeq(rows, i + 1, Len(rows))
<1>1. Len(rows) \in Nat
  BY SeqFacts
<1>2. IsSeq(a) /\ Len(a) = i - 1 /\ \A k \in 1..i - 1 : a[k] = rows[k]
  <2>1. i - 1 \in 0..Len(rows) /\ 1 <= (i - 1) + 1
    BY <1>1
  <2>2. /\ IsSeq(a) /\ Len(a) = (i - 1) - 1 + 1
        /\ \A k \in 1..(i - 1) - 1 + 1 : a[k] = rows[1 + k - 1]
    BY <2>1, Cut
  <2> HIDE DEF a
  <2> QED BY <1>1, <2>2
<1>3. IsSeq(b) /\ Len(b) = Len(rows) - i /\ \A k \in 1..Len(rows) - i : b[k] = rows[i + k]
  <2>1. i + 1 \in Nat \ {0} /\ Len(rows) \in 0..Len(rows) /\ i + 1 <= Len(rows) + 1
    BY <1>1
  <2>2. /\ IsSeq(b) /\ Len(b) = Len(rows) - (i + 1) + 1
        /\ \A k \in 1..Len(rows) - (i + 1) + 1 : b[k] = rows[(i + 1) + k - 1]
    BY <2>1, Cut
  <2> HIDE DEF b
  <2>3. \A k \in 1..Len(rows) - i : (i + 1) + k - 1 = i + k /\ k \in 1..Len(rows) - (i + 1) + 1
    BY <1>1
  <2>4. \A k \in 1..Len(rows) - i : b[k] = rows[i + k]
    BY <2>2, <2>3
  <2> QED BY <1>1, <2>2, <2>4
<1>4. RemoveAt(rows, i) = a \o b
  BY DEF RemoveAt
<1> HIDE DEF a, b
<1>5. /\ IsSeq(a \o b) /\ Len(a \o b) = Len(a) + Len(b)
      /\ \A k \in 1..Len(a) + Len(b) : (a \o b)[k] = IF k <= Len(a) THEN a[k] ELSE b[k - Len(a)]
  BY <1>2, <1>3, Joined
<1>6. ASSUME NEW k \in 1..Len(rows) - 1
      PROVE  (a \o b)[k] = rows[IF k < i THEN k ELSE k + 1]
  <2>1. k \in 1..Len(a) + Len(b) /\ (k <= Len(a) <=> k < i)
    BY <1>1, <1>2, <1>3
  <2>2. CASE k < i
    <3>1. (a \o b)[k] = a[k] /\ k \in 1..i - 1
      BY <1>1, <1>5, <2>1, <2>2
    <3> QED BY <1>2, <2>2, <3>1
  <2>3. CASE ~(k < i)
    <3>1. (a \o b)[k] = b[k - Len(a)]
      BY <1>5, <2>1, <2>3
    <3>2. k - Len(a) \in 1..Len(rows) - i /\ i + (k - Len(a)) = k + 1
      BY <1>1, <1>2, <2>3
    <3>3. b[k - Len(a)] = rows[k + 1]
      BY <1>3, <3>2
    <3> QED BY <2>3, <3>1, <3>3
  <2> QED BY <2>2, <2>3
<1>7. Len(a \o b) = Len(rows) - 1
  BY <1>1, <1>2, <1>3, <1>5
<1> QED BY <1>4, <1>5, <1>6, <1>7

\* One row.
LEMMA Single == ASSUME NEW r PROVE IsSeq(<<r>>) /\ Len(<<r>>) = 1 /\ <<r>>[1] = r
<1>1. <<r>> \in Seq({r})
  OBVIOUS
<1> QED BY <1>1, AnySeq

\* Rows that come from others.
Drawn(lines, rows) == \A k \in 1..Len(lines) : \E j \in 1..Len(rows) : lines[k] = rows[j]

\* A part of the rows.
LEMMA DrawnCut ==
    ASSUME NEW rows, IsSeq(rows), NEW m \in Nat \ {0}, NEW n \in 0..Len(rows), m <= n + 1
    PROVE  IsSeq(SubSeq(rows, m, n)) /\ Drawn(SubSeq(rows, m, n), rows)
<1> DEFINE a == SubSeq(rows, m, n)
<1>1. /\ IsSeq(a) /\ Len(a) = n - m + 1
      /\ \A i \in 1..n - m + 1 : a[i] = rows[m + i - 1]
  BY Cut
<1>2. Len(rows) \in Nat
  BY SeqFacts
<1> HIDE DEF a
<1>3. \A k \in 1..Len(a) : m + k - 1 \in 1..Len(rows) /\ a[k] = rows[m + k - 1]
  BY <1>1, <1>2
<1>4. Drawn(a, rows)
  BY <1>3 DEF Drawn
<1> QED BY <1>1, <1>4 DEF a

\* Two parts of the rows, joined.
LEMMA DrawnJoined ==
    ASSUME NEW rows, NEW x, IsSeq(x), Drawn(x, rows), NEW y, IsSeq(y), Drawn(y, rows)
    PROVE  IsSeq(x \o y) /\ Drawn(x \o y, rows)
<1> DEFINE z == x \o y
<1>1. Len(x) \in Nat /\ Len(y) \in Nat
  BY SeqFacts
<1>2. /\ IsSeq(z) /\ Len(z) = Len(x) + Len(y)
      /\ \A k \in 1..Len(x) + Len(y) : z[k] = IF k <= Len(x) THEN x[k] ELSE y[k - Len(x)]
  BY Joined
<1> HIDE DEF z
<1>3. ASSUME NEW k \in 1..Len(z) PROVE \E j \in 1..Len(rows) : z[k] = rows[j]
  <2>1. k \in 1..Len(x) + Len(y)
    BY <1>2
  <2>2. CASE k <= Len(x)
    <3>1. k \in 1..Len(x) /\ z[k] = x[k]
      BY <1>1, <1>2, <2>1, <2>2
    <3> QED BY <3>1 DEF Drawn
  <2>3. CASE ~(k <= Len(x))
    <3>1. k - Len(x) \in 1..Len(y) /\ z[k] = y[k - Len(x)]
      BY <1>1, <1>2, <2>1, <2>3
    <3> QED BY <3>1 DEF Drawn
  <2> QED BY <2>2, <2>3
<1>4. Drawn(z, rows)
  BY <1>3 DEF Drawn
<1> QED BY <1>2, <1>4 DEF z

\* A row repeated.
LEMMA Repeated ==
    ASSUME NEW rows, IsSeq(rows), NEW i \in 1..Len(rows)
    PROVE  /\ IsSeq(InsertAt(rows, i, rows[i]))
           /\ Drawn(InsertAt(rows, i, rows[i]), rows)
<1> DEFINE a == SubSeq(rows, 1, i - 1)
           b == SubSeq(rows, i, Len(rows))
           e == <<rows[i]>>
           c == a \o e
<1>1. Len(rows) \in Nat
  BY SeqFacts
<1>2. IsSeq(a) /\ Drawn(a, rows)
  <2>1. i - 1 \in 0..Len(rows) /\ 1 <= (i - 1) + 1
    BY <1>1
  <2> QED BY <2>1, DrawnCut
<1>3. IsSeq(b) /\ Drawn(b, rows)
  <2>1. i \in Nat \ {0} /\ Len(rows) \in 0..Len(rows) /\ i <= Len(rows) + 1
    BY <1>1
  <2> QED BY <2>1, DrawnCut
<1>4. IsSeq(e) /\ Drawn(e, rows)
  <2>1. IsSeq(e) /\ Len(e) = 1 /\ e[1] = rows[i]
    BY Single
  <2> HIDE DEF e
  <2> QED BY <2>1 DEF Drawn
<1>5. InsertAt(rows, i, rows[i]) = c \o b
  BY DEF InsertAt
<1> HIDE DEF a, b, e
<1>6. IsSeq(c) /\ Drawn(c, rows)
  BY <1>2, <1>4, DrawnJoined DEF c
<1> HIDE DEF c
<1>7. IsSeq(c \o b) /\ Drawn(c \o b, rows)
  BY <1>3, <1>6, DrawnJoined
<1> QED BY <1>5, <1>7

\* What it is to be a prefix.
LEMMA PrefixFacts ==
    ASSUME NEW a, IsSeq(a), NEW b, IsSeq(b)
    PROVE  IsPrefix(a, b) <=> Len(a) <= Len(b) /\ \A i \in 1..Len(a) : a[i] = b[i]
<1>1. Len(a) \in Nat /\ Len(b) \in Nat
  BY SeqFacts
<1>2. ASSUME Len(a) <= Len(b)
      PROVE  SubSeq(a, 1, Len(a)) = SubSeq(b, 1, Len(a)) <=> \A i \in 1..Len(a) : a[i] = b[i]
  <2> DEFINE c == SubSeq(b, 1, Len(a))
  <2>1. SubSeq(a, 1, Len(a)) = a
    BY SubSeqFull DEF IsSeq
  <2>2. IsSeq(c) /\ Len(c) = Len(a) /\ \A i \in 1..Len(a) : c[i] = b[i]
    <3>1. Len(a) \in 0..Len(b) /\ 1 <= Len(a) + 1 /\ 1 \in Nat \ {0}
      BY <1>1, <1>2
    <3>2. /\ IsSeq(c) /\ Len(c) = Len(a) - 1 + 1
          /\ \A i \in 1..Len(a) - 1 + 1 : c[i] = b[1 + i - 1]
      BY <3>1, Cut
    <3> HIDE DEF c
    <3> QED BY <1>1, <3>2
  <2> HIDE DEF c
  <2>3. ASSUME \A i \in 1..Len(a) : a[i] = b[i] PROVE a = c
    <3> DEFINE S == ToSet(a) \cup ToSet(c)
    <3>1. ToSet(a) \subseteq S /\ ToSet(c) \subseteq S
      OBVIOUS
    <3> HIDE DEF S
    <3>2. a \in Seq(S) /\ c \in Seq(S)
      BY <2>2, <3>1, SeqMonotonic DEF IsSeq
    <3> QED BY <2>2, <2>3, <3>2, SeqEqual
  <2> QED BY <2>1, <2>2, <2>3 DEF c
<1> QED BY <1>2 DEF IsPrefix

\* Sequences with the same places are the same.
LEMMA SameRows ==
    ASSUME NEW a, IsSeq(a), NEW b, IsSeq(b), Len(a) = Len(b), \A i \in 1..Len(a) : a[i] = b[i]
    PROVE  a = b
<1> DEFINE S == ToSet(a) \cup ToSet(b)
<1>1. ToSet(a) \subseteq S /\ ToSet(b) \subseteq S
  OBVIOUS
<1> HIDE DEF S
<1>2. a \in Seq(S) /\ b \in Seq(S)
  BY <1>1, SeqMonotonic DEF IsSeq
<1> QED BY <1>2, SeqEqual
-----------------------------------------------------------------------------
(* Receipts and chains of them. *)

\* A set of natural numbers that is not empty has a least one.
LEMMA LeastNumber ==
    ASSUME NEW S \in SUBSET Nat, S # {}
    PROVE  \E i \in S : \A j \in S : i <= j
<1> DEFINE R == OpToRel(<, Nat)
<1>1. \A i, j \in Nat : <<i, j>> \in R <=> i < j
  BY DEF OpToRel
<1>2. IsWellFoundedOn(R, Nat)
  BY NatLessThanWellFounded
<1> HIDE DEF R
<1>3. S \subseteq Nat
  OBVIOUS
<1>4. \E i \in S : \A j \in S : ~(<<j, i>> \in R)
  BY <1>2, <1>3, WFMin, Zenon
<1>5. PICK i \in S : \A j \in S : ~(<<j, i>> \in R)
  BY <1>4
<1>6. ASSUME NEW j \in S PROVE i <= j
  <2>1. i \in Nat /\ j \in Nat
    BY <1>3
  <2>2. <<j, i>> \in R <=> j < i
    BY <1>1, <2>1, Zenon
  <2>3. ~(<<j, i>> \in R)
    BY <1>5, Zenon
  <2>4. ~(j < i)
    BY <2>2, <2>3
  <2> QED BY <2>1, <2>4
<1> QED BY <1>6

\* What a hash tells: it is not the genesis hash, and it fixes what it covers.
LEMMA HashFacts ==
    /\ \A c : Hash(c) # Genesis /\ Hash(c)[1] = c.seq
    /\ \A c, d : Core(c) /\ Core(d) /\ Hash(c) = Hash(d) => c = d
<1>1. ASSUME NEW c PROVE Hash(c) # Genesis /\ Hash(c)[1] = c.seq
  BY DEF Hash, Genesis
<1>2. ASSUME NEW c, NEW d, Core(c), Core(d), Hash(c) = Hash(d) PROVE c = d
  <2>1. c.seq = d.seq /\ c.previous = d.previous /\ c.event = d.event
    BY <1>2 DEF Hash
  <2> QED BY <1>2, <2>1 DEF Core
<1> QED BY <1>1, <1>2

\* A receipt is fixed by its signature.
LEMMA ReceiptFacts ==
    /\ \A r : Receipt(r) => /\ r.hash = Hash(r.core) /\ r.signature = Hash(r.core)
                            /\ r.hash # Genesis /\ r.hash[1] = r.core.seq
                            /\ r.core.seq \in Nat /\ r.core.seq >= 1
    /\ \A r, s : Receipt(r) /\ Receipt(s) /\ r.signature = s.signature => r = s
<1>1. ASSUME NEW r, Receipt(r)
      PROVE  /\ r.hash = Hash(r.core) /\ r.signature = Hash(r.core)
             /\ r.hash # Genesis /\ r.hash[1] = r.core.seq
             /\ r.core.seq \in Nat /\ r.core.seq >= 1
  <2>1. r.hash = Hash(r.core) /\ r.signature = Hash(r.core) /\ r.core.seq \in Nat \ {0}
    BY <1>1 DEF Receipt
  <2>2. r.hash # Genesis /\ r.hash[1] = r.core.seq
    BY <2>1, HashFacts
  <2> QED BY <2>1, <2>2
<1>2. ASSUME NEW r, NEW s, Receipt(r), Receipt(s), r.signature = s.signature PROVE r = s
  <2>1. Hash(r.core) = Hash(s.core) /\ Core(r.core) /\ Core(s.core)
    BY <1>1, <1>2 DEF Receipt
  <2>2. r.core = s.core
    BY <2>1, HashFacts
  <2> QED BY <1>2, <2>2 DEF Receipt
<1> QED BY <1>1, <1>2

\* The seqs of a chain are positive, and no less than the places.
LEMMA SeqAtLeast ==
    ASSUME NEW rows, Chain(rows)
    PROVE  \A i \in 1..Len(rows) : rows[i].core.seq \in Nat /\ i <= rows[i].core.seq
<1>1. Len(rows) \in Nat
  BY SeqFacts DEF Chain
<1>2. \A i \in 1..Len(rows) : rows[i].core.seq \in Nat /\ rows[i].core.seq >= 1
  BY ReceiptFacts DEF Chain
<1> DEFINE Bad == {i \in 1..Len(rows) : ~(i <= rows[i].core.seq)}
<1>3. Bad = {}
  <2>1. SUFFICES ASSUME Bad # {} PROVE FALSE
    OBVIOUS
  <2>2. Bad \in SUBSET Nat
    BY <1>1
  <2> HIDE DEF Bad
  <2>3. PICK i \in Bad : \A j \in Bad : i <= j
    BY <2>1, <2>2, LeastNumber
  <2>4. i \in 1..Len(rows) /\ ~(i <= rows[i].core.seq)
    BY <2>3 DEF Bad
  <2>5. i # 1 /\ i - 1 \in 1..Len(rows) /\ i - 1 < i
    BY <1>1, <1>2, <2>4
  <2>6. i - 1 <= rows[i - 1].core.seq
    BY <2>3, <2>5 DEF Bad
  <2>7. rows[i - 1].core.seq < rows[i].core.seq
    BY <2>4, <2>5 DEF Chain
  <2> QED BY <1>1, <1>2, <2>4, <2>5, <2>6, <2>7
<1> QED BY <1>2, <1>3

\* Where no seq up to n is missing, each is at its place.
LEMMA Places ==
    ASSUME NEW rows, Chain(rows), NEW n \in Nat,
           \A k \in 1..n : \E j \in 1..Len(rows) : rows[j].core.seq = k
    PROVE  \A k \in 1..n : k <= Len(rows) /\ rows[k].core.seq = k
<1>1. Len(rows) \in Nat
  BY SeqFacts DEF Chain
<1> DEFINE Bad == {k \in 1..n : ~(k <= Len(rows) /\ rows[k].core.seq = k)}
<1>2. Bad = {}
  <2>1. SUFFICES ASSUME Bad # {} PROVE FALSE
    OBVIOUS
  <2>2. Bad \in SUBSET Nat
    OBVIOUS
  <2> HIDE DEF Bad
  <2>3. PICK k \in Bad : \A j \in Bad : k <= j
    BY <2>1, <2>2, LeastNumber
  <2>4. k \in 1..n /\ ~(k <= Len(rows) /\ rows[k].core.seq = k)
    BY <2>3 DEF Bad
  <2>5. PICK j \in 1..Len(rows) : rows[j].core.seq = k
    BY <2>4
  <2>6. j <= k
    BY <2>5, SeqAtLeast
  <2>7. j # k
    BY <1>1, <2>4, <2>5
  <2>8. j \in 1..n /\ ~(k <= j)
    BY <1>1, <2>4, <2>6, <2>7
  <2>9. rows[j].core.seq = j
    BY <2>3, <2>8 DEF Bad
  <2> QED BY <2>5, <2>7, <2>9
<1> QED BY <1>2

\* The tip of a chain.
LEMMA TipFacts ==
    ASSUME NEW rows, Chain(rows)
    PROVE  /\ Tip(rows).seq \in Nat
           /\ \A i \in 1..Len(rows) : rows[i].core.seq <= Tip(rows).seq
           /\ Len(rows) = 0 => Tip(rows) = [seq |-> 0, hash |-> Genesis]
           /\ Len(rows) # 0 => /\ Len(rows) \in 1..Len(rows)
                               /\ Tip(rows).seq = rows[Len(rows)].core.seq
                               /\ Tip(rows).hash = rows[Len(rows)].hash
<1>1. Len(rows) \in Nat /\ (rows = <<>> <=> Len(rows) = 0)
  BY SeqFacts DEF Chain
<1>2. CASE Len(rows) = 0
  <2>1. Tip(rows) = [seq |-> 0, hash |-> Genesis]
    BY <1>1, <1>2 DEF Tip
  <2> QED BY <1>2, <2>1
<1>3. CASE Len(rows) # 0
  <2>1. Len(rows) \in 1..Len(rows)
    BY <1>1, <1>3
  <2>2. Tip(rows) = [seq |-> rows[Len(rows)].core.seq, hash |-> rows[Len(rows)].hash]
    BY <1>1, <1>3, Zenon DEF Tip, Last
  <2>3. Tip(rows).seq = rows[Len(rows)].core.seq /\ Tip(rows).hash = rows[Len(rows)].hash
    BY <2>2
  <2>4. rows[Len(rows)].core.seq \in Nat
    BY <2>1, SeqAtLeast
  <2>5. ASSUME NEW i \in 1..Len(rows) PROVE rows[i].core.seq <= rows[Len(rows)].core.seq
    <3>1. CASE i = Len(rows)
      BY <2>4, <3>1
    <3>2. CASE i < Len(rows)
      <4>1. rows[i].core.seq < rows[Len(rows)].core.seq
        BY <2>1, <3>2 DEF Chain
      <4> QED BY <2>4, <4>1, SeqAtLeast
    <3> QED BY <1>1, <3>1, <3>2
  <2> QED BY <1>3, <2>1, <2>3, <2>4, <2>5
<1> QED BY <1>2, <1>3
\* No rows are a chain.
LEMMA ChainEmpty == Chain(<<>>)
<1>1. IsSeq(<<>>) /\ Len(<<>>) = 0 /\ 1..0 = {}
  BY NoRows
<1> QED BY <1>1 DEF Chain

\* append makes a chain longer.
LEMMA ChainAppend ==
    ASSUME NEW rows, Chain(rows), NEW event
    PROVE  /\ Chain(WithReceipt(rows, event))
           /\ Len(WithReceipt(rows, event)) = Len(rows) + 1
           /\ \A i \in 1..Len(rows) : WithReceipt(rows, event)[i] = rows[i]
           /\ WithReceipt(rows, event)[Len(rows) + 1].core.seq = Tip(rows).seq + 1
           /\ Tip(WithReceipt(rows, event)).seq = Tip(rows).seq + 1
<1> DEFINE core == [seq |-> Tip(rows).seq + 1, previous |-> Tip(rows).hash, event |-> event]
           r == [core |-> core, hash |-> Hash(core), signature |-> Hash(core)]
           n == Len(rows)
           new == Append(rows, r)
<1>1. IsSeq(rows) /\ n \in Nat
  BY SeqFacts DEF Chain
<1>2. WithReceipt(rows, event) = new
  BY DEF WithReceipt
<1>3. /\ Tip(rows).seq \in Nat /\ (\A i \in 1..n : rows[i].core.seq <= Tip(rows).seq)
      /\ n = 0 => Tip(rows).seq = 0 /\ Tip(rows).hash = Genesis
      /\ n # 0 => n \in 1..n /\ Tip(rows).seq = rows[n].core.seq /\ Tip(rows).hash = rows[n].hash
  BY TipFacts
<1>4. r.core.seq = Tip(rows).seq + 1 /\ r.core.previous = Tip(rows).hash /\ Core(core) /\ r.core = core
  BY DEF Core
<1>5. Receipt(r)
  <2>1. r = [core |-> r.core, hash |-> Hash(r.core), signature |-> Hash(r.core)]
    BY <1>4
  <2> HIDE DEF r, core
  <2>2. CASE n = 0
    <3>1. r.core.seq = 1 /\ r.core.previous = Genesis
      BY <1>3, <1>4, <2>2
    <3> QED BY <1>4, <2>1, <3>1 DEF Receipt
  <2>3. CASE n # 0
    <3>1. rows[n].core.seq >= 1 /\ rows[n].hash # Genesis /\ rows[n].hash[1] = rows[n].core.seq
      BY <1>3, <2>3, ReceiptFacts DEF Chain
    <3>2. r.core.seq \in Nat \ {0} /\ r.core.seq # 1
      BY <1>3, <1>4, <2>3, <3>1
    <3>3. r.core.previous # Genesis /\ r.core.previous[1] = r.core.seq - 1
      BY <1>3, <1>4, <2>3, <3>1
    <3> QED BY <1>4, <2>1, <3>2, <3>3 DEF Receipt
  <2> QED BY <2>2, <2>3
<1> HIDE DEF r, core
<1>6. /\ IsSeq(new) /\ Len(new) = n + 1
      /\ \A i \in 1..n : new[i] = rows[i]
      /\ new[n + 1] = r
  BY <1>1, Appended
<1> HIDE DEF new
<1>7. \A i \in 1..n + 1 : (i \in 1..n /\ new[i] = rows[i]) \/ (i = n + 1 /\ new[i] = r)
  BY <1>1, <1>6
<1>8. \A i \in 1..Len(new) : Receipt(new[i])
  BY <1>5, <1>6, <1>7 DEF Chain
<1>9. ASSUME NEW i \in 1..Len(new), NEW j \in 1..Len(new), i < j
      PROVE  new[i].core.seq < new[j].core.seq
  <2>1. i \in 1..n /\ new[i] = rows[i]
    BY <1>1, <1>6, <1>9
  <2>2. CASE j \in 1..n
    BY <1>6, <1>9, <2>1, <2>2 DEF Chain
  <2>3. CASE j = n + 1
    <3>1. new[j].core.seq = Tip(rows).seq + 1
      BY <1>4, <1>6, <2>3
    <3>2. rows[i].core.seq <= Tip(rows).seq /\ rows[i].core.seq \in Nat
      BY <1>3, <2>1, SeqAtLeast
    <3> QED BY <1>3, <2>1, <3>1, <3>2
  <2> QED BY <1>1, <1>6, <2>2, <2>3
<1>10. ASSUME NEW i \in 1..Len(new), NEW j \in 1..Len(new), j = i + 1,
              new[j].core.seq = new[i].core.seq + 1
       PROVE  new[j].core.previous = new[i].hash
  <2>1. i \in 1..n /\ new[i] = rows[i]
    BY <1>1, <1>6, <1>10
  <2>2. CASE j \in 1..n
    BY <1>6, <1>10, <2>1, <2>2 DEF Chain
  <2>3. CASE j = n + 1
    <3>1. i = n /\ n # 0
      BY <1>1, <1>10, <2>1, <2>3
    <3> QED BY <1>3, <1>4, <1>6, <2>1, <2>3, <3>1
  <2> QED BY <1>1, <1>6, <2>2, <2>3
<1>11. Chain(new)
  BY <1>6, <1>8, <1>9, <1>10 DEF Chain
<1>12. Tip(new).seq = new[n + 1].core.seq
  BY <1>1, <1>6, <1>11, TipFacts
<1> HIDE DEF n
<1>13. new[n + 1].core.seq = Tip(rows).seq + 1
  BY <1>4, <1>6
<1> QED BY <1>2, <1>6, <1>11, <1>12, <1>13 DEF n

\* A row less is still a chain.
LEMMA ChainRemove ==
    ASSUME NEW rows, Chain(rows), NEW p \in 1..Len(rows)
    PROVE  Chain(RemoveAt(rows, p)) /\ Drawn(RemoveAt(rows, p), rows)
<1> DEFINE new == RemoveAt(rows, p)
           n == Len(rows)
           g(k) == IF k < p THEN k ELSE k + 1
<1>1. IsSeq(rows) /\ n \in Nat
  BY SeqFacts DEF Chain
<1>2. IsSeq(new) /\ Len(new) = n - 1 /\ \A k \in 1..n - 1 : new[k] = rows[g(k)]
  BY <1>1, Removed
<1>3. /\ \A k \in 1..n - 1 : g(k) \in 1..n
      /\ \A i, j \in 1..n - 1 : i < j => g(i) < g(j)
  BY <1>1
<1> HIDE DEF new, g, n
<1>4. \A k \in 1..Len(new) : g(k) \in 1..n /\ new[k] = rows[g(k)]
  BY <1>2, <1>3
<1>5. \A k \in 1..Len(new) : Receipt(new[k])
  BY <1>4 DEF Chain, n
<1>6. \A i, j \in 1..n : i < j => rows[i].core.seq < rows[j].core.seq
  BY DEF Chain, n
<1>7. \A i, j \in 1..Len(new) : i < j => new[i].core.seq < new[j].core.seq
  BY <1>2, <1>3, <1>4, <1>6
<1>8. ASSUME NEW i \in 1..Len(new), NEW j \in 1..Len(new), j = i + 1,
             new[j].core.seq = new[i].core.seq + 1
      PROVE  new[j].core.previous = new[i].hash
  <2>1. g(i) \in 1..n /\ g(j) \in 1..n /\ g(i) < g(j)
    BY <1>1, <1>2, <1>3, <1>8
  <2>2. rows[g(j)].core.seq = rows[g(i)].core.seq + 1
    BY <1>4, <1>8
  <2>3. CASE g(j) = g(i) + 1
    <3>1. rows[g(j)].core.previous = rows[g(i)].hash
      BY <2>1, <2>2, <2>3 DEF Chain, n
    <3> QED BY <1>4, <3>1
  <2>4. CASE g(j) # g(i) + 1
    <3> DEFINE m == g(i) + 1
    <3>1. m \in 1..n /\ g(i) < m /\ m < g(j)
      BY <1>1, <2>1, <2>4
    <3> HIDE DEF m
    <3>2. rows[g(i)].core.seq < rows[m].core.seq /\ rows[m].core.seq < rows[g(j)].core.seq
      BY <1>6, <2>1, <3>1
    <3>3. rows[g(i)].core.seq \in Nat /\ rows[m].core.seq \in Nat
      BY <2>1, <3>1, SeqAtLeast DEF n
    <3> QED BY <2>2, <3>2, <3>3
  <2> QED BY <2>3, <2>4
<1>9. Chain(new)
  BY <1>2, <1>5, <1>7, <1>8 DEF Chain
<1>10. Drawn(new, rows)
  BY <1>4 DEF Drawn, n
<1> QED BY <1>9, <1>10 DEF new

\* What verifyChainIntact asks of the links holds exactly where no row is missing.
LEMMA LinksGapless ==
    ASSUME NEW rows, Chain(rows)
    PROVE  (\A i \in DOMAIN rows :
               /\ rows[i].core.previous = IF i = 1 THEN Genesis ELSE rows[i - 1].hash
               /\ rows[i].hash = Hash(rows[i].core)) <=> Gapless(rows)
<1>1. Len(rows) \in Nat /\ DOMAIN rows = 1..Len(rows)
  BY SeqFacts DEF Chain
<1>2. \A i \in 1..Len(rows) : /\ rows[i].hash = Hash(rows[i].core)
                              /\ rows[i].hash # Genesis /\ rows[i].hash[1] = rows[i].core.seq
                              /\ rows[i].core.seq \in Nat /\ rows[i].core.seq >= 1
  BY ReceiptFacts DEF Chain
<1>3. ASSUME Gapless(rows), NEW i \in 1..Len(rows)
      PROVE  rows[i].core.previous = IF i = 1 THEN Genesis ELSE rows[i - 1].hash
  <2>1. \A j \in 1..Len(rows) : rows[j].core.seq = j
    BY <1>1, <1>3 DEF Gapless
  <2>2. CASE i = 1
    BY <2>1, <2>2 DEF Chain, Receipt
  <2>3. CASE i # 1
    <3>1. i - 1 \in 1..Len(rows) /\ i = (i - 1) + 1
      BY <1>1, <2>3
    <3>2. rows[i].core.seq = rows[i - 1].core.seq + 1
      BY <2>1, <3>1
    <3>3. rows[i].core.previous = rows[i - 1].hash
      BY <3>1, <3>2 DEF Chain
    <3> QED BY <2>3, <3>3
  <2> QED BY <2>2, <2>3
<1>4. ASSUME \A i \in 1..Len(rows) : rows[i].core.previous = IF i = 1 THEN Genesis ELSE rows[i - 1].hash
      PROVE  Gapless(rows)
  <2> DEFINE Bad == {i \in 1..Len(rows) : rows[i].core.seq # i}
  <2>1. SUFFICES ASSUME Bad # {} PROVE FALSE
    BY <1>1 DEF Gapless
  <2>2. Bad \in SUBSET Nat
    BY <1>1
  <2> HIDE DEF Bad
  <2>3. PICK i \in Bad : \A j \in Bad : i <= j
    BY <2>1, <2>2, LeastNumber
  <2>4. i \in 1..Len(rows) /\ rows[i].core.seq # i
    BY <2>3 DEF Bad
  <2>5. /\ rows[i].core.seq = 1 => rows[i].core.previous = Genesis
        /\ rows[i].core.seq # 1 => /\ rows[i].core.previous # Genesis
                                   /\ rows[i].core.previous[1] = rows[i].core.seq - 1
    BY <2>4 DEF Chain, Receipt
  <2>6. CASE i = 1
    <3>1. rows[i].core.previous = Genesis
      BY <1>4, <2>4, <2>6
    <3> QED BY <2>4, <2>5, <2>6, <3>1
  <2>7. CASE i # 1
    <3>1. i - 1 \in 1..Len(rows) /\ ~(i <= i - 1)
      BY <1>1, <2>4, <2>7
    <3>2. rows[i - 1].core.seq = i - 1
      BY <2>3, <3>1 DEF Bad
    <3>3. rows[i].core.previous = rows[i - 1].hash
      BY <1>4, <2>4, <2>7
    <3>4. rows[i].core.previous # Genesis /\ rows[i].core.previous[1] = i - 1
      BY <1>2, <3>1, <3>2, <3>3
    <3>5. rows[i].core.seq - 1 = i - 1 /\ rows[i].core.seq \in Nat
      BY <1>2, <2>4, <2>5, <3>4
    <3> QED BY <1>1, <2>4, <3>5
  <2> QED BY <2>6, <2>7
<1> QED BY <1>1, <1>2, <1>3, <1>4
-----------------------------------------------------------------------------
(* What the checks come to. *)

\* The tip of any lines.
LEMMA TipIs ==
    ASSUME NEW lines, IsSeq(lines)
    PROVE  /\ Len(lines) = 0 => Tip(lines).seq = 0 /\ Tip(lines).hash = Genesis
           /\ Len(lines) # 0 => /\ Len(lines) \in 1..Len(lines)
                                /\ Tip(lines).seq = lines[Len(lines)].core.seq
                                /\ Tip(lines).hash = lines[Len(lines)].hash
<1>1. Len(lines) \in Nat /\ (lines = <<>> <=> Len(lines) = 0)
  BY SeqFacts
<1>2. CASE Len(lines) = 0
  <2>1. Tip(lines) = [seq |-> 0, hash |-> Genesis]
    BY <1>1, <1>2 DEF Tip
  <2> QED BY <1>2, <2>1
<1>3. CASE Len(lines) # 0
  <2>1. Tip(lines) = [seq |-> lines[Len(lines)].core.seq, hash |-> lines[Len(lines)].hash]
    BY <1>1, <1>3, Zenon DEF Tip, Last
  <2> QED BY <1>1, <1>3, <2>1
<1> QED BY <1>2, <1>3

\* The check of a log at the start: if the rows up to the pin are rows that were
\* vouched for, it accepts the gapless logs that begin with all of those.
LEMMA IntactMeans ==
    ASSUME NEW rows, Chain(rows), NEW v, Chain(v),
           \A i \in 1..Len(rows) :
              rows[i].core.seq <= Tip(v).seq => \E j \in 1..Len(v) : v[j] = rows[i]
    PROVE  VerifyChainIntact(rows, Tip(v).seq) <=> Gapless(rows) /\ IsPrefix(v, rows)
<1> DEFINE p == Tip(v).seq
<1>1. IsSeq(rows) /\ Len(rows) \in Nat /\ DOMAIN rows = 1..Len(rows) /\ IsSeq(v) /\ Len(v) \in Nat
  BY SeqFacts DEF Chain
<1>2. VerifyChainIntact(rows, p) <=> Gapless(rows) /\ Tip(rows).seq >= p
  BY LinksGapless DEF VerifyChainIntact
<1>3. p \in Nat /\ Tip(rows).seq \in Nat
  BY TipFacts
<1>4. IsPrefix(v, rows) <=> Len(v) <= Len(rows) /\ \A i \in 1..Len(v) : v[i] = rows[i]
  BY <1>1, PrefixFacts
<1>5. /\ Len(v) = 0 => p = 0
      /\ Len(v) # 0 => Len(v) \in 1..Len(v) /\ p = v[Len(v)].core.seq
  BY <1>1, TipIs
<1>6. \A i \in 1..Len(rows) : rows[i].core.seq <= p => \E j \in 1..Len(v) : v[j] = rows[i]
  OBVIOUS
<1> HIDE DEF p
<1>7. ASSUME Gapless(rows), Tip(rows).seq >= p PROVE IsPrefix(v, rows)
  <2>1. \A i \in 1..Len(rows) : rows[i].core.seq = i
    BY <1>1, <1>7 DEF Gapless
  <2>2. p <= Len(rows)
    <3>1. Tip(rows).seq = Len(rows)
      BY <1>1, <2>1, TipIs
    <3> QED BY <1>7, <3>1
  <2>3. ASSUME NEW k \in 1..p PROVE k \in 1..Len(rows) /\ \E j \in 1..Len(v) : v[j] = rows[k]
    <3>1. k \in 1..Len(rows)
      BY <1>1, <1>3, <2>2
    <3>2. rows[k].core.seq <= p
      BY <1>3, <2>1, <3>1
    <3> QED BY <1>6, <3>1, <3>2
  <2>4. \A k \in 1..p : \E j \in 1..Len(v) : v[j].core.seq = k
    BY <2>1, <2>3
  <2>5. \A k \in 1..p : k <= Len(v) /\ v[k].core.seq = k
    BY <1>3, <2>4, Places
  <2>6. Len(v) = p
    <3>1. CASE Len(v) = 0
      BY <1>5, <3>1
    <3>2. CASE Len(v) # 0
      <4>1. Len(v) <= p
        BY <1>5, <3>2, SeqAtLeast
      <4>2. p \in 1..p
        BY <1>1, <1>3, <3>2, <4>1
      <4> QED BY <1>1, <1>3, <2>5, <4>1, <4>2
    <3> QED BY <3>1, <3>2
  <2>7. ASSUME NEW i \in 1..Len(v) PROVE v[i] = rows[i]
    <3>1. i \in 1..p
      BY <2>6
    <3>2. PICK j \in 1..Len(v) : v[j] = rows[i]
      BY <2>3, <3>1
    <3>3. v[j].core.seq = i
      BY <2>1, <2>3, <3>1, <3>2
    <3>4. v[j].core.seq = j
      BY <2>5, <2>6
    <3> QED BY <3>2, <3>3, <3>4
  <2> QED BY <1>4, <2>2, <2>6, <2>7
<1>8. ASSUME IsPrefix(v, rows) PROVE Tip(rows).seq >= p
  <2>1. CASE Len(v) = 0
    BY <1>3, <1>5, <2>1
  <2>2. CASE Len(v) # 0
    <3>1. Len(v) \in 1..Len(rows) /\ p = rows[Len(v)].core.seq
      BY <1>1, <1>4, <1>5, <1>8, <2>2
    <3>2. rows[Len(v)].core.seq <= Tip(rows).seq
      BY <3>1, TipFacts
    <3> QED BY <1>3, <3>1, <3>2
  <2> QED BY <2>1, <2>2
<1> QED BY <1>2, <1>7, <1>8 DEF p

\* The least of two numbers.
LEMMA MinOfTwo ==
    ASSUME NEW a \in Nat, NEW b \in Nat
    PROVE  Min({a, b}) \in {a, b} /\ Min({a, b}) <= a /\ Min({a, b}) <= b
<1>1. \E x \in {a, b} : \A y \in {a, b} : x <= y
  <2>1. CASE a <= b
    BY <2>1
  <2>2. CASE ~(a <= b)
    <3>1. b <= a
      BY <2>2
    <3> QED BY <3>1
  <2> QED BY <2>1, <2>2
<1>2. Min({a, b}) \in {a, b} /\ \A y \in {a, b} : Min({a, b}) <= y
  BY <1>1 DEF Min
<1> QED BY <1>2

\* A page continues the rows that the exporter has, and is empty when it has all.
LEMMA PageFacts ==
    ASSUME NEW rows, Chain(rows), NEW had, IsSeq(had), IsPrefix(had, rows)
    PROVE  LET entries == Page(rows, Tip(had).seq)
           IN  /\ IsSeq(had \o entries)
               /\ entries = <<>> => had = rows
               /\ entries # <<>> => IsPrefix(had \o entries, rows) /\ Tip(had \o entries).seq = Last(entries).core.seq
<1> DEFINE after == Tip(had).seq
           n == Len(had)
           m == Min({n + Limit, Len(rows)})
           entries == SubSeq(rows, n + 1, m)
           got == had \o entries
<1>0. n \in Nat
  BY SeqFacts
<1>a. DOMAIN rows = 1..Len(rows)
  BY SeqFacts DEF Chain
<1>1. IsSeq(rows) /\ Len(rows) \in Nat
  BY SeqFacts DEF Chain
<1>2. n <= Len(rows) /\ \A i \in 1..n : had[i] = rows[i]
  BY <1>0, <1>1, PrefixFacts
<1>3. {i \in DOMAIN rows : rows[i].core.seq <= after} = 1..n
  <2>1. \A i \in 1..Len(rows) : rows[i].core.seq \in Nat /\ i <= rows[i].core.seq
    BY SeqAtLeast
  <2>2. CASE n = 0
    <3>1. after = 0
      BY <2>2, TipIs
    <3> HIDE DEF after
    <3>2. ASSUME NEW i \in 1..Len(rows) PROVE ~(rows[i].core.seq <= after)
      BY <1>0, <1>1, <2>1, <3>1
    <3>3. 1..n = {}
      BY <2>2
    <3> QED BY <1>0, <1>1, <1>a, <3>2, <3>3
  <2>3. CASE n # 0
    <3>1. n \in 1..Len(rows) /\ n \in 1..n
      BY <1>0, <1>1, <1>2, <2>3
    <3>2. after = rows[n].core.seq
      BY <1>2, <2>3, <3>1, TipIs
    <3> HIDE DEF after, n
    <3>3. ASSUME NEW i \in 1..Len(rows) PROVE rows[i].core.seq <= after <=> i \in 1..n
      <4>1. CASE i < n
        <5>1. rows[i].core.seq < rows[n].core.seq
          BY <3>1, <4>1 DEF Chain
        <5> QED BY <1>0, <1>1, <2>1, <3>1, <3>2, <4>1, <5>1
      <4>2. CASE i = n
        BY <1>0, <1>1, <2>1, <3>1, <3>2, <4>2
      <4>3. CASE i > n
        <5>1. rows[n].core.seq < rows[i].core.seq
          BY <3>1, <4>3 DEF Chain
        <5> QED BY <1>0, <1>1, <2>1, <3>1, <3>2, <4>3, <5>1
      <4> QED BY <1>0, <1>1, <4>1, <4>2, <4>3
    <3>4. 1..n \subseteq 1..Len(rows)
      BY <1>0, <1>1, <1>2
    <3> QED BY <1>0, <1>1, <1>a, <3>3, <3>4
  <2> QED BY <2>2, <2>3
<1>4. Cardinality(1..n) = n
  <2>1. n \in Int /\ 1 \in Int
    BY <1>0
  <2>2. Cardinality(1..n) = IF 1 > n THEN 0 ELSE n - 1 + 1
    BY <2>1, FS_Interval
  <2> HIDE DEF n
  <2> QED BY <1>0, <2>2
<1>5. Page(rows, after) = entries
  BY <1>3, <1>4, Zenon DEF Page
<1>6. m \in 0..Len(rows) /\ n <= m /\ (m = n => n = Len(rows))
  <2>1. Limit \in Nat \ {0} /\ n + Limit \in Nat
    BY <1>0, <1>1, ChainAssumption
  <2>2. m \in {n + Limit, Len(rows)} /\ m <= n + Limit /\ m <= Len(rows)
    BY <1>0, <1>1, <2>1, MinOfTwo
  <2> HIDE DEF m, n
  <2> QED BY <1>0, <1>1, <1>2, <2>1, <2>2
<1>7. /\ IsSeq(entries) /\ Len(entries) = m - n
      /\ \A i \in 1..m - n : entries[i] = rows[n + i]
  <2> HIDE DEF m, n
  <2>1. n + 1 \in Nat \ {0} /\ n + 1 <= m + 1
    BY <1>0, <1>1, <1>6
  <2>2. /\ IsSeq(entries) /\ Len(entries) = m - (n + 1) + 1
        /\ \A i \in 1..m - (n + 1) + 1 : entries[i] = rows[(n + 1) + i - 1]
    BY <1>0, <1>1, <1>6, <2>1, Cut
  <2> HIDE DEF entries
  <2>3. \A i \in 1..m - n : (n + 1) + i - 1 = n + i /\ i \in 1..m - (n + 1) + 1
    BY <1>0, <1>1, <1>6
  <2>4. \A i \in 1..m - n : entries[i] = rows[n + i]
    BY <2>2, <2>3
  <2> QED BY <1>0, <1>1, <1>6, <2>2, <2>4
<1> HIDE DEF entries, m
<1>8. entries = <<>> <=> Len(entries) = 0
  BY <1>7, SeqFacts
<1>9. /\ IsSeq(got) /\ Len(got) = n + Len(entries)
      /\ \A i \in 1..n + Len(entries) : got[i] = IF i <= n THEN had[i] ELSE entries[i - n]
  BY <1>7, Joined
<1> HIDE DEF got
<1>10. ASSUME entries = <<>> PROVE had = rows
  <2>1. n = Len(rows)
    BY <1>0, <1>1, <1>6, <1>7, <1>8, <1>10
  <2> QED BY <1>0, <1>1, <1>2, <2>1, SameRows
<1>11. Len(got) = m
  <2> HIDE DEF n
  <2> QED BY <1>0, <1>1, <1>6, <1>7, <1>9
<1>12. \A i \in 1..m : got[i] = rows[i]
  <2> HIDE DEF n
  <2>1. ASSUME NEW i \in 1..m PROVE got[i] = rows[i]
    <3>1. i \in 1..n + Len(entries)
      BY <1>0, <1>1, <1>6, <1>7
    <3>2. CASE i <= n
      BY <1>0, <1>1, <1>2, <1>9, <3>1, <3>2
    <3>3. CASE ~(i <= n)
      <4>1. i - n \in 1..m - n /\ n + (i - n) = i
        BY <1>0, <1>1, <1>6, <3>3
      <4>2. entries[i - n] = rows[i]
        BY <1>7, <4>1
      <4> QED BY <1>9, <3>1, <3>3, <4>2
    <3> QED BY <3>2, <3>3
  <2> QED BY <2>1
<1>13. IsPrefix(got, rows)
  BY <1>0, <1>1, <1>6, <1>9, <1>11, <1>12, PrefixFacts
<1>14. ASSUME entries # <<>> PROVE Tip(got).seq = Last(entries).core.seq
  <2> HIDE DEF n
  <2>1. Len(entries) # 0 /\ Len(entries) \in 1..m - n /\ m # 0 /\ m \in 1..m /\ n + Len(entries) = m
    BY <1>0, <1>1, <1>6, <1>7, <1>8, <1>14
  <2>2. Last(entries) = rows[m]
    BY <1>7, <2>1 DEF Last
  <2>3. Tip(got).seq = got[m].core.seq
    BY <1>9, <1>11, <2>1, TipIs
  <2> QED BY <1>0, <1>12, <2>1, <2>2, <2>3
<1> QED BY <1>5, <1>9, <1>10, <1>13, <1>14, Zenon DEF got
\* Lines that pass the loop of the verifiers, and of which each has the signature of
\* a row, are the gapless beginnings of the rows.
LEMMA LinkedMeans ==
    ASSUME NEW lines, IsSeq(lines), NEW rows, Chain(rows), Signed(lines, rows)
    PROVE  Linked(lines) <=> IsPrefix(lines, rows) /\ Gapless(lines)
<1> DEFINE n == Len(lines)
<1>1. n \in Nat
  BY SeqFacts
<1>2. DOMAIN lines = 1..n
  BY SeqFacts
<1>3. IsSeq(rows) /\ Len(rows) \in Nat
  BY SeqFacts DEF Chain
<1>4. IsPrefix(lines, rows) <=> n <= Len(rows) /\ \A i \in 1..n : lines[i] = rows[i]
  BY <1>3, PrefixFacts
<1>5. \A i \in 1..n : \E j \in 1..Len(rows) : lines[i].signature = rows[j].signature
  BY DEF Signed
<1>6. \A i \in 1..n : /\ lines[i] = [core |-> lines[i].core, hash |-> lines[i].hash,
                                    signature |-> lines[i].signature]
                      /\ Core(lines[i].core)
  BY DEF Signed
<1> HIDE DEF n
<1>7. ASSUME Linked(lines) PROVE IsPrefix(lines, rows) /\ Gapless(lines)
  <2>1. \A i \in 1..n : /\ lines[i].core.seq = i
                        /\ Hash(lines[i].core) = lines[i].hash
                        /\ lines[i].signature = lines[i].hash
    BY <1>2, <1>7 DEF Linked
  <2>2. ASSUME NEW i \in 1..n, NEW j \in 1..Len(rows), lines[i].signature = rows[j].signature
        PROVE  lines[i] = rows[j] /\ rows[j].core.seq = i
    <3>1. Receipt(rows[j])
      BY DEF Chain
    <3>2. rows[j].hash = Hash(rows[j].core) /\ rows[j].signature = Hash(rows[j].core)
      BY <3>1, ReceiptFacts
    <3>3. lines[i].core = rows[j].core
      <4>1. Hash(lines[i].core) = Hash(rows[j].core)
        BY <2>1, <2>2, <3>2
      <4>2. Core(lines[i].core) /\ Core(rows[j].core)
        BY <1>6, <3>1 DEF Receipt
      <4> QED BY <4>1, <4>2, HashFacts
    <3>4. rows[j] = [core |-> rows[j].core, hash |-> rows[j].hash, signature |-> rows[j].signature]
      BY <3>1, <3>2 DEF Receipt
    <3>5. lines[i].hash = rows[j].hash
      BY <2>1, <2>2, <3>2
    <3> QED BY <1>6, <2>1, <2>2, <3>3, <3>4, <3>5
  <2>3. \A i \in 1..n : \E j \in 1..Len(rows) : lines[i] = rows[j] /\ rows[j].core.seq = i
    BY <1>5, <2>2
  <2>4. \A k \in 1..n : k <= Len(rows) /\ rows[k].core.seq = k
    BY <1>1, <2>3, Places
  <2>5. n <= Len(rows)
    <3>1. CASE n = 0
      BY <1>3, <3>1
    <3>2. CASE n # 0
      <4>1. n \in 1..n
        BY <1>1, <3>2
      <4> QED BY <2>4, <4>1
    <3> QED BY <3>1, <3>2
  <2>6. ASSUME NEW i \in 1..n PROVE lines[i] = rows[i]
    <3>1. PICK j \in 1..Len(rows) : lines[i] = rows[j] /\ rows[j].core.seq = i
      BY <2>3
    <3>2. j <= i
      BY <3>1, SeqAtLeast
    <3>3. j \in 1..n
      BY <1>1, <1>3, <3>2
    <3>4. rows[j].core.seq = j
      BY <2>4, <3>3
    <3> QED BY <3>1, <3>4
  <2>7. Gapless(lines)
    BY <1>2, <2>1 DEF Gapless
  <2> QED BY <1>4, <2>5, <2>6, <2>7
<1>8. ASSUME IsPrefix(lines, rows), Gapless(lines) PROVE Linked(lines)
  <2>1. n <= Len(rows) /\ \A i \in 1..n : lines[i] = rows[i] /\ rows[i].core.seq = i
    BY <1>2, <1>4, <1>8 DEF Gapless
  <2>2. \A i \in 1..n : i \in 1..Len(rows) /\ Receipt(rows[i])
    BY <1>1, <1>3, <2>1 DEF Chain
  <2>3. \A i \in 1..n : /\ Hash(lines[i].core) = lines[i].hash
                        /\ lines[i].signature = lines[i].hash
    BY <2>1, <2>2, ReceiptFacts
  <2>4. ASSUME NEW i \in 1..n
        PROVE  lines[i].core.previous = IF i = 1 THEN Genesis ELSE lines[i - 1].hash
    <3>1. CASE i = 1
      <4>1. rows[1].core.previous = Genesis
        BY <2>1, <2>2, <3>1 DEF Receipt
      <4> QED BY <2>1, <3>1, <4>1
    <3>2. CASE i # 1
      <4>1. i - 1 \in 1..n /\ i = (i - 1) + 1
        BY <1>1, <3>2
      <4>2. rows[i].core.seq = rows[i - 1].core.seq + 1
        BY <2>1, <4>1
      <4>3. rows[i].core.previous = rows[i - 1].hash
        BY <2>2, <4>1, <4>2 DEF Chain
      <4> QED BY <2>1, <3>2, <4>1, <4>3
    <3> QED BY <3>1, <3>2
  <2> QED BY <1>2, <2>1, <2>3, <2>4 DEF Linked
<1> QED BY <1>7, <1>8

\* Of the beginnings only the whole has the tip of the rows.
LEMMA TipMeans ==
    ASSUME NEW lines, IsSeq(lines), NEW rows, Chain(rows), IsPrefix(lines, rows), rows # <<>>
    PROVE  /\ Tip(lines).hash = Tip(rows).hash <=> lines = rows
           /\ (lines # <<>> /\ Last(lines).hash = Tip(rows).hash) <=> lines = rows
<1> DEFINE n == Len(lines)
           l == Len(rows)
<1>1. n \in Nat /\ l \in Nat
  BY SeqFacts DEF Chain
<1>2. n <= l /\ \A i \in 1..n : lines[i] = rows[i]
  BY PrefixFacts DEF Chain
<1>3. l # 0 /\ (lines = <<>> <=> n = 0)
  BY SeqFacts DEF Chain
<1>4. l \in 1..l /\ Tip(rows).hash = rows[l].hash
  BY <1>3, TipFacts
<1>5. /\ n = 0 => Tip(lines).hash = Genesis
      /\ n # 0 => n \in 1..n /\ Tip(lines).hash = lines[n].hash /\ Last(lines) = lines[n]
  BY TipIs DEF Last
<1>6. lines = rows => n = l
  OBVIOUS
<1>7. n = l => lines = rows
  BY <1>2, SameRows DEF Chain
<1> HIDE DEF n, l
<1>8. rows[l].hash # Genesis /\ rows[l].hash[1] = rows[l].core.seq
  BY <1>4, ReceiptFacts DEF Chain, l
<1>9. ASSUME n # 0, lines[n].hash = rows[l].hash PROVE n = l
  <2>1. n \in 1..l /\ rows[n].hash = rows[l].hash
    BY <1>1, <1>2, <1>5, <1>9
  <2>2. rows[n].core.seq = rows[l].core.seq
    BY <1>8, <2>1, ReceiptFacts DEF Chain, l
  <2>3. rows[l].core.seq \in Nat
    BY <1>4, SeqAtLeast DEF l
  <2>4. n < l => rows[n].core.seq < rows[l].core.seq
    BY <1>4, <2>1 DEF Chain, l
  <2> QED BY <1>1, <1>2, <2>2, <2>3, <2>4
<1>10. ASSUME n = l PROVE n # 0 /\ lines[n].hash = rows[l].hash
  BY <1>2, <1>3, <1>4, <1>10
<1>11. (n # 0 /\ lines[n].hash = rows[l].hash) <=> lines = rows
  BY <1>6, <1>7, <1>9, <1>10
<1>12. Tip(lines).hash = Tip(rows).hash <=> (n # 0 /\ lines[n].hash = rows[l].hash)
  BY <1>4, <1>5, <1>8
<1>13. (lines # <<>> /\ Last(lines).hash = Tip(rows).hash) <=> (n # 0 /\ lines[n].hash = rows[l].hash)
  BY <1>3, <1>4, <1>5
<1> QED BY <1>11, <1>12, <1>13

\* The verdicts of the three verifiers, without a tip and with that of the rows.
LEMMA VerdictsMean ==
    ASSUME NEW lines, IsSeq(lines), NEW rows, Chain(rows), Signed(lines, rows), rows # <<>>
    PROVE  LET tip == <<Tip(rows).hash>>
               beginning == IsPrefix(lines, rows) /\ Gapless(lines)
               complete == lines = rows /\ Gapless(lines)
           IN  /\ beginning = VerifyReceiptChain(lines, NoTip)
               /\ beginning = VerifyAuditFile(lines, NoTip)
               /\ beginning = VerifyChain(lines, NoTip)
               /\ complete = VerifyReceiptChain(lines, tip)
               /\ complete = VerifyAuditFile(lines, tip)
               /\ complete = VerifyChain(lines, tip)
<1> DEFINE tip == <<Tip(rows).hash>>
           beginning == IsPrefix(lines, rows) /\ Gapless(lines)
           complete == lines = rows /\ Gapless(lines)
<1>1. Linked(lines) <=> beginning
  BY LinkedMeans
<1>2. tip # NoTip /\ \A h : tip = <<h>> <=> h = Tip(rows).hash
  BY DEF NoTip
<1>3. lines = rows => IsPrefix(lines, rows)
  <2>1. Len(rows) \in Nat
    BY SeqFacts DEF Chain
  <2> QED BY <2>1, PrefixFacts DEF Chain
<1>4. IsPrefix(lines, rows) =>
        /\ Tip(lines).hash = Tip(rows).hash <=> lines = rows
        /\ (lines # <<>> /\ Last(lines).hash = Tip(rows).hash) <=> lines = rows
  BY TipMeans
<1> HIDE DEF tip
<1>5. beginning = VerifyReceiptChain(lines, NoTip)
  BY <1>1 DEF VerifyReceiptChain
<1>6. beginning = VerifyAuditFile(lines, NoTip)
  BY <1>1 DEF VerifyAuditFile
<1>7. beginning = VerifyChain(lines, NoTip)
  BY <1>1 DEF VerifyChain
<1>8. complete = VerifyReceiptChain(lines, tip)
  BY <1>1, <1>2, <1>3, <1>4 DEF VerifyReceiptChain
<1>9. complete = VerifyAuditFile(lines, tip)
  BY <1>1, <1>2, <1>3, <1>4 DEF VerifyAuditFile
<1>10. complete = VerifyChain(lines, tip)
  BY <1>1, <1>2, <1>3, <1>4 DEF VerifyChain
<1> QED BY <1>5, <1>6, <1>7, <1>8, <1>9, <1>10 DEF tip
-----------------------------------------------------------------------------
(* What the steps do to rows and lines. *)

Put(rows, i, r) == [rows EXCEPT ![i] = r]

\* A line replaced.
LEMMA Replaced ==
    ASSUME NEW rows, IsSeq(rows), NEW i \in 1..Len(rows), NEW r
    PROVE  /\ IsSeq(Put(rows, i, r)) /\ Len(Put(rows, i, r)) = Len(rows)
           /\ \A k \in 1..Len(rows) : Put(rows, i, r)[k] = IF k = i THEN r ELSE rows[k]
<1> DEFINE S == ToSet(rows) \cup {r}
<1>1. rows \in Seq(S) /\ r \in S
  BY SeqMonotonic DEF IsSeq
<1> HIDE DEF S
<1>2. /\ [rows EXCEPT ![i] = r] \in Seq(S) /\ Len([rows EXCEPT ![i] = r]) = Len(rows)
      /\ \A k \in 1..Len(rows) : [rows EXCEPT ![i] = r][k] = IF k = i THEN r ELSE rows[k]
  BY <1>1, ExceptSeq
<1>3. IsSeq([rows EXCEPT ![i] = r])
  BY <1>2, AnySeq, Zenon
<1> QED BY <1>2, <1>3, Zenon DEF Put

\* Lines that come from signed lines are signed.
LEMMA SignedDrawn ==
    ASSUME NEW rows, NEW lines, Signed(lines, rows), NEW new, Drawn(new, lines)
    PROVE  Signed(new, rows)
  BY DEF Signed, Drawn

\* So are signed lines of which one was edited and has kept its signature.
LEMMA SignedEdited ==
    ASSUME NEW rows, NEW lines, IsSeq(lines), Signed(lines, rows), NEW i \in 1..Len(lines),
           NEW c, Core(c), NEW h
    PROVE  LET r == [core |-> c, hash |-> h, signature |-> lines[i].signature]
           IN  IsSeq(Put(lines, i, r)) /\ Signed(Put(lines, i, r), rows)
<1> DEFINE r == [core |-> c, hash |-> h, signature |-> lines[i].signature]
           new == Put(lines, i, r)
<1>1. /\ r = [core |-> r.core, hash |-> r.hash, signature |-> r.signature]
      /\ Core(r.core) /\ r.signature = lines[i].signature
  OBVIOUS
<1> HIDE DEF r
<1>2. /\ IsSeq(new) /\ Len(new) = Len(lines)
      /\ \A k \in 1..Len(lines) : new[k] = IF k = i THEN r ELSE lines[k]
  BY Replaced
<1> HIDE DEF new
<1>3. ASSUME NEW k \in 1..Len(new)
      PROVE  /\ new[k] = [core |-> new[k].core, hash |-> new[k].hash, signature |-> new[k].signature]
             /\ Core(new[k].core)
             /\ \E j \in 1..Len(rows) : new[k].signature = rows[j].signature
  <2>1. CASE k = i
    <3>1. new[k] = r
      BY <1>2, <2>1
    <3>2. \E j \in 1..Len(rows) : r.signature = rows[j].signature
      BY <1>1 DEF Signed
    <3> QED BY <1>1, <3>1, <3>2
  <2>2. CASE k # i
    <3>1. new[k] = lines[k] /\ k \in 1..Len(lines)
      BY <1>2, <2>2
    <3> QED BY <3>1 DEF Signed
  <2> QED BY <2>1, <2>2
<1>4. Signed(new, rows)
  BY <1>3 DEF Signed
<1> QED BY <1>2, <1>4 DEF new, r

Edited(r, c, h) == [r EXCEPT !.core = c, !.hash = h]

\* The fields of an edited line.
LEMMA EditedFields ==
    ASSUME NEW b, NEW g, NEW s, NEW c, NEW h
    PROVE  Edited([core |-> b, hash |-> g, signature |-> s], c, h)
           = [core |-> c, hash |-> h, signature |-> s]
<1> DEFINE r == [core |-> b, hash |-> g, signature |-> s]
           q == [r EXCEPT !.core = c]
<1>1. Edited(r, c, h) = [q EXCEPT !.hash = h]
  <2> HIDE DEF r
  <2> QED BY DEF Edited
<1>2. q = [core |-> c, hash |-> g, signature |-> s]
  OBVIOUS
<1>3. [[core |-> c, hash |-> g, signature |-> s] EXCEPT !.hash = h]
      = [core |-> c, hash |-> h, signature |-> s]
  OBVIOUS
<1> HIDE DEF q
<1> QED BY <1>1, <1>2, <1>3, Zenon

\* Two neighbours swapped.
LEMMA Swapped ==
    ASSUME NEW rows, IsSeq(rows), NEW i \in 1..Len(rows), i < Len(rows)
    PROVE  LET new == [rows EXCEPT ![i] = rows[i + 1], ![i + 1] = rows[i]]
           IN  IsSeq(new) /\ Drawn(new, rows)
<1> DEFINE a == Put(rows, i, rows[i + 1])
           new == Put(a, i + 1, rows[i])
<1>1. i + 1 \in 1..Len(rows)
  BY SeqFacts
<1>2. IsSeq(a) /\ Len(a) = Len(rows) /\ \A k \in 1..Len(rows) : a[k] = IF k = i THEN rows[i + 1] ELSE rows[k]
  BY Replaced
<1> HIDE DEF a
<1>3. /\ IsSeq(new) /\ Len(new) = Len(rows)
      /\ \A k \in 1..Len(rows) : new[k] = IF k = i + 1 THEN rows[i] ELSE a[k]
  <2>1. i + 1 \in 1..Len(a)
    BY <1>1, <1>2
  <2>2. /\ IsSeq(new) /\ Len(new) = Len(a)
        /\ \A k \in 1..Len(a) : new[k] = IF k = i + 1 THEN rows[i] ELSE a[k]
    BY <1>2, <2>1, Replaced
  <2> HIDE DEF new
  <2> QED BY <1>2, <2>2
<1> HIDE DEF new
<1>4. Drawn(new, rows)
  BY <1>1, <1>2, <1>3 DEF Drawn
<1> QED BY <1>3, <1>4 DEF new, a, Put

\* The rows of a chain are signed.
LEMMA SignedChain == ASSUME NEW rows, Chain(rows) PROVE Signed(rows, rows)
<1>1. ASSUME NEW i \in 1..Len(rows)
      PROVE  /\ rows[i] = [core |-> rows[i].core, hash |-> rows[i].hash,
                           signature |-> rows[i].signature]
             /\ Core(rows[i].core)
             /\ \E j \in 1..Len(rows) : rows[i].signature = rows[j].signature
  <2>1. Receipt(rows[i])
    BY DEF Chain
  <2>2. rows[i].hash = Hash(rows[i].core) /\ rows[i].signature = Hash(rows[i].core)
    BY <2>1, ReceiptFacts
  <2> QED BY <2>1, <2>2 DEF Receipt
<1> QED BY <1>1 DEF Signed

\* What was exported stays a beginning while receipts are written.
LEMMA PrefixAppend ==
    ASSUME NEW rows, Chain(rows), NEW lines, IsSeq(lines), IsPrefix(lines, rows), NEW event
    PROVE  IsPrefix(lines, WithReceipt(rows, event))
<1> DEFINE new == WithReceipt(rows, event)
<1>1. Chain(new) /\ Len(new) = Len(rows) + 1 /\ \A i \in 1..Len(rows) : new[i] = rows[i]
  BY ChainAppend
<1> HIDE DEF new
<1>2. Len(lines) \in Nat /\ Len(rows) \in Nat
  BY SeqFacts DEF Chain
<1>3. Len(lines) <= Len(rows) /\ \A i \in 1..Len(lines) : lines[i] = rows[i]
  BY PrefixFacts DEF Chain
<1>4. Len(lines) <= Len(new) /\ \A i \in 1..Len(lines) : lines[i] = new[i]
  BY <1>1, <1>2, <1>3
<1>5. IsPrefix(lines, new)
  BY <1>1, <1>4, PrefixFacts DEF Chain
<1> QED BY <1>5 DEF new
-----------------------------------------------------------------------------
(* A log that goes on. *)

\* Rows that begin with those of before, and go on from behind their tip.
Longer(new, rows) ==
    /\ Chain(new)
    /\ Len(rows) <= Len(new) /\ \A i \in 1..Len(rows) : new[i] = rows[i]
    /\ \A i \in 1..Len(new) : i > Len(rows) => new[i].core.seq > Tip(rows).seq
    /\ Tip(new).seq >= Tip(rows).seq

\* The same rows.
LEMMA SameLonger == ASSUME NEW rows, Chain(rows) PROVE Longer(rows, rows)
<1>1. Len(rows) \in Nat /\ Tip(rows).seq \in Nat
  BY SeqFacts, TipFacts DEF Chain
<1> QED BY <1>1 DEF Longer

\* One receipt more.
LEMMA ReceiptLonger ==
    ASSUME NEW rows, Chain(rows), NEW event PROVE Longer(WithReceipt(rows, event), rows)
<1> DEFINE new == WithReceipt(rows, event)
<1>1. Len(rows) \in Nat /\ Tip(rows).seq \in Nat
  BY SeqFacts, TipFacts DEF Chain
<1>2. /\ Chain(new) /\ Len(new) = Len(rows) + 1 /\ \A i \in 1..Len(rows) : new[i] = rows[i]
      /\ new[Len(rows) + 1].core.seq = Tip(rows).seq + 1 /\ Tip(new).seq = Tip(rows).seq + 1
  BY ChainAppend
<1> HIDE DEF new
<1>3. ASSUME NEW i \in 1..Len(new), i > Len(rows) PROVE new[i].core.seq > Tip(rows).seq
  <2>1. i = Len(rows) + 1
    BY <1>1, <1>2, <1>3
  <2> QED BY <1>1, <1>2, <2>1
<1>4. Longer(new, rows)
  BY <1>1, <1>2, <1>3 DEF Longer
<1> QED BY <1>4 DEF new

\* Going on twice.
LEMMA LongerStill ==
    ASSUME NEW a, Chain(a), NEW b, Longer(b, a), NEW c, Longer(c, b) PROVE Longer(c, a)
<1>1. Len(a) \in Nat /\ Len(b) \in Nat /\ Len(c) \in Nat
  BY SeqFacts DEF Longer, Chain
<1>2. Tip(a).seq \in Nat /\ Tip(b).seq \in Nat /\ Tip(c).seq \in Nat
  BY TipFacts DEF Longer
<1>3. Chain(c) /\ Len(a) <= Len(c) /\ Tip(c).seq >= Tip(a).seq
  BY <1>1, <1>2 DEF Longer
<1>4. ASSUME NEW i \in 1..Len(a) PROVE c[i] = a[i]
  <2>1. i \in 1..Len(b)
    BY <1>1 DEF Longer
  <2> QED BY <2>1 DEF Longer
<1>5. ASSUME NEW i \in 1..Len(c), i > Len(a) PROVE c[i].core.seq > Tip(a).seq
  <2>1. CASE i <= Len(b)
    <3>1. i \in 1..Len(b)
      BY <1>1, <2>1
    <3> QED BY <1>5, <3>1 DEF Longer
  <2>2. CASE i > Len(b)
    <3>1. c[i].core.seq > Tip(b).seq /\ c[i].core.seq \in Nat
      BY <1>5, <2>2, SeqAtLeast DEF Longer
    <3> QED BY <1>2, <3>1 DEF Longer
  <2> QED BY <1>1, <2>1, <2>2
<1> QED BY <1>3, <1>4, <1>5 DEF Longer

\* A snapshot.intent that is settled.
LEMMA SettledLonger == ASSUME NEW rows, Chain(rows) PROVE Longer(Settled(rows), rows)
  BY SameLonger, ReceiptLonger DEF Settled

\* One receipt more leaves a gap where it was, and makes none.
LEMMA GaplessAppend ==
    ASSUME NEW rows, Chain(rows), NEW event
    PROVE  Gapless(WithReceipt(rows, event)) <=> Gapless(rows)
<1> DEFINE new == WithReceipt(rows, event)
<1>1. /\ Len(rows) \in Nat /\ DOMAIN rows = 1..Len(rows)
      /\ Len(rows) = 0 => Tip(rows).seq = 0
      /\ Len(rows) # 0 => Len(rows) \in 1..Len(rows) /\ Tip(rows).seq = rows[Len(rows)].core.seq
  BY SeqFacts, TipIs DEF Chain
<1>2. /\ Chain(new) /\ Len(new) = Len(rows) + 1 /\ \A i \in 1..Len(rows) : new[i] = rows[i]
      /\ new[Len(rows) + 1].core.seq = Tip(rows).seq + 1
  BY ChainAppend
<1> HIDE DEF new
<1>3. DOMAIN new = 1..Len(rows) + 1
  BY <1>2, SeqFacts DEF Chain
<1>4. ASSUME Gapless(rows) PROVE Gapless(new)
  <2>1. \A i \in 1..Len(rows) : rows[i].core.seq = i
    BY <1>1, <1>4 DEF Gapless
  <2>2. Tip(rows).seq = Len(rows)
    BY <1>1, <2>1
  <2>3. \A i \in 1..Len(rows) + 1 : i \in 1..Len(rows) \/ i = Len(rows) + 1
    BY <1>1
  <2> QED BY <1>2, <1>3, <2>1, <2>2, <2>3 DEF Gapless
<1>5. ASSUME Gapless(new) PROVE Gapless(rows)
  <2>1. \A i \in 1..Len(rows) : i \in 1..Len(rows) + 1
    BY <1>1
  <2> QED BY <1>1, <1>2, <1>3, <1>5, <2>1 DEF Gapless
<1> QED BY <1>4, <1>5 DEF new

\* The check comes after the settling: what it accepts then is what it would have
\* accepted, and a log whose last pinned receipt the settling has replaced.
LEMMA SettledIntact ==
    ASSUME NEW rows, Chain(rows), pin \in Nat
    PROVE  VerifyChainIntact(Settled(rows), pin) <=> VerifyChainIntact(rows, pin) \/ Refilled(rows)
<1>1. Tip(rows).seq \in Nat
  BY TipFacts
<1>2. VerifyChainIntact(rows, pin) <=> Gapless(rows) /\ Tip(rows).seq >= pin
  BY LinksGapless DEF VerifyChainIntact
<1>3. CASE Open(rows)
  <2> DEFINE new == WithReceipt(rows, "snapshot.failed")
  <2>1. Settled(rows) = new
    BY <1>3 DEF Settled
  <2>2. Chain(new) /\ Tip(new).seq = Tip(rows).seq + 1 /\ (Gapless(new) <=> Gapless(rows))
    BY ChainAppend, GaplessAppend
  <2> HIDE DEF new
  <2>3. VerifyChainIntact(new, pin) <=> Gapless(new) /\ Tip(new).seq >= pin
    BY <2>2, LinksGapless DEF VerifyChainIntact
  <2>4. Tip(rows).seq + 1 >= pin <=> Tip(rows).seq >= pin \/ Tip(rows).seq + 1 = pin
    BY <1>1
  <2>5. Refilled(rows) <=> Gapless(rows) /\ Tip(rows).seq + 1 = pin
    BY <1>3 DEF Refilled
  <2> QED BY <1>2, <2>1, <2>2, <2>3, <2>4, <2>5
<1>4. CASE ~Open(rows)
  <2>1. Settled(rows) = rows /\ ~Refilled(rows)
    BY <1>4 DEF Settled, Refilled
  <2> QED BY <2>1
<1> QED BY <1>3, <1>4

-----------------------------------------------------------------------------
(* The invariant. *)

\* It holds of a new session.
LEMMA InitAudit == Init => AuditInv
<1>1. SUFFICES ASSUME Init PROVE AuditInv
  OBVIOUS
<1>2. Chain(<<>>) /\ IsSeq(<<>>) /\ Len(<<>>) = 0
  BY ChainEmpty, NoRows
<1>3. Tip(<<>>).seq = 0
  BY <1>2, TipIs
<1>4. Chain(log) /\ Tip(log).seq = 1
  BY <1>1, <1>2, <1>3, ChainAppend DEF Init
<1>5. Chains
  BY <1>1, <1>2, <1>4 DEF Init, Chains
<1>6. Pinned
  BY <1>1, <1>4 DEF Init, Pinned
<1>7. Past
  BY <1>1 DEF Init, Past
<1>8. Exported
  BY <1>1 DEF Init, Exported, NoExport
<1>9. Filed
  BY <1>1, <1>2 DEF Init, Filed
<1> QED BY <1>5, <1>6, <1>7, <1>8, <1>9 DEF AuditInv

\* A log that goes on is pinned, or is not: then its new rows are newer than the pin,
\* or it counts as continued from before it.
LEMMA PinOrNot ==
    ASSUME AuditInv, Longer(log', log), Pin(log') \/ NoPin, copy' = copy, whole' = whole
    PROVE  Chains' /\ Pinned' /\ Past'
<1>1. Chain(log) /\ Chain(vouched) /\ Chain(copy.log) /\ Chain(whole) /\ Chain(log')
  BY DEF AuditInv, Chains, Longer
<1>2. CASE Pin(log')
  <2>1. pin' = Tip(log').seq /\ vouched' = log'
    BY <1>2 DEF Pin
  <2> QED BY <1>1, <2>1 DEF Chains, Pinned, Past
<1>3. CASE NoPin
  <2>1. pin' = pin /\ vouched' = vouched
    BY <1>3 DEF NoPin
  <2>2. Chains' /\ Pinned'
    BY <1>1, <2>1 DEF AuditInv, Chains, Pinned
  <2>3. ASSUME ~forked' PROVE ~forked /\ (log' = log \/ ~(Tip(log).seq < pin))
    BY <1>3, <2>3, Zenon DEF NoPin
  <2>4. Tip(log).seq \in Nat /\ pin \in Nat /\ Len(log) \in Nat /\ Len(log') \in Nat
    <3>1. pin = Tip(vouched).seq
      BY DEF AuditInv, Pinned
    <3> QED BY <1>1, <3>1, TipFacts, SeqFacts DEF Chain
  <2>5. ASSUME ~forked', NEW i \in 1..Len(log'), log'[i].core.seq <= pin
        PROVE  \E j \in 1..Len(vouched) : vouched[j] = log'[i]
    <3>1. CASE i \in 1..Len(log)
      <4>1. log'[i] = log[i]
        BY <3>1 DEF Longer
      <4> QED BY <2>3, <2>5, <3>1, <4>1 DEF AuditInv, Past
    <3>2. CASE i \notin 1..Len(log)
      <4>1. i > Len(log) /\ log' # log
        BY <2>4, <2>5, <3>2
      <4>2. log'[i].core.seq > Tip(log).seq /\ Tip(log).seq >= pin
        BY <2>3, <2>4, <2>5, <4>1 DEF Longer
      <4>3. log'[i].core.seq \in Nat
        BY <1>1, SeqAtLeast
      <4> QED BY <2>4, <2>5, <4>2, <4>3
    <3> QED BY <3>1, <3>2
  <2>6. Past'
    BY <2>1, <2>5 DEF Past
  <2> QED BY <2>2, <2>6
<1> QED BY <1>2, <1>3

\* A receipt is committed, and its pin comes after it.
LEMMA CommitAudit ==
    ASSUME NEW event \in Written, AuditInv, Commit(event) PROVE AuditInv'
<1>1. Chain(log) /\ log' = WithReceipt(log, event)
  BY DEF AuditInv, Chains, Commit
<1>2. /\ copy' = copy /\ whole' = whole /\ file' = file /\ up' = up /\ export' = export
      /\ Pin(log') \/ NoPin
  BY DEF Commit
<1>3. Chains' /\ Pinned' /\ Past'
  BY <1>1, <1>2, ReceiptLonger, PinOrNot
<1>4. export.on => IsPrefix(file, log')
  BY <1>1, PrefixAppend DEF AuditInv, Exported, Filed
<1>5. Exported'
  BY <1>2, <1>4 DEF AuditInv, Exported
<1>6. Filed'
  BY <1>2 DEF AuditInv, Filed
<1> QED BY <1>3, <1>5, <1>6 DEF AuditInv

\* The timer pins what is there.
LEMMA TickAudit == ASSUME AuditInv, Tick PROVE AuditInv'
<1>1. /\ Chain(log) /\ log' = log /\ Pin(log') /\ copy' = copy /\ whole' = whole
      /\ file' = file /\ up' = up /\ export' = export
  BY DEF Tick, AuditInv, Chains, Pin
<1>2. Chains' /\ Pinned' /\ Past'
  BY <1>1, SameLonger, PinOrNot
<1> QED BY <1>1, <1>2 DEF AuditInv, Exported, Filed

\* The daemon stops.
LEMMA StopAudit == ASSUME AuditInv, Stop PROVE AuditInv'
<1>1. /\ Chain(log) /\ log' = log /\ copy' = copy /\ whole' = whole
      /\ file' = file /\ up' = FALSE /\ export' = NoExport
  BY DEF Stop, AuditInv, Chains
<1>2. Pin(log') \/ NoPin
  BY <1>1 DEF Stop, Pin
<1>3. Chains' /\ Pinned' /\ Past'
  BY <1>1, <1>2, SameLonger, PinOrNot
<1>4. Exported'
  BY <1>1 DEF Exported, NoExport
<1>5. Filed'
  BY <1>1 DEF AuditInv, Filed
<1> QED BY <1>3, <1>4, <1>5 DEF AuditInv

\* The daemon starts, and pins what is there, if its clock is safe.
LEMMA StartAudit == ASSUME AuditInv, Start PROVE AuditInv'
<1>1. /\ Chain(log) /\ copy' = copy /\ whole' = whole /\ file' = file /\ export' = export /\ ~up
  BY DEF Start, AuditInv, Chains
<1>2. Chains' /\ Pinned' /\ Past'
  <2>1. CASE UNCHANGED <<log, st, pin, vouched, forked>>
    BY <1>1, <2>1 DEF AuditInv, Chains, Pinned, Past
  <2>2. CASE Recovered /\ (Pin(log') \/ NoPin)
    <3>1. Longer(Settled(log), log) /\ Chain(Settled(log))
      BY <1>1, SettledLonger DEF Longer
    <3>2. \/ log' = log \/ log' = Settled(log)
          \/ \E event : log' = WithReceipt(log, event) \/ log' = WithReceipt(Settled(log), event)
      BY <2>2 DEF Recovered
    <3>3. Longer(log', log)
      <4>1. ASSUME NEW event PROVE Longer(WithReceipt(log, event), log)
        BY <1>1, ReceiptLonger
      <4>2. ASSUME NEW event PROVE Longer(WithReceipt(Settled(log), event), log)
        <5>1. Longer(WithReceipt(Settled(log), event), Settled(log))
          BY <3>1, ReceiptLonger
        <5> QED BY <1>1, <3>1, <5>1, LongerStill
      <4> QED BY <1>1, <3>1, <3>2, <4>1, <4>2, SameLonger
    <3> QED BY <1>1, <2>2, <3>3, PinOrNot
  <2> QED BY <2>1, <2>2 DEF Start
<1>3. Exported'
  BY <1>1 DEF AuditInv, Exported
<1>4. Filed'
  BY <1>1 DEF AuditInv, Filed
<1> QED BY <1>2, <1>3, <1>4 DEF AuditInv

\* A copy is taken.
LEMMA TakeCopyAudit == ASSUME AuditInv, TakeCopy PROVE AuditInv'
<1>1. /\ log' = log /\ pin' = pin /\ vouched' = vouched /\ forked' = forked /\ up' = up
      /\ file' = file /\ whole' = whole /\ export' = export /\ copy'.log = log
  BY DEF TakeCopy
<1> QED BY <1>1 DEF AuditInv, Chains, Pinned, Past, Exported, Filed

\* A copy is put back: if it is of this log's past, what was vouched for still covers
\* its rows.
LEMMA RollbackAudit == ASSUME AuditInv, Rollback PROVE AuditInv'
<1>1. /\ log' = copy.log /\ pin' = pin /\ vouched' = vouched /\ copy' = copy /\ up' = up
      /\ file' = file /\ whole' = whole /\ export' = export /\ ~up
  BY DEF Rollback
<1>2. Chains' /\ Pinned' /\ Exported' /\ Filed'
  BY <1>1 DEF AuditInv, Chains, Pinned, Exported, Filed
<1>3. ASSUME ~forked' PROVE ~forked /\ IsPrefix(copy.log, log)
  BY <1>3, Zenon DEF Rollback
<1>4. ASSUME ~forked', NEW i \in 1..Len(copy.log), copy.log[i].core.seq <= pin
      PROVE  \E j \in 1..Len(vouched) : vouched[j] = copy.log[i]
  <2>1. IsSeq(log) /\ IsSeq(copy.log) /\ Len(log) \in Nat /\ Len(copy.log) \in Nat
    BY SeqFacts DEF AuditInv, Chains, Chain
  <2>2. i \in 1..Len(log) /\ copy.log[i] = log[i]
    BY <1>3, <1>4, <2>1, PrefixFacts
  <2> QED BY <1>3, <1>4, <2>2 DEF AuditInv, Past
<1>5. Past'
  BY <1>1, <1>4 DEF Past
<1> QED BY <1>2, <1>5 DEF AuditInv

\* A row is lost.
LEMMA LoseRowAudit == ASSUME AuditInv, LoseRow PROVE AuditInv'
<1>1. /\ pin' = pin /\ vouched' = vouched /\ copy' = copy /\ up' = up /\ forked' = forked
      /\ file' = file /\ whole' = whole /\ export' = export /\ ~up
  BY DEF LoseRow
<1>2. Chain(log') /\ Drawn(log', log)
  <2>1. Chain(log) /\ DOMAIN log = 1..Len(log)
    BY SeqFacts DEF AuditInv, Chains, Chain
  <2>2. PICK i \in 1..Len(log) : log' = RemoveAt(log, i)
    BY <2>1 DEF LoseRow
  <2> QED BY <2>1, <2>2, ChainRemove
<1>3. Chains' /\ Pinned' /\ Exported' /\ Filed'
  BY <1>1, <1>2 DEF AuditInv, Chains, Pinned, Exported, Filed
<1>4. Past'
  BY <1>1, <1>2 DEF AuditInv, Past, Drawn
<1> QED BY <1>3, <1>4 DEF AuditInv

\* An export begins.
LEMMA StartExportAudit == ASSUME AuditInv, StartExport PROVE AuditInv'
<1>1. /\ log' = log /\ pin' = pin /\ vouched' = vouched /\ copy' = copy /\ forked' = forked
      /\ up' = up /\ up /\ export' = [on |-> TRUE, after |-> 0] /\ file' = <<>> /\ whole' = <<>>
  BY DEF StartExport, daemon
<1>2. Chain(<<>>) /\ IsSeq(<<>>) /\ Len(<<>>) = 0 /\ Tip(<<>>).seq = 0
  BY ChainEmpty, NoRows, TipIs
<1>3. IsPrefix(<<>>, log)
  <2>1. IsSeq(log) /\ Len(log) \in Nat
    BY SeqFacts DEF AuditInv, Chains, Chain
  <2> QED BY <1>2, <2>1, PrefixFacts
<1>4. Chains' /\ Pinned' /\ Past'
  BY <1>1, <1>2 DEF AuditInv, Chains, Pinned, Past
<1>5. Exported'
  BY <1>1, <1>2, <1>3 DEF Exported
<1>6. Filed'
  BY <1>1, <1>2 DEF Filed
<1> QED BY <1>4, <1>5, <1>6 DEF AuditInv

\* One call of the exporter.
LEMMA ExportPageAudit == ASSUME AuditInv, ExportPage PROVE AuditInv'
<1> DEFINE entries == Page(log, export.after)
<1>1. /\ log' = log /\ pin' = pin /\ vouched' = vouched /\ copy' = copy /\ forked' = forked
      /\ up' = up /\ up /\ export.on
  BY DEF ExportPage, daemon
<1>2. Chain(log) /\ IsSeq(file) /\ IsPrefix(file, log) /\ export.after = Tip(file).seq /\ whole = <<>>
  BY <1>1 DEF AuditInv, Chains, Exported, Filed
<1>3. /\ IsSeq(file \o entries)
      /\ entries = <<>> => file = log
      /\ entries # <<>> => /\ IsPrefix(file \o entries, log)
                           /\ Tip(file \o entries).seq = Last(entries).core.seq
  BY <1>2, PageFacts
<1>4. Pinned' /\ Past'
  BY <1>1 DEF AuditInv, Pinned, Past
<1>5. CASE entries = <<>>
  <2>1. export' = NoExport /\ whole' = log /\ file' = file
    BY <1>5 DEF ExportPage
  <2>2. Chains' /\ Exported'
    BY <1>1, <2>1 DEF AuditInv, Chains, Exported, NoExport
  <2>3. Signed(file, log)
    BY <1>2, <1>3, <1>5, SignedChain
  <2>4. Filed'
    BY <1>2, <2>1, <2>3 DEF Filed
  <2> QED BY <1>4, <2>2, <2>4 DEF AuditInv
<1>6. CASE entries # <<>>
  <2>1. export' = [export EXCEPT !.after = Last(entries).core.seq] /\ file' = file \o entries /\ whole' = whole
    BY <1>6 DEF ExportPage, NextAfter
  <2> HIDE DEF entries
  <2>2. export = [on |-> export.on, after |-> export.after]
    BY DEF AuditInv, Exported
  <2>3. export' = [on |-> export.on, after |-> Last(entries).core.seq]
    BY <2>1, <2>2
  <2>4. Chains'
    BY <1>1, <2>1 DEF AuditInv, Chains
  <2>5. Exported'
    BY <1>1, <1>2, <1>3, <1>6, <2>1, <2>3 DEF Exported
  <2>6. Filed'
    BY <1>2, <1>3, <2>1 DEF Filed
  <2> QED BY <1>4, <2>4, <2>5, <2>6 DEF AuditInv
<1> QED BY <1>5, <1>6

\* The file is damaged.
LEMMA DamageFileAudit == ASSUME AuditInv, DamageFile PROVE AuditInv'
<1>1. /\ log' = log /\ pin' = pin /\ vouched' = vouched /\ copy' = copy /\ forked' = forked
      /\ up' = up /\ export' = export /\ whole' = whole /\ whole # <<>>
  BY DEF DamageFile, daemon
<1>2. Chains' /\ Pinned' /\ Past' /\ Exported'
  BY <1>1 DEF AuditInv, Chains, Pinned, Past, Exported
<1>3. IsSeq(file) /\ DOMAIN file = 1..Len(file) /\ Signed(file, whole)
  BY <1>1, SeqFacts DEF AuditInv, Filed
<1>4. PICK i \in 1..Len(file) :
        \/ file' = RemoveAt(file, i)
        \/ file' = InsertAt(file, i, file[i])
        \/ i < Len(file) /\ file' = [file EXCEPT ![i] = file[i + 1], ![i + 1] = file[i]]
        \/ LET core == [file[i].core EXCEPT !.event = "vault.conflict"]
           IN \/ file' = [file EXCEPT ![i].core = core]
              \/ file' = [file EXCEPT ![i].core = core, ![i].hash = Hash(core)]
  BY <1>3 DEF DamageFile
<1>5. CASE file' = RemoveAt(file, i)
  <2>1. IsSeq(file') /\ Drawn(file', file)
    <3> DEFINE new == RemoveAt(file, i)
    <3>1. /\ IsSeq(new) /\ Len(new) = Len(file) - 1
          /\ \A k \in 1..Len(file) - 1 : new[k] = file[IF k < i THEN k ELSE k + 1]
      BY <1>3, Removed
    <3> HIDE DEF new
    <3>2. Len(file) \in Nat
      BY <1>3, SeqFacts
    <3>3. \A k \in 1..Len(file) - 1 : (IF k < i THEN k ELSE k + 1) \in 1..Len(file)
      BY <3>2
    <3>4. Drawn(new, file)
      BY <3>1, <3>3 DEF Drawn
    <3> QED BY <1>5, <3>1, <3>4 DEF new
  <2> QED BY <1>1, <1>2, <1>3, <2>1, SignedDrawn DEF AuditInv, Filed
<1>6. CASE file' = InsertAt(file, i, file[i])
  <2>1. IsSeq(file') /\ Drawn(file', file)
    BY <1>3, <1>6, Repeated
  <2> QED BY <1>1, <1>2, <1>3, <2>1, SignedDrawn DEF AuditInv, Filed
<1>7. CASE i < Len(file) /\ file' = [file EXCEPT ![i] = file[i + 1], ![i + 1] = file[i]]
  <2>1. IsSeq(file') /\ Drawn(file', file)
    BY <1>3, <1>7, Swapped
  <2> QED BY <1>1, <1>2, <1>3, <2>1, SignedDrawn DEF AuditInv, Filed
<1> DEFINE core == [file[i].core EXCEPT !.event = "vault.conflict"]
<1>8. ASSUME \/ file' = [file EXCEPT ![i].core = core]
             \/ file' = [file EXCEPT ![i].core = core, ![i].hash = Hash(core)]
      PROVE  AuditInv'
  <2>1. /\ file[i] = [core |-> file[i].core, hash |-> file[i].hash, signature |-> file[i].signature]
        /\ file[i].core = [seq |-> file[i].core.seq, previous |-> file[i].core.previous,
                           event |-> file[i].core.event]
    BY <1>3 DEF Signed, Core
  <2>2. Core(core)
    <3>1. core = [seq |-> file[i].core.seq, previous |-> file[i].core.previous, event |-> "vault.conflict"]
      BY <2>1
    <3> QED BY <3>1 DEF Core
  <2> HIDE DEF core
  <2>3. \E h : file' = Put(file, i, [core |-> core, hash |-> h, signature |-> file[i].signature])
    <3>1. CASE file' = [file EXCEPT ![i].core = core]
      <4>1. [file[i] EXCEPT !.core = core]
            = [core |-> core, hash |-> file[i].hash, signature |-> file[i].signature]
        BY <2>1
      <4>2. file' = Put(file, i, [file[i] EXCEPT !.core = core])
        BY <1>3, <3>1 DEF Put
      <4> QED BY <4>1, <4>2
    <3>2. CASE file' = [file EXCEPT ![i].core = core, ![i].hash = Hash(core)]
      <4> DEFINE h == Hash(core)
      <4>1. file' = [file EXCEPT ![i].core = core, ![i].hash = h]
        BY <3>2
      <4> HIDE DEF h
      <4>2. Edited(file[i], core, h) = [core |-> core, hash |-> h, signature |-> file[i].signature]
        <5>1. Edited([core |-> file[i].core, hash |-> file[i].hash, signature |-> file[i].signature],
                     core, h) = [core |-> core, hash |-> h, signature |-> file[i].signature]
          BY EditedFields
        <5> QED BY <2>1, <5>1, Zenon
      <4>3. file' = Put(file, i, Edited(file[i], core, h))
        BY <1>3, <4>1 DEF Put, Edited
      <4> QED BY <4>2, <4>3
    <3> QED BY <1>8, <3>1, <3>2
  <2>4. IsSeq(file') /\ Signed(file', whole)
    BY <1>3, <2>2, <2>3, SignedEdited
  <2> QED BY <1>1, <1>2, <2>4 DEF AuditInv, Filed
<1> QED BY <1>4, <1>5, <1>6, <1>7, <1>8

\* Every step keeps it.
LEMMA NextAudit == AuditInv /\ [Next]_vars => AuditInv'
<1>1. SUFFICES ASSUME AuditInv, [Next]_vars PROVE AuditInv'
  OBVIOUS
<1>2. ASSUME UNCHANGED vars PROVE AuditInv'
  BY <1>1, <1>2 DEF vars, daemon, AuditInv, Chains, Pinned, Past, Exported, Filed
<1> QED BY <1>1, <1>2, CommitAudit, TickAudit, StopAudit, StartAudit, TakeCopyAudit, RollbackAudit,
           LoseRowAudit, StartExportAudit, ExportPageAudit, DamageFileAudit DEF Next
-----------------------------------------------------------------------------
(* The theorems. *)

\* The invariant holds throughout.
LEMMA AuditInvariant == Spec => []AuditInv
  BY InitAudit, NextAudit, PTL DEF Spec

\* Of an exported file, whatever was done to it or to the rows before, the verifiers of
\* audit.ts, audit-verify.ts and audit.py all accept exactly the gapless beginnings of the
\* log, and with the tip of the log exactly the whole of it.
THEOREM VerdictsAreRight == Spec => []VerdictIsRight
<1>1. AuditInv => VerdictIsRight
  <2>1. SUFFICES ASSUME AuditInv, whole # <<>>
                 PROVE  LET tip == <<Tip(whole).hash>>
                            beginning == IsPrefix(file, whole) /\ Gapless(file)
                            complete == file = whole /\ Gapless(file)
                        IN  /\ beginning = VerifyReceiptChain(file, NoTip)
                            /\ beginning = VerifyAuditFile(file, NoTip)
                            /\ beginning = VerifyChain(file, NoTip)
                            /\ complete = VerifyReceiptChain(file, tip)
                            /\ complete = VerifyAuditFile(file, tip)
                            /\ complete = VerifyChain(file, tip)
    BY DEF VerdictIsRight
  <2>2. IsSeq(file) /\ Chain(whole) /\ Signed(file, whole)
    BY <2>1 DEF AuditInv, Chains, Filed
  <2> QED BY <2>1, <2>2, VerdictsMean
<1> QED BY <1>1, AuditInvariant, PTL

\* An export that runs to its end leaves every receipt of that moment in its file, once and
\* in order, for any page size and however receipts are written between its calls of
\* audit.list.
THEOREM ExportsAreWhole == Spec => ExportIsWhole
<1> DEFINE Step == export.on /\ ~export'.on /\ up' => file' = log
<1>1. AuditInv /\ [Next]_vars => [Step]_vars
  <2>1. SUFFICES ASSUME AuditInv, Next, export.on, ~export'.on, up' PROVE file' = log
    OBVIOUS
  <2>2. CASE ExportPage
    <3> DEFINE entries == Page(log, export.after)
    <3>1. Chain(log) /\ IsSeq(file) /\ IsPrefix(file, log) /\ export.after = Tip(file).seq
      BY <2>1 DEF AuditInv, Chains, Exported, Filed
    <3>2. CASE entries = <<>>
      <4>1. file' = file
        BY <2>2, <3>2 DEF ExportPage
      <4>2. file = log
        BY <3>1, <3>2, PageFacts
      <4> QED BY <4>1, <4>2
    <3>3. CASE entries # <<>>
      <4>1. export' = [export EXCEPT !.after = NextAfter(@, entries)]
        BY <2>2, <3>3 DEF ExportPage
      <4> HIDE DEF entries
      <4>2. export = [on |-> export.on, after |-> export.after]
        BY <2>1 DEF AuditInv, Exported
      <4>3. export' = [on |-> export.on, after |-> NextAfter(export.after, entries)]
        BY <4>1, <4>2
      <4>4. export'.on = export.on
        BY <4>3
      <4> QED BY <2>1, <4>4
    <3> QED BY <3>2, <3>3
  <2>3. CASE StartExport
    BY <2>1, <2>3 DEF StartExport
  <2>4. ASSUME export' = export PROVE FALSE
    BY <2>1, <2>4
  <2>5. ASSUME NEW event \in Written, Commit(event) PROVE FALSE
    BY <2>1, <2>4, <2>5 DEF Commit
  <2>6. CASE Stop
    BY <2>1, <2>6 DEF Stop
  <2>7. CASE Tick \/ Start \/ TakeCopy \/ Rollback \/ LoseRow \/ DamageFile
    BY <2>4, <2>7 DEF Tick, Start, TakeCopy, Rollback, LoseRow, DamageFile
  <2> QED BY <2>1, <2>2, <2>3, <2>5, <2>6, <2>7 DEF Next
<1>2. Spec => [][Next]_vars
  BY DEF Spec
<1>3. Spec => [][Step]_vars
  BY <1>1, <1>2, AuditInvariant, PTL
<1> QED BY <1>3 DEF ExportIsWhole

\* A start of the daemon with a safe clock quarantines a session that has ended exactly
\* if its log has a gap or has lost a receipt of the last pin, except a revoked one that
\* lost the one receipt behind a snapshot.intent, whose place step 2 of recoverDaemon
\* fills before it looks: never for a crash between a commit and its pin.
THEOREM EndedLogsAreChecked == Spec => EndedLogIsChecked
<1> DEFINE Step == ~up /\ up' /\ gate' # "clock" /\ st \in {"REVOKED", "DELETED"} /\ ~forked =>
                     (st' = "QUARANTINED" <=> /\ ~Gapless(log) \/ ~IsPrefix(vouched, log)
                                              /\ ~Refilled(log))
<1>1. AuditInv /\ [Next]_vars => [Step]_vars
  <2>1. SUFFICES ASSUME AuditInv, Next, ~up, up', gate' # "clock",
                        st \in {"REVOKED", "DELETED"}, ~forked
                 PROVE  st' = "QUARANTINED" <=> /\ ~Gapless(log) \/ ~IsPrefix(vouched, log)
                                                /\ ~Refilled(log)
    OBVIOUS
  <2>2. VerifyChainIntact(Settled(log), pin) <=>
            (Gapless(log) /\ IsPrefix(vouched, log)) \/ Refilled(log)
    <3>1. Chain(log) /\ Chain(vouched) /\ pin = Tip(vouched).seq
      BY <2>1 DEF AuditInv, Chains, Pinned
    <3>2. \A i \in 1..Len(log) :
            log[i].core.seq <= pin => \E j \in 1..Len(vouched) : vouched[j] = log[i]
      BY <2>1 DEF AuditInv, Past
    <3>3. VerifyChainIntact(log, pin) <=> Gapless(log) /\ IsPrefix(vouched, log)
      BY <3>1, <3>2, IntactMeans
    <3>4. pin \in Nat
      BY <3>1, TipFacts
    <3>5. VerifyChainIntact(Settled(log), pin) <=> VerifyChainIntact(log, pin) \/ Refilled(log)
      BY <3>1, <3>4, SettledIntact
    <3> QED BY <3>3, <3>5
  <2>3. CASE Start
    <3>1. Recovered
      BY <2>1, <2>3 DEF Start
    <3>2. st' = "QUARANTINED" <=> ~VerifyChainIntact(Settled(log), pin)
      BY <2>1, <3>1 DEF Recovered
    <3> QED BY <2>2, <3>2
  <2>4. ASSUME up' = up PROVE FALSE
    BY <2>1, <2>4
  <2>5. CASE Tick \/ Stop \/ TakeCopy \/ Rollback \/ LoseRow
    BY <2>1, <2>4, <2>5 DEF Tick, Stop, TakeCopy, Rollback, LoseRow
  <2>6. CASE StartExport \/ ExportPage \/ DamageFile
    BY <2>1, <2>4, <2>6 DEF StartExport, ExportPage, DamageFile
  <2>7. ASSUME NEW event \in Written, Commit(event) PROVE FALSE
    BY <2>1, <2>7 DEF Commit
  <2> QED BY <2>1, <2>3, <2>5, <2>6, <2>7 DEF Next
<1>2. Spec => [][Next]_vars
  BY DEF Spec
<1>3. Spec => [][Step]_vars
  BY <1>1, <1>2, AuditInvariant, PTL
<1> QED BY <1>3 DEF EndedLogIsChecked
=============================================================================
