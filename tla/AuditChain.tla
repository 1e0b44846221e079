----------------------------- MODULE AuditChain -----------------------------
(***************************************************************************)
(* The receipts of one session: the hash-chained log (audit.ts), the pin   *)
(* of its tip in the keychain, the check of both when the daemon starts    *)
(* (engine.ts), the export page by page of `ghostsession audit export`     *)
(* (cli.ts) while receipts go on being written, and the three offline      *)
(* verifiers of the exported file (audit.ts, audit-verify.ts, audit.py).   *)
(* A hash is the tuple of what it covers, so equal hashes mean equal       *)
(* contents; a signature is the hash that was signed.                      *)
(***************************************************************************)
EXTENDS Naturals, SequencesExt

CONSTANTS Written,     \* the events that handlers append
          Limit,       \* receipts of a page
          Window,      \* receipts that lastIncidentEvent looks back on
          MaxLen,      \* bound on the log
          MaxStarts,   \* bound on starts of the daemon
          MaxDamage,   \* bound on losses and rollbacks of the rows
          MaxEdits     \* bound on edits of the exported file

\* block.detected and recovery.exhausted are the incidents of lastIncidentEvent;
\* vault.conflict stands for every receipt that is not named here.
Event == {"session.created", "block.detected", "recovery.exhausted", "vault.conflict",
          "snapshot.intent", "snapshot.failed", "session.revoked", "session.deleted",
          "session.quarantined", "daemon.recovered"}

ASSUME ChainAssumption == /\ Written \subseteq Event \ {"session.created"}
                          /\ Limit \in Nat \ {0} /\ Window \in Nat \ {0}
                          /\ MaxLen \in Nat /\ MaxStarts \in Nat
                          /\ MaxDamage \in Nat /\ MaxEdits \in Nat

VARIABLES log,      \* the rows of receipts, by seq
          pin,      \* the seq of ghostsession/audit-tip/<session>
          st,       \* live, REVOKED, DELETED or QUARANTINED
          up,       \* the daemon runs
          gate,     \* open, or closed by an unsafe clock or by a pin that failed
          export,   \* the exporter: where it is, or that it is not there
          file,     \* the exported lines
          copy,     \* an older copy of the database
          whole,    \* history: the log when the export ended
          vouched,  \* history: the log when it was last pinned
          forked,   \* history: since then the log was continued from before the pinned
                    \* tip, or replaced by a copy that is not of its past
          starts, damage, edits

daemon == <<log, pin, st, gate, vouched, forked, copy>>
vars == <<daemon, up, export, file, whole, starts, damage, edits>>

Genesis == <<>>
Hash(core) == <<core.seq, core.previous, core.event>>

\* tip
Tip(rows) == IF rows = <<>> THEN [seq |-> 0, hash |-> Genesis]
             ELSE [seq |-> Last(rows).core.seq, hash |-> Last(rows).hash]

\* append
WithReceipt(rows, event) ==
    LET core == [seq |-> Tip(rows).seq + 1, previous |-> Tip(rows).hash, event |-> event]
    IN  Append(rows, [core |-> core, hash |-> Hash(core), signature |-> Hash(core)])

NoExport == [on |-> FALSE, after |-> 0]

Init ==
    /\ log = WithReceipt(<<>>, "session.created")
    /\ pin = 1 /\ vouched = log
    /\ st = "live" /\ up = TRUE /\ gate = "open" /\ forked = FALSE
    /\ export = NoExport /\ file = <<>> /\ whole = <<>>
    /\ copy = [log |-> <<>>, st |-> "live"]
    /\ starts = 0 /\ damage = 0 /\ edits = 0

-----------------------------------------------------------------------------
(* The daemon. *)

\* pinAllTips
Pin(rows) == pin' = Tip(rows).seq /\ vouched' = rows /\ forked' = FALSE

\* The keychain fails, or the daemon dies before it comes to that.
NoPin ==
    /\ forked' = (forked \/ (log' # log /\ Tip(log).seq < pin))
    /\ UNCHANGED <<pin, vouched>>

\* The handlers ask for an open gate; the timers of a live session do not, nor do
\* the continuations that were under way when a pin failed.
MayCommit(event) ==
    /\ \/ st = "live" /\ event # "session.deleted"
       \/ st = "REVOKED" /\ event \in {"vault.conflict", "session.deleted"}
       \/ st = "DELETED" /\ event = "vault.conflict"
    /\ gate = "open" \/ (event = "vault.conflict" /\ (gate = "pin" \/ st = "live"))

\* A late step result or detach takes a session that has ended back to a live state.
After(event) ==
    CASE event = "session.revoked" -> {"REVOKED"}
      [] event = "session.deleted" -> {"DELETED"}
      [] OTHER -> {st, "live"}

\* commitAndPin: the receipt is committed, then the tip is pinned; a pin that fails
\* closes the gate.
Commit(event) ==
    /\ up /\ Len(log) < MaxLen /\ MayCommit(event)
    /\ log' = WithReceipt(log, event)
    /\ st' \in After(event)
    /\ \/ Pin(log') /\ UNCHANGED gate
       \/ NoPin /\ gate' = IF gate = "open" THEN "pin" ELSE gate
    /\ UNCHANGED <<up, export, file, copy, whole, starts, damage, edits>>

\* tick asks for no gate; what its timers write is a Commit.
Tick ==
    /\ up
    /\ Pin(log)
    /\ UNCHANGED <<log, st, gate, copy, up, export, file, whole, starts, damage, edits>>

\* The daemon stops, and pins what is there, or dies; the exporter's next call fails
\* and it exits.
Stop ==
    /\ up
    /\ up' = FALSE /\ export' = NoExport
    /\ UNCHANGED log
    /\ Pin(log) \/ NoPin
    /\ UNCHANGED <<st, gate, copy, file, whole, starts, damage, edits>>

\* Mutant: the check looks at the chain and forgets the pin.
VerifyChainUnpinned(rows, p) ==
    \A i \in DOMAIN rows :
        /\ rows[i].core.previous = IF i = 1 THEN Genesis ELSE rows[i - 1].hash
        /\ rows[i].hash = Hash(rows[i].core)

\* verifyChainIntact looks at neither the seqs nor the signatures, nor at the
\* hash of the pin.
VerifyChainIntact(rows, p) ==
    /\ \A i \in DOMAIN rows :
        /\ rows[i].core.previous = IF i = 1 THEN Genesis ELSE rows[i - 1].hash
        /\ rows[i].hash = Hash(rows[i].core)
    /\ Tip(rows).seq >= p

\* Step 2 of recoverDaemon: a snapshot.intent that is the last receipt has failed.
Open(rows) ==
    /\ rows # <<>> /\ Last(rows).core.event = "snapshot.intent"
    /\ st \notin {"QUARANTINED", "DELETED"}
Settled(rows) == IF Open(rows) THEN WithReceipt(rows, "snapshot.failed") ELSE rows

\* recoverDaemon: an operation in flight makes a live session UNCERTAIN and is all
\* that is seen to (step 1); otherwise the intent is settled, a live session gets
\* its daemon.recovered, and the chain of one that has ended is checked (step 4).
Recovered ==
    \/ /\ st = "live"
       /\ \/ log' = WithReceipt(log, "vault.conflict")
          \/ log' = WithReceipt(Settled(log), "daemon.recovered")
       /\ UNCHANGED st
    \/ /\ st \in {"REVOKED", "DELETED"} /\ ~VerifyChainIntact(Settled(log), pin)
       /\ log' = WithReceipt(Settled(log), "session.quarantined")
       /\ st' = "QUARANTINED"
    \/ /\ st \in {"REVOKED", "DELETED"} /\ VerifyChainIntact(Settled(log), pin)
       /\ log' = Settled(log)
       /\ UNCHANGED st
    \/ /\ st = "QUARANTINED"
       /\ UNCHANGED <<log, st>>

\* With an unsafe clock recoverDaemon returns at once.
Start ==
    /\ ~up /\ starts < MaxStarts
    /\ up' = TRUE /\ starts' = starts + 1
    /\ \/ gate' = "clock" /\ UNCHANGED <<log, st, pin, vouched, forked>>
       \/ Recovered /\ ((gate' = "open" /\ Pin(log')) \/ (gate' = "pin" /\ NoPin))
    /\ UNCHANGED <<export, file, copy, whole, damage, edits>>

-----------------------------------------------------------------------------
(* What may happen to the database outside the daemon. *)

\* A copy of the database file is set aside.
TakeCopy ==
    /\ copy' = [log |-> log, st |-> st]
    /\ copy' # copy /\ damage < MaxDamage
    /\ UNCHANGED <<log, pin, st, gate, vouched, forked, up, export, file, whole, starts, damage, edits>>

\* It is put back; the keychain is not part of it.
Rollback ==
    /\ ~up /\ copy.log # <<>> /\ copy.log # log /\ damage < MaxDamage
    /\ log' = copy.log /\ st' = copy.st
    /\ forked' = (forked \/ ~IsPrefix(copy.log, log))
    /\ damage' = damage + 1
    /\ UNCHANGED <<pin, gate, vouched, copy, up, export, file, whole, starts, edits>>

\* A row is lost.
LoseRow ==
    /\ ~up /\ damage < MaxDamage
    /\ \E i \in DOMAIN log : log' = RemoveAt(log, i)
    /\ damage' = damage + 1
    /\ UNCHANGED <<pin, st, gate, vouched, forked, copy, up, export, file, whole, starts, edits>>

-----------------------------------------------------------------------------
(* The exporter, and its file. *)

StartExport ==
    /\ up /\ ~export.on
    /\ export' = [on |-> TRUE, after |-> 0]
    /\ file' = <<>> /\ whole' = <<>>
    /\ UNCHANGED <<daemon, up, starts, damage, edits>>

\* page: the first rows by seq, Limit at most, of those behind `after`; the rows are
\* in the order of their seqs, so these follow the ones that are not behind it.
Page(rows, after) ==
    LET passed == Cardinality({i \in DOMAIN rows : rows[i].core.seq <= after})
    IN  SubSeq(rows, passed + 1, Min({passed + Limit, Len(rows)}))

\* Mutant: the next page starts where a full one would have ended.
NextAfterFull(after, entries) == after + Limit
\* next_after_seq
NextAfter(after, entries) == Last(entries).core.seq

\* One audit.list call of the exporter; an empty page ends the export.
ExportPage ==
    /\ up /\ export.on
    /\ LET entries == Page(log, export.after)
       IN  IF entries = <<>>
           THEN /\ export' = NoExport /\ whole' = log
                /\ UNCHANGED file
           ELSE /\ export' = [export EXCEPT !.after = NextAfter(@, entries)]
                /\ file' = file \o entries
                /\ UNCHANGED whole
    /\ UNCHANGED <<daemon, up, starts, damage, edits>>

\* A line of the finished file is lost, repeated, moved or edited; an edit may
\* come with a hash that fits it, but the signature stays.
DamageFile ==
    /\ whole # <<>> /\ edits < MaxEdits
    /\ edits' = edits + 1
    /\ \E i \in DOMAIN file :
        \/ file' = RemoveAt(file, i)
        \/ file' = InsertAt(file, i, file[i])
        \/ i < Len(file) /\ file' = [file EXCEPT ![i] = file[i + 1], ![i + 1] = file[i]]
        \/ LET core == [file[i].core EXCEPT !.event = "vault.conflict"]
           IN \/ file' = [file EXCEPT ![i].core = core]
              \/ file' = [file EXCEPT ![i].core = core, ![i].hash = Hash(core)]
    /\ UNCHANGED <<daemon, up, export, whole, starts, damage>>

Next ==
    \/ \E e \in Written : Commit(e)
    \/ Tick \/ Stop \/ Start \/ TakeCopy \/ Rollback \/ LoseRow
    \/ StartExport \/ ExportPage \/ DamageFile

Spec == Init /\ [][Next]_vars

-----------------------------------------------------------------------------
(* The verifiers; `tip` is the expected tip, in a sequence that is empty for none. *)

NoTip == <<>>

\* Mutant: the hash of a receipt is not recomputed.
LinkedUnhashed(lines) ==
    \A i \in DOMAIN lines :
        /\ lines[i].core.seq = i
        /\ lines[i].core.previous = IF i = 1 THEN Genesis ELSE lines[i - 1].hash
        /\ lines[i].signature = lines[i].hash

\* The loop that the three have in common.
Linked(lines) ==
    \A i \in DOMAIN lines :
        /\ lines[i].core.seq = i
        /\ lines[i].core.previous = IF i = 1 THEN Genesis ELSE lines[i - 1].hash
        /\ Hash(lines[i].core) = lines[i].hash
        /\ lines[i].signature = lines[i].hash

\* verifyReceiptChain: the tip of no receipts is the genesis hash.
VerifyReceiptChain(lines, tip) ==
    Linked(lines) /\ (tip = NoTip \/ tip = <<Tip(lines).hash>>)

\* verifyAuditFile: no receipts have no tip.
VerifyAuditFile(lines, tip) ==
    Linked(lines) /\ (tip = NoTip \/ (lines # <<>> /\ tip = <<Last(lines).hash>>))

\* verify_chain, of the Python client.
VerifyChain(lines, tip) ==
    Linked(lines) /\ (tip # NoTip => lines # <<>> /\ tip = <<Last(lines).hash>>)

-----------------------------------------------------------------------------
\* An export that ran to its end has every receipt of that moment, once and in
\* order, however its pages fell between the receipts written meanwhile.
ExportIsWhole ==
    [][export.on /\ ~export'.on /\ up' => file' = log]_vars

\* No row is missing before the last.
Gapless(rows) == \A i \in DOMAIN rows : rows[i].core.seq = i

\* Of an exported file, whatever has happened to it or to the rows before, the
\* verifiers of the daemon, of the command line and of the Python client all
\* accept exactly the gapless beginnings, and with the tip of the log exactly the
\* whole.
VerdictIsRight ==
    LET tip == <<Tip(whole).hash>>
        beginning == IsPrefix(file, whole) /\ Gapless(file)
        complete == file = whole /\ Gapless(file)
    IN  whole # <<>> =>
            /\ beginning = VerifyReceiptChain(file, NoTip)
            /\ beginning = VerifyAuditFile(file, NoTip)
            /\ beginning = VerifyChain(file, NoTip)
            /\ complete = VerifyReceiptChain(file, tip)
            /\ complete = VerifyAuditFile(file, tip)
            /\ complete = VerifyChain(file, tip)

\* One pinned receipt is gone behind a snapshot.intent, and the receipt that settles
\* the intent takes its seq.
Refilled(rows) == Open(rows) /\ Gapless(rows) /\ Tip(rows).seq + 1 = pin

\* A session that has ended is quarantined, by a start of the daemon whose clock is
\* safe, exactly if its log has a gap or no longer has all the receipts of the last
\* pin, with one exception: a revoked session that lost the one receipt behind a
\* snapshot.intent passes, because the start writes another in its place before it
\* looks.  A crash between a commit and its pin is no evidence, a log rolled back is.
\* (The hash of the pin is not compared: the log must not have been continued from
\* before the pinned tip, nor replaced by a copy that is not of its past.)
EndedLogIsChecked ==
    [][~up /\ up' /\ gate' # "clock" /\ st \in {"REVOKED", "DELETED"} /\ ~forked =>
          (st' = "QUARANTINED" <=> /\ ~Gapless(log) \/ ~IsPrefix(vouched, log)
                                   /\ ~Refilled(log))]_vars

-----------------------------------------------------------------------------
(* Formulas that do not hold of the code; see the README. *)

\* verifyChainIntact calls a chain shorter than the pin evidence for quarantine;
\* the start of the daemon asks it only of sessions that have ended.
ShorterLogIsEvidence ==
    [][~up /\ up' /\ Tip(log).seq < pin => st' = "QUARANTINED"]_vars

\* The same for a session that has ended, at a start that looks.
ShorterEndedLogIsEvidence ==
    [][~up /\ up' /\ gate' # "clock" /\ st \in {"REVOKED", "DELETED"} /\ Tip(log).seq < pin
          => st' = "QUARANTINED"]_vars

\* The pin of a session that has ended falls back only with its quarantine.
PinIsKept == [][st # "live" /\ pin' < pin => st' = "QUARANTINED"]_vars

Incident == {"block.detected", "recovery.exhausted"}
Boundary == {"session.created", "session.revoked", "session.deleted"}

\* lastIncidentEvent, over the last n receipts.
LastIncident(rows, n) ==
    LET seen == {i \in DOMAIN rows : i + n > Len(rows)
                                     /\ rows[i].core.event \in Incident \cup Boundary}
        last == rows[CHOOSE i \in seen : \A j \in seen : j <= i].core.event
    IN  IF seen # {} /\ last \in Incident THEN last ELSE "none"

\* The end of a recovery is remembered until the next incident.
IncidentIsRemembered == LastIncident(log, Window) = LastIncident(log, Len(log))
=============================================================================
