------------------------- MODULE VaultWorkerProofs -------------------------
(***************************************************************************)
(* Proofs about VaultWorker for any number of handlers, sessions, nonces,  *)
(* bodies and generations.  The argument: what a handler decided on the    *)
(* head it read (SeenAccepted) is still about the stored head when putIf   *)
(* succeeds, because putIf succeeds only if the stored head is the one     *)
(* read; and the nonce marker lets one handler at most past createNonce.   *)
(***************************************************************************)
EXTENDS VaultWorker, TLAPS

\* A handler that is about to write has a request that the code accepted
\* against the head it read.
SeenAccepted ==
    \A h \in Handler :
        /\ pc[h] # "idle" => req[h] \in Request
        /\ pc[h] = "put" => Acceptable(req[h], seen[h])

\* A write that took effect spent its nonce.
AppliedSpent == applied \subseteq nonces

IndInv == TypeOK /\ SeenAccepted /\ NonceExclusive /\ AppliedSpent

\* The initial state of the worker satisfies the inductive invariant.
LEMMA InitInd == Init => IndInv
  BY MaxGenAssumption DEF Init, IndInv, TypeOK, SeenAccepted, NonceExclusive, AppliedSpent, NoHead

\* Every step of every handler, and every stuttering step, keeps the inductive
\* invariant.
LEMMA StepInd == IndInv /\ [Next]_vars => IndInv'
<1> SUFFICES ASSUME IndInv, [Next]_vars PROVE IndInv'
  OBVIOUS
<1> USE DEF IndInv, TypeOK, SeenAccepted, NonceExclusive, AppliedSpent
<1>1. ASSUME NEW h \in Handler, ReceivePut(h) PROVE IndInv'
  BY <1>1 DEF ReceivePut
<1>2. ASSUME NEW h \in Handler, CreateNonce(h) PROVE IndInv'
  <2>1. req[h] \in Request /\ req[h].nonce \in Nonce
    BY <1>2 DEF CreateNonce, Request
  <2> QED BY <1>2, <2>1 DEF CreateNonce, Respond
<1>3. ASSUME NEW h \in Handler, GetExisting(h) PROVE IndInv'
  <2>1. req[h] \in Request /\ heads[req[h].session] \in Head \cup {NoHead}
    BY <1>3 DEF GetExisting, Request
  <2> QED BY <1>3, <2>1 DEF GetExisting, Respond
<1>4. ASSUME NEW h \in Handler, PutIf(h) PROVE IndInv'
  <2>1. req[h] \in Request /\ req[h].nonce \in Nonce /\ req[h].head \in Head
    BY <1>4 DEF PutIf, Request
  <2> QED BY <1>4, <2>1 DEF PutIf, Respond
<1>5. ASSUME NEW h \in Handler, Abort(h) PROVE IndInv'
  BY <1>5 DEF Abort, Respond
<1>6. ASSUME NEW n \in Nonce, HandleGet(n) PROVE IndInv'
  BY <1>6 DEF HandleGet
<1>7. CASE UNCHANGED vars
  BY <1>7 DEF vars, Acceptable
<1> QED BY <1>1, <1>2, <1>3, <1>4, <1>5, <1>6, <1>7 DEF Next

\* The inductive invariant holds in every reachable state.
LEMMA AlwaysInd == Spec => []IndInv
  BY InitInd, StepInd, PTL DEF Spec

\* The worker's variables keep their types (verifyProof, handleVaultPut).
THEOREM TypeCorrect == Spec => []TypeOK
  BY AlwaysInd, PTL DEF IndInv

\* createNonce hands a nonce to one handler at most, and never again after its
\* write took effect.
THEOREM NonceIsExclusive == Spec => []NonceExclusive
  BY AlwaysInd, PTL DEF IndInv

\* The head a successful putIf replaces is the one the handler's checks were made
\* on: the write is the atomic one of the abstract register.
LEMMA StepRegister == IndInv /\ [Next]_vars => [Register!Next]_Register!vars
<1> SUFFICES ASSUME IndInv, [Next]_vars PROVE [Register!Next]_Register!vars
  OBVIOUS
<1> USE DEF Register!vars
<1>1. ASSUME NEW h \in Handler, PutIf(h) PROVE [Register!Next]_Register!vars
  <2> DEFINE s == req[h].session
             n == req[h].nonce
             old == seen[h]
             new == req[h].head
  <2>1. req[h] \in Request /\ Acceptable(req[h], old) /\ n \notin applied
    BY <1>1 DEF PutIf, IndInv, SeenAccepted, NonceExclusive
  <2>2. s \in Session /\ n \in Nonce /\ new \in Head
    BY <2>1 DEF Request
  <2>3. CASE ~TagMatches(h)
    BY <1>1, <2>3 DEF PutIf
  <2>4. CASE TagMatches(h)
    <3>1. /\ heads[s] = old
          /\ heads' = [heads EXCEPT ![s] = new]
          /\ applied' = applied \cup {n}
      BY <1>1, <2>4 DEF PutIf, TagMatches
    <3>2. ~old.deleted /\ new.generation > old.generation
      <4>1. CASE old # NoHead
        BY <2>1, <4>1 DEF Acceptable
      <4>2. CASE old = NoHead
        BY <2>1, <2>2, <4>2, MaxGenAssumption DEF Acceptable, NoHead, Head
      <4> QED BY <4>1, <4>2
    <3>3. old = NoHead => ~new.deleted
      BY <2>1 DEF Acceptable
    <3>4. Register!Put(s, n, old, new)
      BY <2>1, <3>1, <3>2, <3>3 DEF Register!Put, Register!Accepts, Register!NoHead, NoHead
    <3>5. s \in Session /\ n \in Nonce /\ new \in Register!Head /\ heads[s] = old
      BY <2>2, <3>1 DEF Register!Head, Head
    <3> QED BY <3>4, <3>5 DEF Register!Next
  <2> QED BY <2>3, <2>4
<1>2. CASE UNCHANGED <<heads, applied>>
  BY <1>2
<1> QED BY <1>1, <1>2 DEF Next, vars, ReceivePut, CreateNonce, GetExisting, Abort, HandleGet

\* handleVaultPut implements the atomic register: for every number of concurrent
\* handlers, its non-atomic get and putIf are one compare-and-set.
THEOREM ImplementsRegister == Spec => AtomicRegister
<1>1. Init => Register!Init
  BY DEF Init, Register!Init, Register!NoHead, NoHead
<1> QED BY <1>1, AlwaysInd, StepRegister, PTL DEF Spec, AtomicRegister, Register!Spec

\* "Tombstones are permanent", for every interleaving of any number of handlers.
THEOREM TombstonesStay == Spec => TombstonePermanent
<1>1. IndInv /\ [Next]_vars =>
        [\A s \in Session : heads[s].deleted => heads'[s] = heads[s]]_vars
  BY StepRegister DEF Register!Next, Register!Put, Register!Accepts, Register!vars, IndInv, TypeOK
<1> QED BY <1>1, AlwaysInd, PTL DEF Spec, TombstonePermanent

\* "Generations strictly advance", for every interleaving of any number of
\* handlers.
THEOREM GenerationsAdvance == Spec => GenerationAdvances
<1>1. IndInv /\ [Next]_vars =>
        [\A s \in Session : heads'[s] # heads[s] =>
            heads'[s].generation > heads[s].generation]_vars
  BY StepRegister DEF Register!Next, Register!Put, Register!Accepts, Register!vars, IndInv, TypeOK
<1> QED BY <1>1, AlwaysInd, PTL DEF Spec, GenerationAdvances
=============================================================================
