------------------------ MODULE TaskManager_proofs -------------------------
(***************************************************************************)
(* Proofs about TaskManager: for any set of tasks, a task runs only after  *)
(* everything it depends on is decided, and never after a failure.         *)
(***************************************************************************)
EXTENDS TaskManager, TLAPS

\* A dependency has been submitted; a task not yet submitted has none.
DepsSubmitted ==
    \A t \in Tasks :
        /\ st[t] = "none" => deps[t] = {}
        /\ \A d \in deps[t] : st[d] # "none"

\* Both safety properties at once: what a task that has begun depended on is
\* complete, or has been cleared since.
Settled ==
    \A t \in Tasks : st[t] \in {"running", "complete"} =>
        \A d \in deps[t] : st[d] \in {"complete", "cleared"}

IInv == TMTypeOK /\ DepsSubmitted /\ Settled

\* Initially nothing is submitted.
LEMMA InitInv == TMInit => IInv
BY DEF TMInit, IInv, TMTypeOK, DepsSubmitted, Settled

\* Submitting a batch: its dependencies are submitted before it or with it, and
\* nothing of it has begun.
LEMMA SubmitInv ==
    ASSUME IInv,
           NEW S \in SUBSET Tasks, NEW D \in [S -> SUBSET Tasks],
           Submit(S, D)
    PROVE  IInv'
<1>1. TMTypeOK'
  BY DEF IInv, TMTypeOK, Submit
<1>2. DepsSubmitted'
  <2> SUFFICES ASSUME NEW t \in Tasks
               PROVE  /\ st'[t] = "none" => deps'[t] = {}
                      /\ \A d \in deps'[t] : st'[d] # "none"
      BY DEF DepsSubmitted
  <2>1. CASE t \in S
      BY <2>1 DEF IInv, TMTypeOK, Submit
  <2>2. CASE t \notin S
      BY <2>2 DEF IInv, TMTypeOK, DepsSubmitted, Submit
  <2> QED BY <2>1, <2>2
<1>3. Settled'
  <2> SUFFICES ASSUME NEW t \in Tasks, st'[t] \in {"running", "complete"},
                      NEW d \in deps'[t]
               PROVE  st'[d] \in {"complete", "cleared"}
      BY DEF Settled
  <2>1. t \notin S /\ st'[t] = st[t] /\ deps'[t] = deps[t]
      BY DEF IInv, TMTypeOK, Submit
  <2>2. d \in Tasks /\ st[d] \in {"complete", "cleared"}
      BY <2>1 DEF IInv, TMTypeOK, Settled
  <2>3. d \notin S
      BY <2>2 DEF Submit
  <2> QED BY <2>2, <2>3 DEF IInv, TMTypeOK, Submit
<1> QED BY <1>1, <1>2, <1>3 DEF IInv

\* A task whose watched dependencies are all complete may run: what it no
\* longer watches has been cleared.
LEMMA RunInv ==
    ASSUME IInv, NEW t \in Tasks, Run(t)
    PROVE  IInv'
<1>1. TMTypeOK'
  BY DEF IInv, TMTypeOK, Run
<1>2. DepsSubmitted'
  BY DEF IInv, TMTypeOK, DepsSubmitted, Run
<1>3. \A d \in deps[t] : d # t /\ st[d] \in {"complete", "cleared"}
  BY DEF IInv, TMTypeOK, DepsSubmitted, Run, Watched, Known
<1>4. Settled'
  <2> SUFFICES ASSUME NEW u \in Tasks, st'[u] \in {"running", "complete"},
                      NEW d \in deps'[u]
               PROVE  st'[d] \in {"complete", "cleared"}
      BY DEF Settled
  <2>1. CASE u = t
      BY <1>3, <2>1 DEF IInv, TMTypeOK, Run
  <2>2. CASE u # t
      BY <2>2 DEF IInv, TMTypeOK, Settled, Run
  <2> QED BY <2>1, <2>2
<1> QED BY <1>1, <1>2, <1>4 DEF IInv

\* A task that ends, or gives up waiting, is not among the finished or cleared
\* ones anybody relies on.
LEMMA EndInv ==
    ASSUME IInv, NEW t \in Tasks, DependencyFailed(t) \/ Complete(t) \/ Fail(t)
    PROVE  IInv'
<1> USE DEF IInv, TMTypeOK, DependencyFailed, Complete, Fail
<1>1. TMTypeOK'
  OBVIOUS
<1>2. DepsSubmitted'
  BY DEF DepsSubmitted
<1>3. Settled'
  BY DEF Settled
<1> QED BY <1>1, <1>2, <1>3

\* Clearing tasks, or losing them all, keeps what is submitted submitted.
LEMMA ForgetInv ==
    ASSUME IInv, ClearFinished \/ LoseAll
    PROVE  IInv'
<1> USE DEF IInv, TMTypeOK, ClearFinished, LoseAll
<1>1. TMTypeOK'
  OBVIOUS
<1>2. DepsSubmitted'
  BY DEF DepsSubmitted
<1>3. Settled'
  BY DEF Settled
<1> QED BY <1>1, <1>2, <1>3

\* IInv is an inductive invariant.
THEOREM Invariance == Spec => []IInv
<1>1. IInv /\ [Next]_tmVars => IInv'
  <2> SUFFICES ASSUME IInv, [Next]_tmVars PROVE IInv'
      OBVIOUS
  <2>1. ASSUME NEW t \in Tasks, NEW D \in SUBSET {d \in Tasks : st[d] # "none"},
               Submit({t}, [u \in {t} |-> D])
        PROVE  IInv'
      BY <2>1, SubmitInv
  <2>2. ASSUME NEW t \in Tasks, DependencyFailed(t) \/ Complete(t) \/ Fail(t)
        PROVE  IInv'
      BY <2>2, EndInv
  <2>3. ASSUME NEW t \in Tasks, Run(t) PROVE IInv'
      BY <2>3, RunInv
  <2>4. CASE ClearFinished \/ LoseAll
      BY <2>4, ForgetInv
  <2>5. CASE UNCHANGED tmVars
      BY <2>5 DEF IInv, TMTypeOK, DepsSubmitted, Settled, tmVars
  <2> QED BY <2>1, <2>2, <2>3, <2>4, <2>5 DEF Next
<1> QED BY InitInv, <1>1, PTL DEF Spec

\* The statuses and dependencies are what they are meant to be.
THEOREM TypeCorrect == Spec => []TMTypeOK
<1>1. IInv => TMTypeOK
  BY DEF IInv
<1> QED BY <1>1, Invariance, PTL

\* manager.py:64: a task does not start before its dependencies have ended.
THEOREM RunsLast == Spec => []RunsAfterDependencies
<1>1. IInv => RunsAfterDependencies
  BY DEF IInv, Settled, RunsAfterDependencies
<1> QED BY <1>1, Invariance, PTL

\* manager.py:71: a task does not start when a dependency has failed.
THEOREM FailureStops == Spec => []NeverAfterFailure
<1>1. IInv => NeverAfterFailure
  BY DEF IInv, Settled, NeverAfterFailure
<1> QED BY <1>1, Invariance, PTL
=============================================================================
