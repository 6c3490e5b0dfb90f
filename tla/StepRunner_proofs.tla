------------------------- MODULE StepRunner_proofs -------------------------
(***************************************************************************)
(* What the transitions of StepRunner preserve, for any steps, retries and   *)
(* faults.  The proofs about the action modules rest on these lemmas.        *)
(***************************************************************************)
EXTENDS StepRunner, TLAPS

\* Every transition of one runner's step.
StepMove(r) ==
    \/ Begin(r) \/ Planned(r) \/ Refused(r) \/ (\E v \in BOOLEAN : Executed(r, v))
    \/ WriteRefused(r) \/ WriteFails(r) \/ Verified(r) \/ VerifyTimesOut(r)
    \/ ReadFails(r) \/ Retry(r)

\* What StepTypeOK needs to be inductive: an attempt that is yet to begin is
\* within the budget.
WithinBudget == \A r \in Busy : phase[r] = "pending" => attempt[r] <= plan[r].retries

StepTyped == StepTypeOK /\ WithinBudget

LEMMA BusyRunners ==
    ASSUME StepTypeOK
    PROVE  /\ Busy \subseteq Runners
           /\ \A r \in Busy : plan[r].retries \in Nat /\ plan[r].dryRun \in BOOLEAN
  BY StepRunnerAssumption DEF StepTypeOK, Busy

LEMMA StepTypedInit ==
    ASSUME StepInit
    PROVE  StepTyped
  <1>1. StepTypeOK
    <2>1. \A r \in Busy : r \in Runners /\ plan[r].retries \in Nat
      BY StepRunnerAssumption DEF StepInit, Busy
    <2> QED BY <2>1, StepRunnerAssumption DEF StepInit, StepTypeOK, Phases
  <1>2. \A r \in Busy : r \in Runners /\ plan[r].retries \in Nat
    BY <1>1, BusyRunners
  <1> QED BY <1>1, <1>2 DEF StepTyped, WithinBudget, StepInit

\* A transition touches the step it is of, begins no attempt beyond the budget
\* and never moves a step that has come to a final end.
LEMMA MoveOfStep ==
    ASSUME StepTyped, NEW r \in Busy, StepMove(r)
    PROVE  /\ plan' = plan
           /\ phase' = [phase EXCEPT ![r] = phase'[r]] /\ phase'[r] \in Phases
           /\ \A q \in Runners \ {r} : phase'[q] = phase[q] /\ attempt'[q] = attempt[q]
           /\ attempt'[r] \in {attempt[r], attempt[r] + 1}
           /\ attempt' \in [Runners -> Nat]
           /\ ~Over(r)
           /\ StepTyped'
  <1>1. r \in Runners /\ plan[r].retries \in Nat
    BY BusyRunners DEF StepTyped
  <1>2. /\ plan' = plan
        /\ phase' = [phase EXCEPT ![r] = phase'[r]] /\ phase'[r] \in Phases
        /\ ~Over(r)
    <2> USE <1>1 DEF StepTyped, StepTypeOK, Phases, Ended, Working, Goes, Over
    <2>1. CASE Begin(r) \/ Retry(r)
      BY <2>1 DEF Begin, Retry
    <2>2. CASE Planned(r) \/ Refused(r)
      BY <2>2 DEF Planned, Refused
    <2>3. CASE \E v \in BOOLEAN : Executed(r, v)
      BY <2>3 DEF Executed
    <2>4. CASE WriteRefused(r) \/ WriteFails(r) \/ Verified(r) \/ VerifyTimesOut(r) \/ ReadFails(r)
      BY <2>4 DEF WriteRefused, WriteFails, Verified, VerifyTimesOut, ReadFails
    <2> QED BY <2>1, <2>2, <2>3, <2>4 DEF StepMove
  <1>3. \/ attempt' = [attempt EXCEPT ![r] = @ + 1] /\ phase[r] = "pending" /\ phase'[r] # "pending"
        \/ attempt' = attempt /\ (phase'[r] = "pending" => attempt[r] <= plan[r].retries)
    <2> USE <1>1 DEF StepTyped, StepTypeOK, Goes
    <2>1. CASE Begin(r)
      BY <2>1 DEF Begin
    <2>2. CASE Retry(r)
      BY <2>2 DEF Retry
    <2>3. CASE Planned(r) \/ Refused(r)
      BY <2>3 DEF Planned, Refused
    <2>4. CASE \E v \in BOOLEAN : Executed(r, v)
      BY <2>4 DEF Executed
    <2>5. CASE WriteRefused(r) \/ WriteFails(r) \/ Verified(r) \/ VerifyTimesOut(r) \/ ReadFails(r)
      BY <2>5 DEF WriteRefused, WriteFails, Verified, VerifyTimesOut, ReadFails
    <2> QED BY <2>1, <2>2, <2>3, <2>4, <2>5 DEF StepMove
  <1>4. faults' \in 0..MaxFaults
    BY StepRunnerAssumption DEF StepTyped, StepTypeOK, StepMove, Begin, Retry, Planned, Refused,
       Executed, WriteRefused, WriteFails, Verified, VerifyTimesOut, ReadFails
  <1>5. attempt[r] \in Nat /\ attempt \in [Runners -> Nat] /\ phase \in [Runners -> Phases]
    BY <1>1 DEF StepTyped, StepTypeOK
  <1>6. /\ attempt' \in [Runners -> Nat] /\ attempt'[r] \in {attempt[r], attempt[r] + 1}
        /\ \A q \in Runners \ {r} : phase'[q] = phase[q] /\ attempt'[q] = attempt[q]
    BY <1>1, <1>2, <1>3, <1>5
  <1>7. \A q \in Busy : q \in Runners /\ plan[q].retries \in Nat /\ attempt[q] <= plan[q].retries + 1
                        /\ (phase[q] = "pending" => attempt[q] <= plan[q].retries)
    BY BusyRunners DEF StepTyped, StepTypeOK, WithinBudget
  <1>8. \A q \in Busy : attempt'[q] <= plan[q].retries + 1
                        /\ (phase'[q] = "pending" => attempt'[q] <= plan[q].retries)
    <2> SUFFICES ASSUME NEW q \in Busy
                 PROVE  attempt'[q] <= plan[q].retries + 1
                        /\ (phase'[q] = "pending" => attempt'[q] <= plan[q].retries)
      OBVIOUS
    <2>1. CASE q # r
      BY <1>6, <1>7, <2>1
    <2>2. CASE q = r
      <3>1. attempt' = [attempt EXCEPT ![r] = @ + 1] => attempt'[r] = attempt[r] + 1
        BY <1>1, <1>5
      <3> QED BY <1>3, <1>5, <1>7, <2>2, <3>1
    <2> QED BY <2>1, <2>2
  <1>9. phase' \in [Runners -> Phases]
    BY <1>2, <1>5
  <1>10. StepTyped'
    BY <1>2, <1>4, <1>6, <1>8, <1>9 DEF StepTyped, StepTypeOK, WithinBudget, Busy
  <1> QED BY <1>2, <1>6, <1>10

\* A step that is ended from outside its transitions keeps its budget too.
LEMMA EndOfStep ==
    ASSUME StepTyped, NEW r \in Busy, NEW to \in Phases \ {"pending"},
           phase' = [phase EXCEPT ![r] = to], UNCHANGED <<plan, attempt, faults>>
    PROVE  /\ phase'[r] = to /\ \A q \in Runners \ {r} : phase'[q] = phase[q]
           /\ StepTyped'
  <1>1. \A q \in Busy : q \in Runners
    BY BusyRunners DEF StepTyped
  <1>2. phase' \in [Runners -> Phases] /\ phase'[r] = to
        /\ \A q \in Runners \ {r} : phase'[q] = phase[q]
    BY <1>1 DEF StepTyped, StepTypeOK
  <1>3. WithinBudget'
    BY <1>1, <1>2 DEF StepTyped, WithinBudget, Busy
  <1>4. StepTypeOK'
    BY <1>2 DEF StepTyped, StepTypeOK, Busy
  <1> QED BY <1>2, <1>3, <1>4 DEF StepTyped

\* The death of the process interrupts what was in flight and nothing else.
LEMMA DeathOfSteps ==
    ASSUME StepTyped, Die
    PROVE  /\ plan' = plan /\ attempt' = attempt
           /\ \A q \in Runners :
                phase'[q] = IF phase[q] \in Working THEN "interrupted" ELSE phase[q]
           /\ StepTyped'
  <1>1. phase' \in [Runners -> Phases]
    BY DEF Die, StepTyped, StepTypeOK, Phases, Ended
  <1>2. \A q \in Busy : q \in Runners
    BY BusyRunners DEF StepTyped
  <1>3. \A q \in Runners : phase'[q] = "pending" => phase[q] = "pending"
    BY DEF Die
  <1>4. faults' \in 0..MaxFaults
    BY StepRunnerAssumption DEF Die, StepTyped, StepTypeOK
  <1>5. WithinBudget'
    BY <1>2, <1>3 DEF Die, StepTyped, WithinBudget, Busy
  <1>6. StepTypeOK'
    BY <1>1, <1>2, <1>4 DEF Die, StepTyped, StepTypeOK, Busy
  <1> QED BY <1>5, <1>6 DEF Die, StepTyped
=============================================================================
