-------------------------- MODULE ThreadRunsProofs --------------------------
(***************************************************************************)
(* Proofs about ThreadRuns, for any number of messages, attempts and       *)
(* redeliveries.                                                           *)
(***************************************************************************)
EXTENDS ThreadRuns, TLAPS, WellFoundedInduction

-----------------------------------------------------------------------------
(* A batch of pending rows has a first and a latest message.               *)

\* A nonempty set of numbers has a least one.
LEMMA Least ==
    ASSUME NEW S \in SUBSET Nat, S # {}
    PROVE  \E x \in S : \A y \in S : x <= y
<1>1. PICK x \in S : \A y \in S : ~ (<<y, x>> \in OpToRel(<, Nat))
  BY NatLessThanWellFounded, WFMin
<1>2. \A y \in S : ~ (y < x)
  BY <1>1 DEF OpToRel
<1> QED
  BY <1>2

\* The earliest pending row.
LEMMA FirstType ==
    ASSUME NEW rows \in SUBSET Message, rows # {}
    PROVE  First(rows) # {} /\ First(rows) \subseteq rows
<1>1. rows \in SUBSET Nat
  BY DEF Message
<1>2. \E x \in rows : \A y \in rows : x <= y
  BY <1>1, Least
<1> QED
  BY <1>2 DEF First

\* A drain takes some rows, and only pending ones.
LEMMA BatchType ==
    ASSUME NEW rows \in SUBSET Message, rows # {}
    PROVE  Batch(rows) # {} /\ Batch(rows) \subseteq rows
BY FirstType DEF Batch

\* The message a follow-up run is triggered by is the latest of its batch.
LEMMA LatestType ==
    ASSUME NEW batch \in SUBSET Message, batch # {}
    PROVE  Latest(batch) \in batch
<1> DEFINE T == {Messages - m : m \in batch}
<1>1. batch \subseteq Nat /\ \A m \in batch : m <= Messages
  BY MessagesAssumption DEF Message
<1>2. T \in SUBSET Nat /\ T # {}
  <2>1. ASSUME NEW m \in batch PROVE Messages - m \in Nat
    BY <1>1, MessagesAssumption
  <2> QED
    BY <2>1
<1>3. PICK t \in T : \A u \in T : t <= u
  BY <1>2, Least
<1>4. PICK m \in batch : t = Messages - m
  OBVIOUS
<1>5. \A k \in batch : k <= m
  BY <1>1, <1>3, <1>4, MessagesAssumption
<1> QED
  BY <1>5 DEF Latest

\* ... or, for scheduled work, the hidden kickoff message.
LEMMA TriggerType ==
    ASSUME NEW batch \in SUBSET Message, batch # {}
    PROVE  Trigger(batch) \in batch \cup {Kickoff}
BY LatestType DEF Trigger

-----------------------------------------------------------------------------
(* Types.                                                                  *)

RunRow == [status : Status, trigger : Input,
           fed : SUBSET Message, continues : Run \cup {NoRun}]

\* What the bounds say of the names of runs.
LEMMA RunType ==
    /\ MaxRuns \in Nat
    /\ \A r \in Run : r \in Nat /\ r > 0 /\ r <= MaxRuns /\ r # NoRun
    /\ \A n \in Run \cup {0} : n < MaxRuns => n + 1 \in Run
BY MessagesAssumption, BoundsAssumption DEF MaxRuns, Run, NoRun

\* Rows are numbered as they are made, so the next one is still blank.
Numbered ==
    \A r \in Run : /\ r > made => run[r] = NoSuchRun
                   /\ r <= made => run[r].status # "none"

\* Only a run leaves a checkpoint.
SavedByRuns == \A r \in saved : run[r].status # "none"

TInv == TypeOK /\ Numbered /\ SavedByRuns

\* The initial state is well typed.
LEMMA InitTInv == Init => TInv
BY RunType, MessagesAssumption, BoundsAssumption
   DEF Init, TInv, TypeOK, Numbered, SavedByRuns, NoSuchRun, Status, Run, NoRun, Message,
       Input

\* A run starts as a row behind all others.
LEMMA StartType ==
    ASSUME TInv, NEW trigger \in Input, NEW fed \in SUBSET Message,
           NEW continues \in Run \cup {NoRun},
           made < MaxRuns, made' = made + 1,
           run' = [run EXCEPT ![made + 1] = New(trigger, fed, continues)]
    PROVE  /\ made + 1 \in Run
           /\ made' \in Run \cup {0}
           /\ run' \in [Run -> RunRow]
           /\ Numbered'
           /\ run[made + 1] = NoSuchRun
<1> USE DEF TInv, TypeOK
<1>1. made + 1 \in Run /\ made \in Nat
  BY RunType
<1>2. New(trigger, fed, continues) \in RunRow
  BY DEF New, RunRow, Status, Active
<1>3. run' \in [Run -> RunRow]
  BY <1>1, <1>2 DEF RunRow
<1>4. New(trigger, fed, continues).status # "none"
  BY DEF New
<1>5. Numbered'
  BY <1>1, <1>4, RunType DEF Numbered
<1>6. run[made + 1] = NoSuchRun
  BY <1>1, RunType DEF Numbered
<1> QED
  BY <1>1, <1>3, <1>5, <1>6

\* A status write leaves the rest of the row, and the other rows.
LEMMA SetType ==
    ASSUME TInv, NEW r \in Run, run[r].status # "none", NEW s \in Active \cup Terminal,
           Set(r, s), UNCHANGED made
    PROVE  /\ run' \in [Run -> RunRow]
           /\ Numbered'
           /\ run'[r] = [run[r] EXCEPT !.status = s]
           /\ \A q \in Run : /\ run'[q].trigger = run[q].trigger
                             /\ run'[q].fed = run[q].fed
                             /\ run'[q].continues = run[q].continues
                             /\ run'[q].status = IF q = r THEN s ELSE run[q].status
<1> USE DEF TInv, TypeOK, Set
<1>1. run' = [run EXCEPT ![r] = [run[r] EXCEPT !.status = s]]
  OBVIOUS
<1>2. [run[r] EXCEPT !.status = s] = [status |-> s, trigger |-> run[r].trigger,
                                      fed |-> run[r].fed, continues |-> run[r].continues]
  BY DEF RunRow
<1>3. run' \in [Run -> RunRow]
  BY <1>1, <1>2 DEF RunRow, Status
<1>4. ~(r > made) /\ s # "none"
  BY DEF Numbered, NoSuchRun, Active, Running, Terminal
<1>5. Numbered'
  BY <1>1, <1>2, <1>4, RunType DEF Numbered
<1> QED
  BY <1>1, <1>2, <1>3, <1>5

-----------------------------------------------------------------------------
(* What a step does to the runs: it writes a status, or it makes one run.  *)

Kept(q) ==
    /\ run'[q].trigger = run[q].trigger
    /\ run'[q].fed = run[q].fed
    /\ run'[q].continues = run[q].continues

\* No run is made, and none that was over is active again.
NoneMade ==
    \A q \in Run : Kept(q) /\ (run'[q].status \in Active => run[q].status \in Active)

\* One run is made ...
Made(trigger, fed, continues) ==
    /\ made + 1 \in Run
    /\ run[made + 1] = NoSuchRun
    /\ run'[made + 1] = New(trigger, fed, continues)
    /\ \A q \in Run : q > made + 1 => run'[q] = NoSuchRun
    /\ \A q \in Run \ {made + 1} : Kept(q)

\* ... and no other is active then,
OneMade(trigger, fed, continues) ==
    /\ Made(trigger, fed, continues)
    /\ \A q \in Run \ {made + 1} : run'[q].status \notin Active

\* or it is a handoff's, beside whatever there is.
HandsOver ==
    /\ Made(HandOver, {}, NoRun)
    /\ \A q \in Run \ {made + 1} : run'[q] = run[q]
    /\ UNCHANGED <<decide, pend, consumer>>

\* A step that is neither a decision nor a drain nor makes a run.
Quiet ==
    /\ NoneMade /\ UNCHANGED pend
    /\ \A m \in Message : decide'[m] = "done" => decide[m] = "done"
    /\ \/ UNCHANGED consumer
       \/ \E r \in Run, c \in Unconsumed : consumer' = [consumer EXCEPT ![c] = r]

\* Run r is made again, or continued by a run that takes its checkpoint.
Follows(r) ==
    /\ UNCHANGED <<decide, pend>>
    /\ \/ OneMade(run[r].trigger, {}, NoRun) /\ UNCHANGED consumer
       \/ /\ OneMade(run[r].trigger, {}, r)
          /\ consumer[r] = NoRun /\ consumer' = [consumer EXCEPT ![r] = made + 1]

\* A decision on m.
Decides(m) ==
    /\ decide' \in {decide, [decide EXCEPT ![m] = "done"]} /\ UNCHANGED consumer
    /\ \/ Delivered(m) /\ NoneMade /\ UNCHANGED pend
       \/ ~Delivered(m) /\ NoneMade /\ pend' = pend \cup {m}
       \/ ~Delivered(m) /\ OneMade(m, {m}, NoRun) /\ UNCHANGED pend

\* A drain of one batch.
Drains(batch) ==
    /\ OneMade(Trigger(batch), batch, NoRun)
    /\ pend' = pend \ batch /\ UNCHANGED <<decide, consumer>>

Shape ==
    \/ Quiet
    \/ \E r \in Run : run[r].status # "none" /\ Follows(r)
    \/ \E m \in Message : Decides(m)
    \/ \E batch \in SUBSET pend : batch # {} /\ Drains(batch)
    \/ HandsOver

\* A start makes one run and leaves the other rows.
LEMMA StartMakes ==
    ASSUME TInv,
           NEW trigger \in Input, NEW fed \in SUBSET Message,
           NEW continues \in Run \cup {NoRun}, Start(New(trigger, fed, continues))
    PROVE  /\ Made(trigger, fed, continues)
           /\ \A q \in Run \ {made + 1} : run'[q] = run[q]
           /\ made' \in Run \cup {0} /\ run' \in [Run -> RunRow] /\ Numbered'
<1>1. /\ made + 1 \in Run
      /\ made' \in Run \cup {0}
      /\ run' \in [Run -> RunRow]
      /\ Numbered'
      /\ run[made + 1] = NoSuchRun
  BY StartType DEF Start
<1>2. run'[made + 1] = New(trigger, fed, continues)
  BY <1>1 DEF Start, TInv, TypeOK
<1>3. \A q \in Run : q > made + 1 => run'[q] = NoSuchRun
  BY <1>1, RunType DEF Numbered, Start, TInv, TypeOK
<1>4. \A q \in Run \ {made + 1} : run'[q] = run[q]
  BY DEF Start, TInv, TypeOK
<1> QED
  BY <1>1, <1>2, <1>3, <1>4 DEF Made, Kept

\* In a free slot the run is the only active one.
LEMMA StartMakesOne ==
    ASSUME TInv, ~SlotBusy,
           NEW trigger \in Input, NEW fed \in SUBSET Message,
           NEW continues \in Run \cup {NoRun}, Start(New(trigger, fed, continues))
    PROVE  /\ OneMade(trigger, fed, continues)
           /\ made' \in Run \cup {0} /\ run' \in [Run -> RunRow] /\ Numbered'
BY StartMakes DEF OneMade, SlotBusy

\* A status write to a run that is active, or to one that is not active after
\* it, makes none.
LEMMA SetMakesNone ==
    ASSUME TInv, NEW r \in Run, run[r].status # "none", NEW s \in Active \cup Terminal,
           s \in Active => run[r].status \in Active,
           Set(r, s), UNCHANGED made
    PROVE  NoneMade /\ run' \in [Run -> RunRow] /\ Numbered'
BY SetType DEF NoneMade, Kept

\* A row nothing touched makes none either.
LEMMA SameMakesNone ==
    ASSUME TInv, UNCHANGED <<run, made>>
    PROVE  NoneMade /\ run' \in [Run -> RunRow] /\ Numbered'
BY DEF NoneMade, Kept, TInv, TypeOK, Numbered, RunRow

\* Every step keeps the types and has one of these shapes.
LEMMA Steps == TInv /\ Next => TInv' /\ Shape
<1> SUFFICES ASSUME TInv, Next PROVE TInv' /\ Shape
  OBVIOUS
<1> USE DEF TInv, TypeOK, resumeVars, Extra, Active, Running, Terminal
<1>1. ASSUME NEW m \in Message, Arrive(m) PROVE TypeOK' /\ Numbered' /\ Shape
  <2>1. NoneMade /\ run' \in [Run -> RunRow] /\ Numbered'
    BY <1>1, SameMakesNone DEF Arrive
  <2>2. TypeOK'
    BY <1>1, <2>1 DEF Arrive, RunRow
  <2>3. Quiet
    BY <1>1, <2>1 DEF Arrive, Quiet
  <2> QED
    BY <2>1, <2>2, <2>3 DEF Shape
<1>2. ASSUME NEW m \in Message, Decide(m) PROVE TypeOK' /\ Numbered' /\ Shape
  <2>0. m \in Input /\ {m} \in SUBSET Message
    BY DEF Input
  <2>1. /\ decide' \in {decide, [decide EXCEPT ![m] = "done"]}
        /\ decide' \in [Message -> {"none", "queued", "done"}]
        /\ extras' \in 0..MaxExtras
        /\ UNCHANGED <<saved, consumer, pressed, tries>>
    BY <1>2, BoundsAssumption DEF Decide, Acknowledged
  <2>2. CASE UNCHANGED <<run, made>>
    <3>1. NoneMade /\ run' \in [Run -> RunRow] /\ Numbered'
      BY <2>2, SameMakesNone
    <3>2. pend' \subseteq Message
      BY <1>2 DEF Decide
    <3>3. TypeOK'
      BY <2>1, <2>2, <3>1, <3>2 DEF RunRow
    <3>4. Decides(m)
      <4>1. CASE Delivered(m) /\ UNCHANGED <<pend, run, made>>
        BY <2>1, <3>1, <4>1 DEF Decides
      <4>2. CASE ~Delivered(m) /\ SlotBusy /\ pend' = pend \cup {m} /\ UNCHANGED <<run, made>>
        BY <2>1, <3>1, <4>2 DEF Decides
      <4>3. CASE ~Delivered(m) /\ ~SlotBusy /\ Start(New(m, {m}, NoRun)) /\ UNCHANGED pend
        BY <2>2, <4>3 DEF Start
      <4> QED
        BY <1>2, <4>1, <4>2, <4>3 DEF Decide
    <3> QED
      BY <3>1, <3>3, <3>4 DEF Shape
  <2>3. CASE ~Delivered(m) /\ ~SlotBusy /\ Start(New(m, {m}, NoRun)) /\ UNCHANGED pend
    <3>1. /\ OneMade(m, {m}, NoRun)
          /\ made' \in Run \cup {0} /\ run' \in [Run -> RunRow] /\ Numbered'
      BY <2>0, <2>3, StartMakesOne
    <3>2. TypeOK'
      BY <2>1, <2>3, <3>1 DEF RunRow
    <3>3. Decides(m)
      BY <2>1, <2>3, <3>1 DEF Decides
    <3> QED
      BY <3>1, <3>2, <3>3 DEF Shape
  <2> QED
    BY <1>2, <2>2, <2>3 DEF Decide
<1>3. ASSUME Drain PROVE TypeOK' /\ Numbered' /\ Shape
  <2> DEFINE batch == Batch(pend)
  <2>1. batch # {} /\ batch \subseteq pend
    BY <1>3, BatchType DEF Drain
  <2>2. Trigger(batch) \in Input /\ batch \in SUBSET Message
    BY <2>1, TriggerType DEF Input
  <2>3. /\ ~SlotBusy /\ Start(New(Trigger(batch), batch, NoRun))
        /\ pend' = pend \ batch
        /\ UNCHANGED <<decide, saved, consumer, pressed, tries, extras>>
    BY <1>3 DEF Drain, Undrained
  <2>4. /\ OneMade(Trigger(batch), batch, NoRun)
        /\ made' \in Run \cup {0} /\ run' \in [Run -> RunRow] /\ Numbered'
    <3> HIDE DEF batch
    <3> QED
      BY <2>2, <2>3, StartMakesOne
  <2>5. TypeOK'
    <3> HIDE DEF batch
    <3> QED
      BY <2>2, <2>3, <2>4 DEF RunRow
  <2>6. Drains(batch)
    BY <2>3, <2>4 DEF Drains
  <2> QED
    BY <2>1, <2>4, <2>5, <2>6 DEF Shape
<1>4. ASSUME NEW r \in Run, NEW s \in Active \cup Terminal, run[r].status # "none",
             s \in Active => run[r].status \in Active, Set(r, s),
             UNCHANGED <<decide, pend, made>>, saved' \in {saved, saved \cup {r}},
             \/ UNCHANGED consumer
             \/ \E c \in Unconsumed : consumer' = [consumer EXCEPT ![c] = r],
             UNCHANGED pressed, tries' \in [Run -> [Attempt -> {"none", "queued", "done"}]],
             extras' \in 0..MaxExtras
      PROVE  TypeOK' /\ Numbered' /\ Shape
  <2>1. NoneMade /\ run' \in [Run -> RunRow] /\ Numbered'
    BY <1>4, SetMakesNone
  <2>2. /\ consumer' \in [Run -> Run \cup {NoRun}]
        /\ \A q \in Run : consumer'[q] # NoRun => q \in saved'
    <3>1. CASE UNCHANGED consumer
      BY <1>4, <3>1
    <3>2. ASSUME NEW c \in Unconsumed, consumer' = [consumer EXCEPT ![c] = r]
          PROVE  /\ consumer' \in [Run -> Run \cup {NoRun}]
                 /\ \A q \in Run : consumer'[q] # NoRun => q \in saved'
      BY <1>4, <3>2 DEF Unconsumed
    <3> QED
      BY <1>4, <3>1, <3>2
  <2>4. TypeOK'
    BY <1>4, <2>1, <2>2 DEF RunRow
  <2>3. Quiet
    BY <1>4, <2>1 DEF Quiet
  <2> QED
    BY <2>1, <2>3, <2>4 DEF Shape
<1>5. ASSUME NEW r \in Run, Begin(r) PROVE TypeOK' /\ Numbered' /\ Shape
  BY <1>4, <1>5 DEF Begin
<1>6. ASSUME NEW r \in Run, LoadCheckpoint(r) PROVE TypeOK' /\ Numbered' /\ Shape
  BY <1>4, <1>6 DEF LoadCheckpoint
<1>7. ASSUME NEW r \in Run, SaveCheckpoint(r) PROVE TypeOK' /\ Numbered' /\ Shape
  BY <1>4, <1>7, BoundsAssumption DEF SaveCheckpoint
<1>8. ASSUME NEW r \in Run, Crash(r) PROVE TypeOK' /\ Numbered' /\ Shape
  BY <1>4, <1>8, BoundsAssumption DEF Crash
<1>9. ASSUME NEW r \in Run, End(r) PROVE TypeOK' /\ Numbered' /\ Shape
  BY <1>4, <1>9 DEF End
<1>10. ASSUME NEW r \in Run, Stop(r) PROVE TypeOK' /\ Numbered' /\ Shape
  <2>1. tries' \in [Run -> [Attempt -> {"none", "queued", "done"}]]
    <3>1. 1 \in Attempt
      BY BoundsAssumption DEF Attempt
    <3>2. UNCHANGED tries \/ tries' = [tries EXCEPT ![r][1] = "queued"]
      BY <1>10 DEF Stop
    <3>3. [tries EXCEPT ![r][1] = "queued"] \in [Run -> [Attempt -> {"none", "queued", "done"}]]
      BY <3>1
    <3> QED
      BY <3>2, <3>3
  <2> QED
    BY <1>4, <1>10, <2>1 DEF Stop
<1>11. ASSUME NEW r \in Run, Park(r) PROVE TypeOK' /\ Numbered' /\ Shape
  BY <1>4, <1>11 DEF Park
<1>12. ASSUME NEW r \in Run, Dismiss(r) PROVE TypeOK' /\ Numbered' /\ Shape
  BY <1>4, <1>12 DEF Dismiss
<1>13. ASSUME NEW r \in Run, Cancel(r) PROVE TypeOK' /\ Numbered' /\ Shape
  BY <1>4, <1>13 DEF Cancel
<1>14. ASSUME UNCHANGED <<decide, pend, run, made, saved, consumer>>, pressed' \subseteq saved,
              tries' \in [Run -> [Attempt -> {"none", "queued", "done"}]],
              extras' \in 0..MaxExtras
       PROVE  TypeOK' /\ Numbered' /\ Shape
  <2>1. NoneMade /\ run' \in [Run -> RunRow] /\ Numbered'
    BY <1>14, SameMakesNone
  <2>2. TypeOK'
    BY <1>14, <2>1 DEF RunRow
  <2>3. Quiet
    BY <1>14, <2>1 DEF Quiet
  <2> QED
    BY <2>1, <2>2, <2>3 DEF Shape
<1>15. ASSUME NEW r \in Run, OfferContinue(r) PROVE TypeOK' /\ Numbered' /\ Shape
  BY <1>14, <1>15 DEF OfferContinue
<1>16. ASSUME NEW r \in Run, LoseFirstTry(r) PROVE TypeOK' /\ Numbered' /\ Shape
  BY <1>14, <1>16, BoundsAssumption DEF LoseFirstTry, Done, Attempt
<1>17. ASSUME NEW r \in Run, NEW n \in Attempt, RepeatTry(r, n) PROVE TypeOK' /\ Numbered' /\ Shape
  <2>1. tries' \in [Run -> [Attempt -> {"none", "queued", "done"}]]
    BY <1>17 DEF RepeatTry
  <2> QED
    BY <1>14, <1>17, <2>1, BoundsAssumption DEF RepeatTry
<1>18. ASSUME NEW r \in Run, Restart(r) PROVE TypeOK' /\ Numbered' /\ Shape
  <2>1. run[r].trigger \in Input /\ NoRun \in Run \cup {NoRun}
    OBVIOUS
  <2>2. /\ OneMade(run[r].trigger, {}, NoRun)
        /\ made' \in Run \cup {0} /\ run' \in [Run -> RunRow] /\ Numbered'
    BY <1>18, <2>1, StartMakesOne DEF Restart
  <2>3. TypeOK'
    BY <1>18, <2>2, BoundsAssumption DEF Restart, RunRow
  <2>4. Follows(r)
    BY <1>18, <2>2 DEF Restart, Follows
  <2> QED
    BY <1>18, <2>2, <2>3, <2>4 DEF Restart, Shape
<1>19. ASSUME NEW r \in Run, Continuation(r), OneMade(run[r].trigger, {}, r),
              made' \in Run \cup {0}, run' \in [Run -> RunRow], Numbered',
              tries' \in [Run -> [Attempt -> {"none", "queued", "done"}]],
              run[r].status # "none"
       PROVE  TypeOK' /\ Numbered' /\ Shape
  <2>1. TypeOK'
    BY <1>19 DEF Continuation, Resumable, RunRow, OneMade, Made
  <2>2. Follows(r)
    BY <1>19 DEF Continuation, Resumable, Follows
  <2> QED
    BY <1>19, <2>1, <2>2 DEF Shape
<1>20. ASSUME NEW r \in Run, PressContinue(r) PROVE TypeOK' /\ Numbered' /\ Shape
  <2>1. /\ OneMade(run[r].trigger, {}, r)
        /\ made' \in Run \cup {0} /\ run' \in [Run -> RunRow] /\ Numbered'
    BY <1>20, StartMakesOne DEF PressContinue
  <2>2. run[r].status # "none"
    BY <1>20 DEF PressContinue, SavedByRuns
  <2> QED
    BY <1>19, <1>20, <2>1, <2>2 DEF PressContinue
<1>21. ASSUME NEW r \in Run, ResumeParked(r) PROVE TypeOK' /\ Numbered' /\ Shape
  <2>1. /\ run[r].status = "waiting" /\ made + 1 \in Run /\ r # made + 1
        /\ \A q \in Run : q > made => run[q] = NoSuchRun
    BY <1>21, RunType DEF ResumeParked, Continuation, Numbered, NoSuchRun
  <2>2. /\ New(run[r].trigger, {}, r) \in RunRow
        /\ [run[r] EXCEPT !.status = "completed"] =
              [status |-> "completed", trigger |-> run[r].trigger,
               fed |-> run[r].fed, continues |-> run[r].continues]
    BY DEF New, RunRow, Status
  <2>3. /\ made' = made + 1
        /\ run' \in [Run -> RunRow]
        /\ run'[r] = [run[r] EXCEPT !.status = "completed"]
        /\ run'[made + 1] = New(run[r].trigger, {}, r)
        /\ \A q \in Run \ {r, made + 1} : run'[q] = run[q]
    BY <1>21, <2>1, <2>2 DEF ResumeParked, RunRow, Status
  <2>4. /\ New(run[r].trigger, {}, r).status # "none"
        /\ run[made + 1] = NoSuchRun
    BY <2>1, RunType DEF New
  <2>5. Numbered'
    <3>1. run'[r].status # "none" /\ made \in Nat /\ r <= made
      BY <2>1, <2>2, <2>3, RunType DEF NoSuchRun
    <3>2. \A q \in Run : q > made' => run'[q] = NoSuchRun
      BY <2>1, <2>3, <3>1, RunType
    <3>3. ASSUME NEW q \in Run, q <= made' PROVE run'[q].status # "none"
      <4>0. q \in Nat /\ q <= made + 1
        BY <2>3, <3>3, RunType
      <4>1. q = made + 1 \/ q <= made
        BY <3>1, <4>0
      <4>2. q \in Run \ {r, made + 1} /\ q <= made => run[q].status # "none"
        BY DEF Numbered
      <4> QED
        BY <2>3, <2>4, <3>1, <4>1, <4>2
    <3> QED
      BY <3>2, <3>3 DEF Numbered
  <2>6. \A q \in Run \ {made + 1} : Kept(q) /\ run'[q].status \notin Active
    BY <1>21, <2>1, <2>2, <2>3 DEF Kept, ResumeParked
  <2>7. \A q \in Run : q > made + 1 => run'[q] = NoSuchRun
    BY <2>3, <2>5, RunType DEF Numbered
  <2>8. OneMade(run[r].trigger, {}, r)
    BY <2>1, <2>3, <2>4, <2>6, <2>7 DEF OneMade, Made
  <2>9. UNCHANGED tries /\ Continuation(r) /\ made' \in Run \cup {0}
    BY <1>21, <2>1, <2>3 DEF ResumeParked
  <2> QED
    BY <1>19, <2>1, <2>3, <2>5, <2>8, <2>9
<1>22. ASSUME NEW r \in Run, NEW n \in Attempt, AutoContinue(r, n)
       PROVE  TypeOK' /\ Numbered' /\ Shape
  <2>1. Done(r, n) \in [Run -> [Attempt -> {"none", "queued", "done"}]]
    BY DEF Done
  <2>2. CASE /\ ~Resumable(r) /\ tries' = Done(r, n)
             /\ UNCHANGED <<decide, pend, run, made, saved, consumer, pressed, extras>>
    BY <1>14, <2>1, <2>2
  <2>3. CASE /\ tries' = IF n < MaxTries THEN [tries EXCEPT ![r] = Requeue(@, n)]
                                         ELSE Done(r, n)
             /\ UNCHANGED <<decide, pend, run, made, saved, consumer, pressed, extras>>
    <3>1. n < MaxTries => n + 1 \in Attempt
      BY BoundsAssumption DEF Attempt
    <3>2. n < MaxTries => Requeue(tries[r], n) \in [Attempt -> {"none", "queued", "done"}]
      BY <3>1 DEF Requeue
    <3>3. tries' \in [Run -> [Attempt -> {"none", "queued", "done"}]]
      BY <2>1, <2>3, <3>2
    <3> QED
      BY <1>14, <2>3, <3>3
  <2>4. CASE /\ ~SlotBusy /\ Continuation(r) /\ tries' = Done(r, n)
             /\ Start(New(run[r].trigger, {}, r))
    <3>1. /\ OneMade(run[r].trigger, {}, r)
          /\ made' \in Run \cup {0} /\ run' \in [Run -> RunRow] /\ Numbered'
      BY <2>4, StartMakesOne
    <3>2. run[r].status # "none"
      BY <2>4 DEF Continuation, Resumable, SavedByRuns
    <3> QED
      BY <1>19, <2>1, <2>4, <3>1, <3>2
  <2> QED
    BY <1>22, <2>2, <2>3, <2>4 DEF AutoContinue
<1>23. ASSUME Handoff PROVE TypeOK' /\ Numbered' /\ Shape
  <2>1. HandOver \in Input /\ {} \in SUBSET Message /\ NoRun \in Run \cup {NoRun}
    BY DEF Input
  <2>2. /\ Start(New(HandOver, {}, NoRun)) /\ extras' \in 0..MaxExtras
        /\ UNCHANGED <<decide, pend, saved, consumer, pressed, tries>>
    BY <1>23, BoundsAssumption DEF Handoff
  <2>3. /\ Made(HandOver, {}, NoRun)
        /\ \A q \in Run \ {made + 1} : run'[q] = run[q]
        /\ made' \in Run \cup {0} /\ run' \in [Run -> RunRow] /\ Numbered'
    BY <2>1, <2>2, StartMakes
  <2>4. TypeOK'
    BY <2>2, <2>3 DEF RunRow
  <2>5. HandsOver
    BY <2>2, <2>3 DEF HandsOver
  <2> QED
    BY <2>3, <2>4, <2>5 DEF Shape
<1>24. TypeOK' /\ Numbered' /\ Shape
  BY <1>1, <1>2, <1>3, <1>5, <1>6, <1>7, <1>8, <1>9, <1>10, <1>11, <1>12, <1>13, <1>15, <1>16,
     <1>17, <1>18, <1>20, <1>21, <1>22, <1>23 DEF Next, RunStep, Outside
<1>25. SavedByRuns'
  <2>0. made \in Nat
    BY RunType
  <2>1. made' \in {made, made + 1}
    BY DEF Next, RunStep, Outside, Arrive, Decide, Drain, Handoff, Start, Begin, LoadCheckpoint,
         SaveCheckpoint, Crash, End, Stop, Park, Dismiss, Cancel, Restart, OfferContinue,
         PressContinue, ResumeParked, AutoContinue, LoseFirstTry, RepeatTry
  <2>2. \A r \in saved' : r \in Run /\ run[r].status # "none"
    BY DEF SavedByRuns, Next, RunStep, Outside, Arrive, Decide, Drain, Handoff, Begin, LoadCheckpoint,
         SaveCheckpoint, Crash, End, Stop, Park, Dismiss, Cancel, Restart, OfferContinue,
         PressContinue, ResumeParked, AutoContinue, LoseFirstTry, RepeatTry, Continuation
  <2>3. \A r \in saved' : r <= made'
    <3>1. ASSUME NEW r \in saved' PROVE ~(r > made)
      BY <2>2, <3>1 DEF Numbered, NoSuchRun
    <3>2. ASSUME NEW r \in saved' PROVE r <= made /\ r \in Nat
      <4>1. r \in Run
        BY <2>2, <3>2
      <4>2. r \in Nat
        BY <4>1, RunType
      <4>3. ~(r > made)
        BY <3>1, <3>2
      <4> QED
        BY <2>0, <4>2, <4>3
    <3> QED
      BY <2>0, <2>1, <3>2
  <2> QED
    BY <1>24, <2>2, <2>3 DEF SavedByRuns, Numbered
<1> QED
  BY <1>24, <1>25

\* Every behaviour is well typed.
LEMMA TypesHold == Spec => []TInv
<1>1. TInv /\ UNCHANGED vars => TInv'
  BY DEF TInv, TypeOK, Numbered, SavedByRuns, vars
<1> QED
  BY <1>1, InitTInv, Steps, PTL DEF Spec

\* The slot, the pending rows, the runs and the checkpoints stay well typed,
\* and a claimed checkpoint is one somebody saved (TypeOK).
THEOREM TypeCorrect == Spec => []TypeOK
<1>1. TInv => TypeOK
  BY DEF TInv
<1> QED
  BY <1>1, TypesHold, PTL

-----------------------------------------------------------------------------
(* One run in flight, but for handoffs: every other way to make one finds  *)
(* the slot free, or frees it in the same step.                            *)

\* Each shape makes no second run, or a handoff's.
LEMMA StepOneActive == TInv /\ OneActiveRun /\ Shape => OneActiveRun'
<1> SUFFICES ASSUME TInv, OneActiveRun, Shape PROVE OneActiveRun'
  OBVIOUS
<1> USE DEF OneActiveRun, MadeByHandoff, HandoffManaged
<1>1. CASE NoneMade
  BY <1>1 DEF NoneMade, Kept
<1>2. ASSUME NEW trigger, NEW fed, NEW continues, OneMade(trigger, fed, continues)
      PROVE  OneActiveRun'
  <2>1. \A a, b \in Run : a < b => ~(run'[a].status \in Active /\ run'[b].status \in Active)
    BY <1>2, RunType DEF OneMade
  <2> QED
    BY <2>1
<1>3. CASE HandsOver
  <2>1. /\ made + 1 \in Nat
        /\ run'[made + 1].trigger = HandOver /\ run'[made + 1].continues = NoRun
        /\ \A q \in Run : q > made + 1 => run'[q].status \notin Active
        /\ \A q \in Run \ {made + 1} : run'[q] = run[q]
    BY <1>3, RunType DEF HandsOver, Made, New, NoSuchRun, Active, Running
  <2> SUFFICES ASSUME NEW a \in Run, NEW b \in Run, a < b,
                      run'[a].status \in Active, run'[b].status \in Active
               PROVE  MadeByHandoff(b)'
    OBVIOUS
  <2>2. CASE b = made + 1
    BY <2>1, <2>2
  <2>3. CASE b # made + 1
    <3>1. a # made + 1
      BY <2>1, RunType
    <3> QED
      BY <2>1, <2>3, <3>1
  <2> QED
    BY <2>2, <2>3
<1> QED
  BY <1>1, <1>2, <1>3 DEF Shape, Quiet, Follows, Decides, Drains

\* A run is made beside another one in flight only by a product's handoff,
\* whatever decisions, drains, restarts, continuations and handoffs meet
\* (OneActiveRun; thread-serialization.ts, findActiveThreadRun under the
\* advisory lock).
THEOREM OneRunIsActive == Spec => []OneActiveRun
<1>1. Init => OneActiveRun
  BY DEF Init, OneActiveRun, NoSuchRun, Active, Running
<1>2. OneActiveRun /\ UNCHANGED vars => OneActiveRun'
  BY DEF OneActiveRun, MadeByHandoff, HandoffManaged, vars
<1>3. TInv /\ OneActiveRun /\ [Next]_vars => OneActiveRun'
  BY <1>2, Steps, StepOneActive
<1> QED
  BY <1>1, <1>3, TypesHold, PTL DEF Spec

-----------------------------------------------------------------------------
(* One continuation of a stopped run.                                      *)

\* The checkpoint of a run names its continuation before anybody else can
\* take it, and is not given away.
LEMMA StepContinued == TInv /\ ContinuedOnce /\ Shape => ContinuedOnce'
<1> SUFFICES ASSUME TInv, ContinuedOnce, Shape PROVE ContinuedOnce'
  OBVIOUS
<1> USE DEF TInv, TypeOK, ContinuedOnce
<1>1. CASE NoneMade /\ UNCHANGED consumer
  BY <1>1 DEF NoneMade, Kept
<1>2. ASSUME NEW r \in Run, NEW c \in Unconsumed, NoneMade,
             consumer' = [consumer EXCEPT ![c] = r]
      PROVE  ContinuedOnce'
  <2>1. c \in Run /\ consumer[c] = NoRun
    BY DEF Unconsumed
  <2> QED
    BY <1>2, <2>1, RunType DEF NoneMade, Kept
<1>3. ASSUME NEW trigger, NEW fed, OneMade(trigger, fed, NoRun), UNCHANGED consumer
      PROVE  ContinuedOnce'
  BY <1>3 DEF OneMade, Made, Kept, New
<1>4. ASSUME NEW trigger, NEW fed, NEW r \in Run, OneMade(trigger, fed, r),
             consumer[r] = NoRun, consumer' = [consumer EXCEPT ![r] = made + 1]
      PROVE  ContinuedOnce'
  BY <1>4, RunType DEF OneMade, Made, Kept, New
<1>5. CASE HandsOver
  BY <1>5 DEF HandsOver, Made, Kept, New
<1> QED
  BY <1>1, <1>2, <1>3, <1>4, <1>5 DEF Shape, Quiet, Follows, Decides, Drains

\* A stopped run is continued at most once, however many presses, replies and
\* automatic attempts meet: the run made to continue it holds its checkpoint
\* (ContinuedOnce; checkpoint.ts, claimRunCheckpoint).
THEOREM RunsAreContinuedOnce == Spec => []ContinuedOnce
<1>1. Init => ContinuedOnce
  BY DEF Init, ContinuedOnce, NoSuchRun
<1>2. ContinuedOnce /\ UNCHANGED vars => ContinuedOnce'
  BY DEF ContinuedOnce, vars
<1>3. TInv /\ ContinuedOnce /\ [Next]_vars => ContinuedOnce'
  BY <1>2, Steps, StepContinued
<1> QED
  BY <1>1, <1>3, TypesHold, PTL DEF Spec

-----------------------------------------------------------------------------
(* Messages: none is lost, and which may be taken again.  A trigger is a   *)
(* message somebody took, and it is not pending.                           *)

TriggersAreTaken == \A r \in Run : run[r].trigger \in Message => Taken(run[r].trigger)
TriggersAreNotPended == \A r \in Run : run[r].trigger \notin pend

MessageInv ==
    /\ TriggersAreTaken
    /\ TriggersAreNotPended
    /\ NothingLost
    /\ TakenAgainOnlyBehindBatch

\* The first message is number 1: the kickoff is none.
LEMMA KickoffIsNone == Kickoff \notin Message
BY DEF Kickoff, Message

\* Nor is the message of a handoff: it is written with its run.
LEMMA HandOverIsNone == HandOver \notin Message
BY MessagesAssumption DEF HandOver, Message

\* What a run took stays taken by it.
LEMMA TakenStays ==
    ASSUME TInv, NEW m,
           NoneMade \/ \E trigger, fed, continues : Made(trigger, fed, continues)
    PROVE  /\ Taken(m) => Taken(m)'
           /\ \A r \in Run : m \in run[r].fed => m \in run'[r].fed
<1>1. \A r \in Run : m \in run[r].fed => m \in run'[r].fed
  BY DEF NoneMade, Made, Kept, NoSuchRun
<1> QED
  BY <1>1 DEF Taken

\* Where no run is made, only decisions matter.
LEMMA NoneMadeMessages ==
    ASSUME TInv, MessageInv, NoneMade
    PROVE  TriggersAreTaken' /\ TakenAgainOnlyBehindBatch'
<1> USE DEF MessageInv
<1>1. TriggersAreTaken'
  BY DEF TriggersAreTaken, Taken, NoneMade, Kept
<1>2. TakenAgainOnlyBehindBatch'
  BY DEF TakenAgainOnlyBehindBatch, NoneMade, Kept
<1> QED
  BY <1>1, <1>2

\* A run that is made takes what no run was triggered by.
LEMMA MadeMessages ==
    ASSUME TInv, MessageInv, NEW trigger, NEW fed \in SUBSET Message, NEW continues,
           Made(trigger, fed, continues),
           trigger \in Message => trigger \in fed \/ Taken(trigger),
           \A m \in fed, r \in Run : run[r].trigger # m
    PROVE  TriggersAreTaken' /\ TakenAgainOnlyBehindBatch'
<1> USE DEF MessageInv
<1>1. /\ made + 1 \in Run /\ made + 1 \in Nat
      /\ run'[made + 1].trigger = trigger /\ run'[made + 1].fed = fed
      /\ \A q \in Run \ {made + 1} : Kept(q)
      /\ \A q \in Run : q > made + 1 => run'[q].fed = {}
  BY RunType DEF Made, New, NoSuchRun
<1>2. TriggersAreTaken'
  <2>1. ASSUME NEW r \in Run, run'[r].trigger \in Message PROVE \E q \in Run : run'[r].trigger \in run'[q].fed
    <3>1. CASE r = made + 1
      <4>1. CASE trigger \in fed
        BY <1>1, <3>1, <4>1
      <4>2. CASE Taken(trigger)
        <5>1. Taken(trigger)'
          BY <4>2, TakenStays
        <5> QED
          BY <1>1, <3>1, <5>1 DEF Taken
      <4> QED
        BY <1>1, <2>1, <3>1, <4>1, <4>2
    <3>2. CASE r # made + 1
      <4>1. run'[r].trigger = run[r].trigger /\ Taken(run[r].trigger)
        BY <1>1, <2>1, <3>2 DEF Kept, TriggersAreTaken
      <4>2. PICK q \in Run : run[r].trigger \in run[q].fed
        BY <4>1 DEF Taken
      <4>3. run[r].trigger \in run'[q].fed
        BY <4>2, TakenStays
      <4> QED
        BY <4>1, <4>3
    <3> QED
      BY <3>1, <3>2
  <2> QED
    BY <2>1 DEF TriggersAreTaken, Taken
<1>3. TakenAgainOnlyBehindBatch'
  <2>1. ASSUME NEW a \in Run, NEW b \in Run, NEW m \in Message,
               a < b, m \in run'[a].fed, m \in run'[b].fed
        PROVE  run'[a].trigger # m
    <3>1. ~(b > made + 1)
      BY <1>1, <2>1
    <3>2. a # made + 1
      BY <2>1, <3>1, <1>1, RunType
    <3>3. run'[a].trigger = run[a].trigger /\ run'[a].fed = run[a].fed
      BY <1>1, <3>2 DEF Kept
    <3>4. CASE b = made + 1
      BY <1>1, <2>1, <3>3, <3>4
    <3>5. CASE b # made + 1
      BY <1>1, <2>1, <3>3, <3>5 DEF Kept, TakenAgainOnlyBehindBatch
    <3> QED
      BY <3>4, <3>5
  <2> QED
    BY <2>1 DEF TakenAgainOnlyBehindBatch
<1> QED
  BY <1>2, <1>3

\* The duplicate guard sees every run a message triggered.
LEMMA UndeliveredTriggersNone ==
    ASSUME TInv, NEW m \in Message, ~Delivered(m)
    PROVE  \A r \in Run : run[r].trigger # m
<1> SUFFICES ASSUME NEW r \in Run PROVE run[r].trigger # m
  OBVIOUS
<1>1. r > made \/ r <= made
  BY RunType DEF TInv, TypeOK
<1>2. r > made => run[r].trigger = Kickoff
  BY DEF TInv, Numbered, NoSuchRun
<1>3. r <= made => run[r].status # "none"
  BY DEF TInv, Numbered
<1> QED
  BY <1>1, <1>2, <1>3, KickoffIsNone DEF Delivered

\* Every shape keeps the messages.
LEMMA StepMessages == TInv /\ MessageInv /\ Shape => MessageInv'
<1> SUFFICES ASSUME TInv, MessageInv, Shape PROVE MessageInv'
  OBVIOUS
<1>0. pend \subseteq Message
  BY DEF TInv, TypeOK
<1>1. CASE Quiet
  <2>1. TriggersAreTaken' /\ TakenAgainOnlyBehindBatch'
    BY <1>1, NoneMadeMessages DEF Quiet
  <2>2. TriggersAreNotPended'
    BY <1>1 DEF Quiet, NoneMade, Kept, TriggersAreNotPended, MessageInv
  <2>3. \A m \in Message : Taken(m) => Taken(m)'
    BY <1>1, TakenStays DEF Quiet
  <2>4. NothingLost'
    BY <1>1, <2>3 DEF Quiet, NothingLost, MessageInv
  <2> QED
    BY <2>1, <2>2, <2>4 DEF MessageInv
<1>2. ASSUME NEW r \in Run, Follows(r) PROVE MessageInv'
  <2>1. PICK c : Made(run[r].trigger, {}, c)
    BY <1>2 DEF Follows, OneMade
  <2>2. TriggersAreTaken' /\ TakenAgainOnlyBehindBatch'
    BY <2>1, MadeMessages DEF MessageInv, TriggersAreTaken
  <2>3. TriggersAreNotPended'
    BY <1>2, <2>1 DEF Follows, Made, Kept, New, TriggersAreNotPended, MessageInv
  <2>4. \A m \in Message : Taken(m) => Taken(m)'
    BY <2>1, TakenStays
  <2>5. NothingLost'
    BY <1>2, <2>4 DEF Follows, NothingLost, MessageInv
  <2> QED
    BY <2>2, <2>3, <2>5 DEF MessageInv
<1>3. ASSUME NEW m \in Message, Decides(m) PROVE MessageInv'
  <2>1. \A k \in Message : decide'[k] = "done" => decide[k] = "done" \/ k = m
    BY <1>3 DEF Decides, TInv, TypeOK
  <2>2. CASE Delivered(m) /\ NoneMade /\ UNCHANGED pend
    <3>1. TriggersAreTaken' /\ TakenAgainOnlyBehindBatch'
      BY <2>2, NoneMadeMessages
    <3>2. TriggersAreNotPended'
      BY <2>2 DEF NoneMade, Kept, TriggersAreNotPended, MessageInv
    <3>3. m \in pend \/ Taken(m)
      BY <2>2 DEF Delivered, MessageInv, TriggersAreTaken
    <3>4. \A k \in Message : Taken(k) => Taken(k)'
      BY <2>2, TakenStays
    <3>5. NothingLost'
      BY <2>1, <2>2, <3>3, <3>4 DEF NothingLost, MessageInv
    <3> QED
      BY <3>1, <3>2, <3>5 DEF MessageInv
  <2>3. CASE ~Delivered(m) /\ NoneMade /\ pend' = pend \cup {m}
    <3>1. TriggersAreTaken' /\ TakenAgainOnlyBehindBatch'
      BY <2>3, NoneMadeMessages
    <3>2. \A r \in Run : run[r].trigger # m
      BY <2>3, UndeliveredTriggersNone
    <3>3. TriggersAreNotPended'
      BY <2>3, <3>2 DEF NoneMade, Kept, TriggersAreNotPended, MessageInv
    <3>4. \A k \in Message : Taken(k) => Taken(k)'
      BY <2>3, TakenStays
    <3>5. NothingLost'
      BY <2>1, <2>3, <3>4 DEF NothingLost, MessageInv
    <3> QED
      BY <3>1, <3>3, <3>5 DEF MessageInv
  <2>4. CASE ~Delivered(m) /\ Made(m, {m}, NoRun) /\ UNCHANGED pend
    <3>2. \A r \in Run : run[r].trigger # m
      BY <2>4, UndeliveredTriggersNone
    <3>1. TriggersAreTaken' /\ TakenAgainOnlyBehindBatch'
      BY <2>4, <3>2, MadeMessages
    <3>3. m \notin pend
      BY <2>4 DEF Delivered
    <3>4. TriggersAreNotPended'
      BY <2>4, <3>3 DEF Made, New, Kept, TriggersAreNotPended, MessageInv
    <3>5. \A k \in Message : Taken(k) => Taken(k)'
      BY <2>4, TakenStays
    <3>6. Taken(m)'
      BY <2>4 DEF Taken, Made, New
    <3>7. NothingLost'
      BY <2>1, <2>4, <3>5, <3>6 DEF NothingLost, MessageInv
    <3> QED
      BY <3>1, <3>4, <3>7 DEF MessageInv
  <2> QED
    BY <1>3, <2>2, <2>3, <2>4 DEF Decides, OneMade
<1>4. ASSUME NEW batch \in SUBSET pend, batch # {}, Drains(batch) PROVE MessageInv'
  <2>1. /\ Made(Trigger(batch), batch, NoRun)
        /\ pend' = pend \ batch /\ UNCHANGED decide
    BY <1>4 DEF Drains, OneMade
  <2>2. Trigger(batch) \in batch \cup {Kickoff} /\ batch \in SUBSET Message
    BY <1>0, <1>4, TriggerType
  <2>3. \A m \in batch, r \in Run : run[r].trigger # m
    BY DEF MessageInv, TriggersAreNotPended
  <2>4. TriggersAreTaken' /\ TakenAgainOnlyBehindBatch'
    BY <2>1, <2>2, <2>3, KickoffIsNone, MadeMessages
  <2>5. TriggersAreNotPended'
    BY <1>0, <2>1, <2>2, KickoffIsNone
       DEF Made, New, Kept, TriggersAreNotPended, MessageInv
  <2>6. \A k \in Message : Taken(k) => Taken(k)'
    BY <2>1, TakenStays
  <2>7. \A k \in batch : Taken(k)'
    BY <2>1 DEF Taken, Made, New
  <2>8. NothingLost'
    BY <2>1, <2>6, <2>7 DEF NothingLost, MessageInv
  <2> QED
    BY <2>4, <2>5, <2>8 DEF MessageInv
<1>5. CASE HandsOver
  <2>1. Made(HandOver, {}, NoRun) /\ UNCHANGED <<decide, pend>>
    BY <1>5 DEF HandsOver
  <2>2. TriggersAreTaken' /\ TakenAgainOnlyBehindBatch'
    <3>1. PICK trigger \in {HandOver}, fed \in {{}} : Made(trigger, fed, NoRun)
      BY <2>1
    <3>2. trigger \notin Message /\ fed \in SUBSET Message
      BY HandOverIsNone
    <3> QED
      BY <3>1, <3>2, MadeMessages
  <2>3. TriggersAreNotPended'
    BY <1>0, <2>1, HandOverIsNone DEF Made, New, Kept, TriggersAreNotPended, MessageInv
  <2>4. \A k \in Message : Taken(k) => Taken(k)'
    BY <2>1, TakenStays
  <2>5. NothingLost'
    BY <2>1, <2>4 DEF NothingLost, MessageInv
  <2> QED
    BY <2>2, <2>3, <2>5 DEF MessageInv
<1> QED
  BY <1>1, <1>2, <1>3, <1>4, <1>5 DEF Shape

\* Every behaviour keeps its messages.
LEMMA MessagesHold == Spec => []MessageInv
<1>1. Init => MessageInv
  BY KickoffIsNone DEF Init, MessageInv, TriggersAreTaken, TriggersAreNotPended, NothingLost,
     TakenAgainOnlyBehindBatch, NoSuchRun
<1>2. MessageInv /\ UNCHANGED vars => MessageInv'
  BY DEF MessageInv, TriggersAreTaken, TriggersAreNotPended, NothingLost, Taken,
     TakenAgainOnlyBehindBatch, vars
<1>3. TInv /\ MessageInv /\ [Next]_vars => MessageInv'
  BY <1>2, Steps, StepMessages
<1> QED
  BY <1>1, <1>3, TypesHold, PTL DEF Spec

\* A message whose decision committed is pending or was taken by a run,
\* whoever died in between (NothingLost; the drain deletes its rows in the
\* transaction that makes their run).
THEOREM MessagesAreNotLost == Spec => []NothingLost
<1>1. MessageInv => NothingLost
  BY DEF MessageInv
<1> QED
  BY <1>1, MessagesHold, PTL

\* A message that triggered a run is never taken by a later one: the duplicate
\* guard of the decide job fails only for the other messages of a batch
\* (TakenAgainOnlyBehindBatch; thread-serialization.ts, claimThreadRunOrPend).
THEOREM TriggersAreTakenOnce == Spec => []TakenAgainOnlyBehindBatch
<1>1. MessageInv => TakenAgainOnlyBehindBatch
  BY DEF MessageInv
<1> QED
  BY <1>1, MessagesHold, PTL

=============================================================================
