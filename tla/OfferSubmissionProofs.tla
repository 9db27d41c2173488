------------------------- MODULE OfferSubmissionProofs -------------------------
(***************************************************************************)
(* Proofs about OfferSubmission and the pause it obeys, for every number   *)
(* of calls, connections and probing tasks and every balance.              *)
(***************************************************************************)
EXTENDS OfferSubmission, TLAPS

USE PauseAssumption, SubmissionAssumption

-----------------------------------------------------------------------------
(* The pause file and the processes that write it.                         *)

\* What a writer holds is a look at the page and a copy of the file.
LEMMA WriterUpdates ==
    ASSUME NEW w \in WriterType, NEW finding \in Findings
    PROVE  /\ Resting \in WriterType
           /\ [Resting EXCEPT !.pc = "seen", !.saw = finding] \in WriterType
           /\ [w EXCEPT !.pc = "filling"] \in WriterType
           /\ [w EXCEPT !.overtaken = TRUE] \in WriterType
           /\ \A paused \in BOOLEAN, until \in Dates :
                 [w EXCEPT !.pc = "writing", !.paused = paused, !.until = until] \in WriterType
BY DEF WriterType, Resting, Findings, Dates

\* Overtaking marks the writers in between, and changes nothing else of them.
LEMMA Overtaking ==
    ASSUME NEW w \in [Writers -> WriterType], NEW others \in SUBSET Writers
    PROVE  /\ Overtake(w, others) \in [Writers -> WriterType]
           /\ \A q \in Writers :
                 /\ Overtake(w, others)[q].pc = w[q].pc
                 /\ Overtake(w, others)[q].saw = w[q].saw
                 /\ Overtake(w, others)[q].paused = w[q].paused
                 /\ ~Overtake(w, others)[q].overtaken => ~w[q].overtaken
                 /\ q \in others /\ w[q].pc # "idle" => Overtake(w, others)[q].overtaken
<1>1. ASSUME NEW q \in Writers
      PROVE  /\ [w[q] EXCEPT !.overtaken = TRUE] \in WriterType
             /\ Overtake(w, others)[q] = w[q]
                \/ Overtake(w, others)[q] = [w[q] EXCEPT !.overtaken = TRUE]
             /\ q \in others /\ w[q].pc # "idle" =>
                    Overtake(w, others)[q] = [w[q] EXCEPT !.overtaken = TRUE]
  <2>1. w[q] \in WriterType
    OBVIOUS
  <2>2. [w[q] EXCEPT !.overtaken = TRUE] \in WriterType
    BY <2>1 DEF WriterType
  <2>3. Overtake(w, others)[q] = IF q \in others /\ w[q].pc # "idle"
                                 THEN [w[q] EXCEPT !.overtaken = TRUE] ELSE w[q]
    BY DEF Overtake
  <2> QED
    BY <2>2, <2>3
<1>2. Overtake(w, others) \in [Writers -> WriterType]
  BY <1>1 DEF Overtake
<1>3. ASSUME NEW q \in Writers
      PROVE  /\ Overtake(w, others)[q].pc = w[q].pc
             /\ Overtake(w, others)[q].saw = w[q].saw
             /\ Overtake(w, others)[q].paused = w[q].paused
             /\ ~Overtake(w, others)[q].overtaken => ~w[q].overtaken
             /\ q \in others /\ w[q].pc # "idle" => Overtake(w, others)[q].overtaken
  <2>1. w[q] \in WriterType
    OBVIOUS
  <2>2. /\ [w[q] EXCEPT !.overtaken = TRUE].pc = w[q].pc
        /\ [w[q] EXCEPT !.overtaken = TRUE].saw = w[q].saw
        /\ [w[q] EXCEPT !.overtaken = TRUE].paused = w[q].paused
        /\ [w[q] EXCEPT !.overtaken = TRUE].overtaken = TRUE
    BY <2>1 DEF WriterType
  <2> QED
    BY <1>1, <2>2
<1> QED
  BY <1>2, <1>3

\* What is going to be written is a pause or none, with its date.
LEMMA DecisionType ==
    ASSUME PauseTypeOK, NEW p \in Writers, NEW d \in Decision(p)
    PROVE  d.paused \in BOOLEAN /\ d.until \in Dates
<1>1. file.paused \in BOOLEAN /\ file.until \in Dates /\ writer[p].saw \in Findings
  BY DEF PauseTypeOK, FileType, WriterType
<1>2. CASE writer[p].saw = "available"
  <2>1. Decision(p) = {[paused |-> FALSE, until |-> "none"]}
    BY <1>2 DEF Decision
  <2>2. d = [paused |-> FALSE, until |-> "none"]
    BY <2>1
  <2>3. d.paused = FALSE /\ d.until = "none"
    BY <2>2
  <2> QED
    BY <2>3 DEF Dates
<1>3. CASE writer[p].saw = "exhausted"
  <2>1. Decision(p) = {[paused |-> TRUE, until |-> e] : e \in {"none", "ahead"}}
    BY <1>3 DEF Decision
  <2>2. d = [paused |-> TRUE, until |-> "none"] \/ d = [paused |-> TRUE, until |-> "ahead"]
    BY <2>1
  <2>3. d.paused = TRUE /\ d.until \in {"none", "ahead"}
    BY <2>2
  <2> QED
    BY <2>3 DEF Dates
<1>4. CASE writer[p].saw = "unclear" /\ Loaded
  BY <1>1, <1>4 DEF Decision, Dates
<1>5. CASE writer[p].saw = "unclear" /\ ~Loaded
  <2>1. Decision(p) \subseteq {[paused |-> TRUE, until |-> "ahead"]}
    BY <1>5 DEF Decision
  <2>2. d = [paused |-> TRUE, until |-> "ahead"]
    BY <2>1
  <2> QED
    BY <2>2, Zenon DEF Dates
<1> QED
  BY <1>1, <1>2, <1>3, <1>4, <1>5 DEF Findings

\* The probing tasks and the passing of dates keep the types.
LEMMA PauseTypes == PauseTypeOK /\ PauseNext => PauseTypeOK'
<1> SUFFICES ASSUME PauseTypeOK, PauseNext PROVE PauseTypeOK'
  OBVIOUS
<1>1. /\ Bot \in Writers /\ Probers \subseteq Writers
      /\ MaxConnects \in Nat /\ MaxReplenish \in Nat /\ MaxCrashes \in Nat
  BY DEF Writers
<1>2. ASSUME NEW p \in Probers, ProberDies(p) PROVE PauseTypeOK'
  <2>1. Resting \in WriterType
    BY DEF Resting, WriterType, Findings, Dates
  <2> QED
    BY <1>1, <1>2, <2>1 DEF ProberDies, PauseTypeOK
<1>3. ASSUME NEW p \in Probers, NEW f \in Findings, Look(p, f) PROVE PauseTypeOK'
  <2>1. [Resting EXCEPT !.pc = "seen", !.saw = f] \in WriterType
    BY DEF Resting, WriterType, Findings, Dates
  <2> QED
    BY <1>3, <2>1 DEF Look, PauseTypeOK
<1>4. ASSUME NEW p \in Writers, ReadFile(p) PROVE PauseTypeOK'
  <2>1. CASE Decision(p) = {} /\ writer' = [writer EXCEPT ![p] = Resting]
    <3>1. Resting \in WriterType
      BY DEF Resting, WriterType, Findings, Dates
    <3> QED
      BY <1>4, <2>1, <3>1 DEF ReadFile, PauseTypeOK
  <2>2. ASSUME NEW d \in Decision(p),
               writer' = [writer EXCEPT ![p].pc = "writing", ![p].paused = d.paused,
                                        ![p].until = d.until]
        PROVE  PauseTypeOK'
    <3>1. writer[p] \in WriterType /\ d.paused \in BOOLEAN /\ d.until \in Dates
      BY DecisionType DEF PauseTypeOK
    <3>2. [writer[p] EXCEPT !.pc = "writing", !.paused = d.paused, !.until = d.until] \in WriterType
      BY <3>1 DEF WriterType
    <3>3. writer' \in [Writers -> WriterType]
      BY <2>2, <3>2 DEF PauseTypeOK
    <3> QED
      BY <1>4, <3>3 DEF ReadFile, PauseTypeOK
  <2> QED
    BY <1>4, <2>1, <2>2 DEF ReadFile
<1>5. ASSUME NEW p \in Writers, Truncate(p) PROVE PauseTypeOK'
  <2>1. writer[p] \in WriterType
    BY DEF PauseTypeOK
  <2>2. [writer EXCEPT ![p].pc = "filling"] \in [Writers -> WriterType]
    BY <2>1 DEF PauseTypeOK, WriterType
  <2>3. writer' \in [Writers -> WriterType]
    BY <1>5, <2>2, Overtaking DEF Truncate
  <2> QED
    BY <1>5, <2>3 DEF Truncate, PauseTypeOK, Torn, NoFile, FileType, Dates
<1>6. ASSUME NEW p \in Writers, Fill(p) PROVE PauseTypeOK'
  <2>1. writer[p] \in WriterType /\ Resting \in WriterType
    BY DEF PauseTypeOK, Resting, WriterType, Findings, Dates
  <2>2. [writer EXCEPT ![p] = Resting] \in [Writers -> WriterType]
    BY <2>1 DEF PauseTypeOK
  <2>3. writer' \in [Writers -> WriterType]
    BY <1>6, <2>2, Overtaking DEF Fill
  <2>4. file' \in FileType
    <3>1. writer[p].paused \in BOOLEAN /\ writer[p].until \in Dates
      BY <2>1 DEF WriterType
    <3>2. [state |-> "written", paused |-> writer[p].paused, until |-> writer[p].until] \in FileType
      BY <3>1 DEF FileType
    <3>3. Torn \in FileType
      BY DEF FileType, Torn, NoFile, Dates
    <3> QED
      BY <1>6, <3>2, <3>3 DEF Fill
  <2>5. exhausted' \in BOOLEAN /\ raced' \in BOOLEAN
    BY <1>6, <2>1 DEF Fill, PauseTypeOK, WriterType
  <2> QED
    BY <1>6, <2>3, <2>4, <2>5 DEF Fill, PauseTypeOK
<1>7. CASE ClearElapsed
  <2>1. writer' \in [Writers -> WriterType]
    BY <1>7, Overtaking DEF ClearElapsed, PauseTypeOK
  <2> QED
    BY <1>7, <2>1 DEF ClearElapsed, PauseTypeOK, NoFile, FileType, Dates
<1>8. CASE ManualDatePasses
  BY <1>8 DEF ManualDatePasses, PauseTypeOK
<1>9. CASE ReplenishDatePasses
  BY <1>9 DEF ReplenishDatePasses, PauseTypeOK, FileType, Dates
<1>10. CASE Replenish
  <2>1. writer' \in [Writers -> WriterType]
    BY <1>10, Overtaking DEF Replenish, PauseTypeOK
  <2>2. connects' \in 0..MaxConnects /\ replenished' \in 0..MaxReplenish
    BY <1>1, <1>10 DEF Replenish, PauseTypeOK
  <2> QED
    BY <1>10, <2>1, <2>2 DEF Replenish, PauseTypeOK
<1> QED
  BY <1>2, <1>3, <1>4, <1>5, <1>6, <1>7, <1>8, <1>9, <1>10 DEF PauseNext, Write

-----------------------------------------------------------------------------
(* What is written of the balance.                                         *)

\* One writer's part of the invariant.
HonestWriter(p) ==
    writer[p].pc # "idle" =>
          /\ writer[p].saw = "available" /\ ~writer[p].overtaken => connects > 0
          /\ writer[p].pc # "seen" /\ writer[p].saw = "exhausted" => writer[p].paused
          /\ /\ writer[p].pc # "seen" /\ writer[p].saw = "unclear"
             /\ ~writer[p].overtaken /\ ~writer[p].paused /\ auto /\ ~raced
             => ~exhausted

\* A writer that is only overtaken stays honest.
LEMMA StaysHonest ==
    ASSUME NEW p \in Writers, HonestWriter(p),
           writer'[p].pc = writer[p].pc, writer'[p].saw = writer[p].saw,
           writer'[p].paused = writer[p].paused,
           ~writer'[p].overtaken => ~writer[p].overtaken,
           \/ UNCHANGED <<auto, connects, exhausted, raced>>
           \/ writer[p].pc = "idle"
           \/ writer'[p].overtaken
    PROVE  HonestWriter(p)'
BY DEF HonestWriter

\* The probing tasks never lose a recorded pause while the balance is zero.
LEMMA PauseKeeps ==
    ASSUME PauseTypeOK, WriterInv, PauseIsKept, PauseNext
    PROVE  WriterInv' /\ PauseIsKept'
<1>1. \A p \in Writers : HonestWriter(p) /\ writer[p] \in WriterType
  BY DEF WriterInv, HonestWriter, PauseTypeOK
<1>2. exhausted => connects = 0
  BY DEF WriterInv
<1>3. ASSUME exhausted' => connects' = 0, \A p \in Writers : HonestWriter(p)' PROVE WriterInv'
  BY <1>3 DEF WriterInv, HonestWriter
<1>4. Probers \subseteq Writers
  BY DEF Writers
<1>5. ASSUME NEW p \in Writers, UNCHANGED <<auto, connects, exhausted, raced, file>>,
             \A q \in Writers \ {p} : writer'[q] = writer[q], HonestWriter(p)'
      PROVE  WriterInv' /\ PauseIsKept'
  <2>1. \A q \in Writers : HonestWriter(q)'
    BY <1>1, <1>5 DEF HonestWriter
  <2> QED
    BY <1>2, <1>3, <1>5, <2>1 DEF PauseIsKept, Loaded
<1>6. ASSUME NEW p \in Probers, ProberDies(p) PROVE WriterInv' /\ PauseIsKept'
  BY <1>4, <1>5, <1>6 DEF ProberDies, PauseTypeOK, HonestWriter, Resting
<1>7. ASSUME NEW p \in Probers, NEW f \in Findings, Look(p, f) PROVE WriterInv' /\ PauseIsKept'
  <2>1. writer'[p].pc = "seen" /\ (writer'[p].saw = "available" => connects > 0)
    BY <1>4, <1>7 DEF Look, PauseTypeOK, Resting
  <2> QED
    BY <1>4, <1>5, <1>7, <2>1 DEF Look, PauseTypeOK, HonestWriter
<1>8. ASSUME NEW p \in Writers, ReadFile(p) PROVE WriterInv' /\ PauseIsKept'
  <2>1. UNCHANGED <<auto, connects, exhausted, raced, file>> /\ writer[p].pc = "seen"
        /\ \A q \in Writers \ {p} : writer'[q] = writer[q]
    BY <1>8 DEF ReadFile, PauseTypeOK
  <2>2. CASE writer' = [writer EXCEPT ![p] = Resting]
    BY <1>5, <2>1, <2>2 DEF PauseTypeOK, HonestWriter, Resting
  <2>3. ASSUME NEW d \in Decision(p),
               writer' = [writer EXCEPT ![p].pc = "writing", ![p].paused = d.paused,
                                        ![p].until = d.until]
        PROVE  WriterInv' /\ PauseIsKept'
    <3>1. /\ writer'[p].pc = "writing" /\ writer'[p].saw = writer[p].saw
          /\ writer'[p].overtaken = writer[p].overtaken /\ writer'[p].paused = d.paused
      BY <1>1, <2>3 DEF PauseTypeOK, WriterType
    <3>2. writer[p].saw \in Findings
      BY <1>1 DEF WriterType
    <3>3. writer[p].saw = "exhausted" => d.paused
      BY <2>3 DEF Decision
    <3>4. writer[p].saw = "unclear" /\ ~d.paused => Loaded /\ ~file.paused
      <4> SUFFICES ASSUME writer[p].saw = "unclear", ~d.paused PROVE Loaded /\ ~file.paused
        OBVIOUS
      <4>1. CASE Loaded
        BY <2>3, <4>1 DEF Decision
      <4>2. CASE ~Loaded
        BY <2>3, <4>2 DEF Decision
      <4> QED
        BY <4>1, <4>2
    <3>5. writer[p].saw = "unclear" /\ ~d.paused /\ auto /\ ~raced => ~exhausted
      BY <3>4 DEF PauseIsKept
    <3> QED
      BY <1>1, <1>5, <2>1, <3>1, <3>3, <3>5 DEF HonestWriter
  <2> QED
    BY <1>8, <2>2, <2>3 DEF ReadFile
<1>9. ASSUME NEW p \in Writers, Truncate(p) PROVE WriterInv' /\ PauseIsKept'
  <2> DEFINE w == [writer EXCEPT ![p].pc = "filling"]
  <2>1. /\ w \in [Writers -> WriterType] /\ writer[p].pc = "writing"
        /\ \A q \in Writers \ {p} : w[q] = writer[q]
        /\ w[p].pc = "filling" /\ w[p].saw = writer[p].saw /\ w[p].paused = writer[p].paused
        /\ w[p].overtaken = writer[p].overtaken
    BY <1>1, <1>9 DEF Truncate, PauseTypeOK, WriterType
  <2>2. writer' = Overtake(w, Writers \ {p}) /\ UNCHANGED <<auto, connects, exhausted, raced>>
    BY <1>9 DEF Truncate
  <2> HIDE DEF w
  <2>3. \A q \in Writers : /\ writer'[q].pc = w[q].pc /\ writer'[q].saw = w[q].saw
                           /\ writer'[q].paused = w[q].paused
                           /\ ~writer'[q].overtaken => ~w[q].overtaken
    <3>1. Writers \ {p} \in SUBSET Writers
      OBVIOUS
    <3> QED
      BY <2>1, <2>2, <3>1, Overtaking
  <2>4. ASSUME NEW q \in Writers PROVE HonestWriter(q)'
    <3>1. q # p => w[q] = writer[q]
      BY <2>1
    <3>2. HonestWriter(q) /\ UNCHANGED <<auto, connects, exhausted, raced>>
      BY <1>1, <2>2
    <3> QED
      BY <2>1, <2>3, <3>1, <3>2 DEF HonestWriter
  <2>5. PauseIsKept'
    BY <1>9 DEF Truncate, PauseIsKept, Loaded, Torn, NoFile
  <2> QED
    BY <1>2, <1>3, <2>2, <2>4, <2>5
<1>10. ASSUME NEW p \in Writers, Fill(p) PROVE WriterInv' /\ PauseIsKept'
  <2> DEFINE w == [writer EXCEPT ![p] = Resting]
             mine == [state |-> "written", paused |-> writer[p].paused, until |-> writer[p].until]
  <2>1. /\ w \in [Writers -> WriterType]
        /\ \A q \in Writers \ {p} : w[q] = writer[q]
        /\ w[p].pc = "idle"
    BY <1>10 DEF PauseTypeOK, WriterType, Resting, Findings, Dates
  <2>2. /\ writer[p].pc = "filling" /\ writer' = Overtake(w, Writers \ {p})
        /\ file' \in {mine, Torn} /\ UNCHANGED <<auto, connects>>
        /\ exhausted' = (exhausted \/ (file' = mine /\ mine.paused /\ connects = 0))
        /\ raced' = (writer[p].overtaken \/ (writer[p].saw = "unclear" /\ raced))
    BY <1>10 DEF Fill
  <2> HIDE DEF w
  <2>3. \A q \in Writers : /\ writer'[q].pc = w[q].pc /\ writer'[q].saw = w[q].saw
                           /\ writer'[q].paused = w[q].paused
                           /\ q # p /\ w[q].pc # "idle" => writer'[q].overtaken
    <3>1. Writers \ {p} \in SUBSET Writers
      OBVIOUS
    <3> QED
      BY <2>1, <2>2, <3>1, Overtaking
  <2>4. \A q \in Writers : HonestWriter(q)'
    <3> SUFFICES ASSUME NEW q \in Writers, q # p, writer[q].pc # "idle" PROVE HonestWriter(q)'
      BY <2>1, <2>3 DEF HonestWriter
    <3>1. writer'[q].overtaken
      BY <2>1, <2>3
    <3> QED
      BY <1>1, <2>1, <2>3, <3>1 DEF HonestWriter
  <2>5. exhausted' => connects' = 0
    BY <1>2, <2>2
  <2>6. ASSUME exhausted', auto', ~raced', Loaded' PROVE file'.paused
    <3>1. file' = mine /\ ~writer[p].overtaken /\ (writer[p].saw = "unclear" => ~raced) /\ auto
      BY <2>2, <2>6 DEF Loaded, Torn, NoFile
    <3>2. CASE exhausted
      <4>1. connects = 0 /\ writer[p].saw \in Findings
        BY <1>1, <1>2, <3>2 DEF WriterType
      <4>2. writer[p].paused
        BY <1>1, <2>2, <3>1, <3>2, <4>1 DEF HonestWriter, Findings
      <4> QED
        BY <3>1, <4>2
    <3>3. CASE ~exhausted
      BY <2>2, <2>6, <3>3
    <3> QED
      BY <3>2, <3>3
  <2>7. PauseIsKept'
    BY <2>6 DEF PauseIsKept
  <2> QED
    BY <1>3, <2>4, <2>5, <2>7
<1>11. ASSUME UNCHANGED auto, writer' = Overtake(writer, Writers), exhausted' => connects' = 0,
              PauseIsKept'
       PROVE  WriterInv' /\ PauseIsKept'
  <2>1. \A q \in Writers : /\ writer'[q].pc = writer[q].pc /\ writer'[q].saw = writer[q].saw
                           /\ writer'[q].paused = writer[q].paused
                           /\ writer[q].pc # "idle" => writer'[q].overtaken
    BY <1>11, Overtaking DEF PauseTypeOK
  <2>2. \A q \in Writers : HonestWriter(q)'
    BY <1>1, <2>1 DEF HonestWriter
  <2> QED
    BY <1>3, <1>11, <2>2
<1>12. CASE ClearElapsed
  BY <1>2, <1>11, <1>12 DEF ClearElapsed, PauseIsKept
<1>13. CASE ManualDatePasses
  <2>1. \A q \in Writers : HonestWriter(q)'
    BY <1>1, <1>13 DEF ManualDatePasses, HonestWriter
  <2> QED
    BY <1>2, <1>3, <1>13, <2>1 DEF ManualDatePasses, PauseIsKept, Loaded
<1>14. CASE ReplenishDatePasses
  <2>1. \A q \in Writers : HonestWriter(q)'
    BY <1>1, <1>14 DEF ReplenishDatePasses, HonestWriter
  <2> QED
    BY <1>2, <1>3, <1>14, <2>1 DEF ReplenishDatePasses, PauseIsKept, Loaded, PauseTypeOK, FileType
<1>15. CASE Replenish
  BY <1>11, <1>15 DEF Replenish, PauseIsKept
<1> QED
  BY <1>6, <1>7, <1>8, <1>9, <1>10, <1>12, <1>13, <1>14, <1>15 DEF PauseNext, Write
\* The bot, told of the limit by a page, keeps what the pause rests on.
LEMMA LimitKeeps ==
    ASSUME PauseTypeOK, WriterInv, PauseIsKept, RecordLimit, PauseSame
    PROVE  PauseTypeOK' /\ WriterInv' /\ PauseIsKept'
<1>1. [Resting EXCEPT !.pc = "seen", !.saw = "exhausted"] \in WriterType /\ Bot \in Writers
  BY DEF Resting, WriterType, Findings, Dates, Writers
<1>2. PauseTypeOK' /\ PauseIsKept'
  BY <1>1 DEF RecordLimit, PauseSame, PauseTypeOK, PauseIsKept, Loaded
<1>3. writer'[Bot].pc = "seen" /\ writer'[Bot].saw = "exhausted"
      /\ \A q \in Writers \ {Bot} : writer'[q] = writer[q]
  BY <1>1 DEF RecordLimit, PauseTypeOK, Resting
<1>4. WriterInv'
  BY <1>3 DEF WriterInv, PauseSame
<1> QED
  BY <1>2, <1>4

-----------------------------------------------------------------------------
(* The calls.                                                              *)

\* What the invariant asks of a state a call may move to without a press: nothing
\* is told before it returns, what is told as failed was not taken, and the stages
\* before the press are only reached from each other.
Sound(c, r) ==
    /\ r \in CallType
    /\ r.pc # "clicked"
    /\ r.pc # "done" => r.told = "none" /\ call[c].pc \notin {"clicked", "done"}
    /\ r.told = "failed" => offer[c] # "sent"

Moves(c) ==
    /\ \E r : Sound(c, r) /\ call' = [call EXCEPT ![c] = r]
    /\ lock' \in {lock, c, NoCall}
    /\ UNCHANGED <<offer, clicks>>

\* A call that moves without a press keeps the part of the invariant about calls.
LEMMA MovesKeep ==
    ASSUME TypeOK, CallInv, EffectIsAmbiguous, OneClickPerCall,
           NEW c \in Calls, Moves(c), PauseTypeOK'
    PROVE  /\ TypeOK' /\ CallInv'
           /\ EffectIsAmbiguous' /\ OneClickPerCall'
<1>1. PICK r : Sound(c, r) /\ call' = [call EXCEPT ![c] = r]
  BY DEF Moves
<1>2. /\ lock' \in Calls \cup {NoCall} /\ UNCHANGED <<offer, clicks>>
      /\ call' \in [Calls -> CallType]
      /\ call'[c] = r /\ \A d \in Calls \ {c} : call'[d] = call[d]
  BY <1>1 DEF Moves, Sound, TypeOK
<1>3. TypeOK'
  BY <1>2 DEF TypeOK
<1>4. CallInv'
  BY <1>1, <1>2 DEF CallInv, Sound
<1>5. EffectIsAmbiguous'
  BY <1>1, <1>2 DEF EffectIsAmbiguous, Sound
<1> QED
  BY <1>2, <1>3, <1>4, <1>5 DEF OneClickPerCall

\* A call that returns says "failed" only of what the platform did not take.
LEMMA ReturnMoves ==
    ASSUME NEW c \in Calls, NEW told \in {"failed", "ambiguous"}, Return(c, told),
           told = "failed" => offer[c] # "sent", UNCHANGED <<offer, clicks>>
    PROVE  Moves(c)
<1> DEFINE r == [Fresh EXCEPT !.pc = "done", !.told = told]
<1>1. Proxies \in 1 .. Proxies
  OBVIOUS
<1>2. r \in CallType /\ r.pc = "done" /\ r.told = told
  BY <1>1 DEF Fresh, CallType, Stages
<1> HIDE DEF r
<1>3. Sound(c, r)
  BY <1>2 DEF Sound
<1>4. call' = [call EXCEPT ![c] = r] /\ lock' = NoCall
  BY DEF Return, r
<1> QED
  BY <1>3, <1>4 DEF Moves

\* Before the press, every answer is true of a call the platform has taken nothing of.
LEMMA EarlyReturn ==
    ASSUME TypeOK, CallInv, NEW c \in Calls, NEW told \in {"failed", "ambiguous"}, Return(c, told),
           call[c].pc \notin {"clicked", "done"}, UNCHANGED <<offer, clicks>>
    PROVE  Moves(c)
BY ReturnMoves DEF CallInv

\* A failure with its list of steps is told as ambiguous once a press was noted.
LEMMA NotedReturn ==
    ASSUME TypeOK, CallInv, NEW c \in Calls, Return(c, AsNoted(c)),
           call[c].pc # "done", UNCHANGED <<offer, clicks>>
    PROVE  Moves(c)
<1>1. AsNoted(c) \in {"failed", "ambiguous"}
  BY DEF AsNoted
<1>2. AsNoted(c) = "failed" => offer[c] # "sent"
  BY DEF AsNoted, CallInv
<1> QED
  BY <1>1, <1>2, ReturnMoves

\* The next connection is tried before anything was pressed.
LEMMA NextConnection ==
    ASSUME TypeOK, CallInv, NEW c \in Calls, TryNext(c),
           call[c].pc \in {"launching", "connecting"}, UNCHANGED <<offer, clicks>>
    PROVE  Moves(c)
<1>1. CASE call[c].left > 1
  <2> DEFINE r == [call[c] EXCEPT !.left = @ - 1, !.pc = "launching"]
  <2>1. call[c] \in CallType /\ call[c].told = "none"
    BY DEF TypeOK, CallInv
  <2>2. call[c].left - 1 \in 1 .. Proxies
    BY <1>1, <2>1 DEF CallType
  <2>3. Sound(c, r)
    BY <2>1, <2>2 DEF Sound, CallType, Stages
  <2>4. call' = [call EXCEPT ![c] = r] /\ UNCHANGED lock
    BY <1>1 DEF TryNext
  <2> QED
    BY <2>3, <2>4 DEF Moves
<1>2. CASE ~(call[c].left > 1)
  BY <1>2, EarlyReturn DEF TryNext
<1> QED
  BY <1>1, <1>2

\* The steps that only advance a call which has not pressed.
LEMMA AdvanceMoves ==
    ASSUME TypeOK, CallInv, NEW c \in Calls, UNCHANGED <<offer, clicks>>,
           call[c].pc \notin {"clicked", "done"}, lock' \in {lock, c},
           NEW pc \in {"waiting", "launching", "connecting", "opening", "form", "filled",
               "verified"},
           NEW edit \in BOOLEAN, NEW noted \in BOOLEAN,
           call' = [call EXCEPT ![c] = [call[c] EXCEPT !.pc = pc, !.edit = edit,
                                                       !.noted = noted]]
    PROVE  Moves(c)
<1> DEFINE r == [call[c] EXCEPT !.pc = pc, !.edit = edit, !.noted = noted]
<1>1. call[c] \in CallType /\ call[c].told = "none"
  BY DEF TypeOK, CallInv
<1>2. Sound(c, r)
  BY <1>1 DEF Sound, CallType, Stages
<1> QED
  BY <1>2 DEF Moves

\* Every step but the press moves a call soundly.
LEMMA StepMoves ==
    ASSUME TypeOK, CallInv, NEW c \in Calls, CallStep(c), ~Click(c)
    PROVE  Moves(c)
<1>1. call[c] \in CallType
  BY DEF TypeOK
<1>2. /\ call[c].edit \in BOOLEAN /\ call[c].noted \in BOOLEAN
      /\ TRUE \in BOOLEAN
  BY <1>1 DEF CallType
<1>3. CASE RefusedByPause(c)
  <2> DEFINE r == [call[c] EXCEPT !.pc = "done", !.told = "failed"]
  <2>1. offer[c] # "sent"
    BY <1>3 DEF RefusedByPause, CallInv
  <2>2. Sound(c, r)
    BY <1>1, <2>1 DEF Sound, CallType, Stages
  <2>3. call' = [call EXCEPT ![c] = r] /\ UNCHANGED <<lock, offer, clicks>>
    BY <1>3 DEF RefusedByPause, CallOnly
  <2> QED
    BY <2>2, <2>3 DEF Moves
<1>4. ASSUME UNCHANGED <<offer, clicks>>, call[c].pc \notin {"clicked", "done"},
             lock' \in {lock, c},
             \E pc \in {"waiting", "launching", "connecting", "opening", "form", "filled",
               "verified"},
                edit \in BOOLEAN, noted \in BOOLEAN :
                 call' = [call EXCEPT ![c] = [call[c] EXCEPT !.pc = pc, !.edit = edit,
                                                             !.noted = noted]]
      PROVE  Moves(c)
  BY <1>4, AdvanceMoves
<1>5. ASSUME NEW pc \in {"waiting", "launching", "connecting", "opening", "form", "filled",
               "verified"},
             call' = [call EXCEPT ![c].pc = pc], UNCHANGED <<offer, clicks>>,
             call[c].pc \notin {"clicked", "done"}, lock' \in {lock, c}
      PROVE  Moves(c)
  <2>1. call' = [call EXCEPT ![c] = [call[c] EXCEPT !.pc = pc, !.edit = call[c].edit,
                                     !.noted = call[c].noted]]
    BY <1>1, <1>5 DEF CallType
  <2>2. PICK edit \in BOOLEAN, noted \in BOOLEAN :
            call' = [call EXCEPT ![c] = [call[c] EXCEPT !.pc = pc, !.edit = edit,
                                                        !.noted = noted]]
    BY <1>2, <2>1
  <2> QED
    BY <1>5, <2>2, AdvanceMoves
<1>6. CASE Start(c)
  <2>1. PICK edit \in BOOLEAN : call' = [call EXCEPT ![c].pc = "waiting", ![c].edit = edit]
    BY <1>6 DEF Start
  <2>2. call' = [call EXCEPT ![c] = [call[c] EXCEPT !.pc = "waiting", !.edit = edit,
                                     !.noted = call[c].noted]]
    BY <1>1, <2>1 DEF CallType
  <2> QED
    BY <1>2, <1>4, <1>6, <2>2 DEF Start, CallOnly
<1>7. CASE Enter(c)
  <2>1. call' = [call EXCEPT ![c].pc = "launching"]
    BY <1>7 DEF Enter
  <2> QED
    BY <1>5, <1>7, <2>1 DEF Enter, CallOnly
<1>8. CASE BrowserStarts(c)
  <2>1. call' = [call EXCEPT ![c].pc = "connecting"]
    BY <1>8 DEF BrowserStarts
  <2> QED
    BY <1>5, <1>8, <2>1 DEF BrowserStarts, CallOnly
<1>9. CASE LoggedIn(c)
  <2>1. call' = [call EXCEPT ![c].pc = "opening"]
    BY <1>9 DEF LoggedIn
  <2> QED
    BY <1>5, <1>9, <2>1 DEF LoggedIn, CallOnly
<1>10. CASE OpenForm(c)
  <2>1. call' = [call EXCEPT ![c].pc = "form"]
    BY <1>10 DEF OpenForm
  <2> QED
    BY <1>5, <1>10, <2>1 DEF OpenForm, CallOnly
<1>11. CASE OpenFromProject(c)
  <2>1. call' = [call EXCEPT ![c] = [call[c] EXCEPT !.pc = "form", !.edit = call[c].edit,
                                     !.noted = TRUE]]
    BY <1>1, <1>11 DEF OpenFromProject, CallType
  <2> QED
    BY <1>2, <1>4, <1>11, <2>1 DEF OpenFromProject, CallOnly
<1>12. CASE FillForm(c) \/ Verify(c)
  <2>1. PICK pc \in {"filled", "verified"} : call' = [call EXCEPT ![c].pc = pc]
    BY <1>12 DEF FillForm, Verify
  <2> QED
    BY <1>5, <1>12, <2>1 DEF FillForm, Verify, CallOnly
<1>13. CASE BrowserFails(c) \/ LoginFails(c)
  BY <1>13, NextConnection DEF BrowserFails, LoginFails, CallOnly
<1>14. CASE InvalidPayload(c) \/ CannotOpen(c) \/ OfferBlocked(c) \/ OfferExists(c) \/ Mismatch(c)
  BY <1>14, EarlyReturn DEF InvalidPayload, CannotOpen, OfferBlocked, OfferExists, Mismatch, CallOnly
<1>15. CASE LimitAtOpening(c)
  <2>1. PICK told \in {"failed", "ambiguous"} : Return(c, told)
    BY <1>15 DEF LimitAtOpening
  <2> QED
    BY <1>15, <2>1, EarlyReturn DEF LimitAtOpening
<1>16. CASE PressLeadsNowhere(c) \/ OfferSeen(c) \/ Raises(c)
  BY <1>16, ReturnMoves DEF PressLeadsNowhere, OfferSeen, Raises, CallOnly
<1>17. CASE SellerNotReady(c) \/ LessonRequired(c) \/ FormUnusable(c) \/ NoButton(c)
             \/ StaysOnForm(c) \/ OfferNotSeen(c)
  BY <1>17, NotedReturn DEF SellerNotReady, LessonRequired, FormUnusable, NoButton, StaysOnForm,
                            OfferNotSeen, CallOnly
<1> QED
  BY <1>3, <1>6, <1>7, <1>8, <1>9, <1>10, <1>11, <1>12, <1>13, <1>14, <1>15, <1>16, <1>17
     DEF CallStep
-----------------------------------------------------------------------------
(* The invariant.                                                          *)

\* A step of a call other than the press or a limit leaves the pause alone.
LEMMA StepPause ==
    ASSUME NEW c \in Calls, CallStep(c), ~Click(c)
    PROVE  UNCHANGED pauseVars \/ (RecordLimit /\ PauseSame)
<1>1. UNCHANGED writer /\ PauseSame => UNCHANGED pauseVars
  BY DEF PauseSame, pauseVars
<1> QED
  BY <1>1 DEF CallStep, RefusedByPause, Start, InvalidPayload, Enter, BrowserStarts, BrowserFails,
       LoginFails, LoggedIn, OpenForm, OpenFromProject, CannotOpen, PressLeadsNowhere, OfferBlocked,
       OfferExists, LimitAtOpening, SellerNotReady, LessonRequired, FormUnusable, FillForm, Verify,
       Mismatch,
       NoButton, StaysOnForm, OfferSeen, OfferNotSeen, Raises, CallOnly

\* What does not touch the pause keeps what is known of it.
LEMMA PauseUntouched ==
    ASSUME PauseTypeOK, WriterInv, PauseIsKept, UNCHANGED pauseVars
    PROVE  PauseTypeOK' /\ WriterInv' /\ PauseIsKept'
BY DEF pauseVars, PauseTypeOK, WriterInv, PauseIsKept, Loaded

\* The press: it is noted and is the call's first, and connects it costs were there.
LEMMA ClickKeeps ==
    ASSUME IInv, NEW c \in Calls, Click(c)
    PROVE  IInv'
<1> DEFINE w == Overtake(writer, Writers)
<1>1. /\ call[c] \in CallType /\ call[c].pc = "verified"
      /\ call[c].told = "none"
      /\ clicks[c] = 0 /\ offer[c] # "sent"
  BY DEF IInv, TypeOK, CallInv, Click
<1>2. PICK page \in {"form", "elsewhere"} :
          call' = [call EXCEPT ![c] = [call[c] EXCEPT !.pc = "clicked", !.noted = TRUE, !.page = page]]
  <2>1. PICK page \in {"form", "elsewhere"} :
            call' = [call EXCEPT ![c].pc = "clicked", ![c].noted = TRUE, ![c].page = page]
    BY DEF Click
  <2> QED
    BY <1>1, <2>1 DEF CallType
<1>3. /\ call'[c].pc = "clicked" /\ call'[c].noted /\ call'[c].told = "none"
      /\ call' \in [Calls -> CallType]
      /\ \A d \in Calls \ {c} : call'[d] = call[d]
  <2>1. [call[c] EXCEPT !.pc = "clicked", !.noted = TRUE, !.page = page] \in CallType
    BY <1>1 DEF CallType, Stages
  <2> QED
    BY <1>1, <1>2, <2>1 DEF IInv, TypeOK, CallType
<1>4. /\ UNCHANGED <<lock, auto, manual, replenished, file, crashes, exhausted, raced>>
      /\ clicks' = [clicks EXCEPT ![c] = clicks[c] + 1]
  BY DEF Click
<1>5. \/ UNCHANGED <<offer, connects, writer>>
      \/ /\ call[c].edit \/ connects > 0
         /\ offer' = [offer EXCEPT ![c] = "sent"]
         /\ \/ UNCHANGED <<connects, writer>>
            \/ connects > 0 /\ connects' = connects - 1 /\ writer' = w
  BY <1>1 DEF Click
<1>6. PauseTypeOK /\ WriterInv /\ PauseIsKept
  BY DEF IInv, TypeOK
<1>7. PauseTypeOK' /\ WriterInv' /\ PauseIsKept'
  <2>1. CASE UNCHANGED <<connects, writer>>
    BY <1>4, <1>6, <2>1, PauseUntouched DEF pauseVars
  <2>2. CASE connects > 0 /\ connects' = connects - 1 /\ writer' = w
    <3>1. ~exhausted
      BY <1>6, <2>2 DEF WriterInv, PauseTypeOK
    <3>2. /\ writer' \in [Writers -> WriterType]
          /\ \A q \in Writers : /\ writer'[q].pc = writer[q].pc /\ writer'[q].saw = writer[q].saw
                                /\ writer'[q].paused = writer[q].paused
                                /\ writer[q].pc # "idle" => writer'[q].overtaken
      BY <1>6, <2>2, Overtaking DEF PauseTypeOK
    <3>3. connects' \in 0 .. MaxConnects
      BY <1>6, <2>2 DEF PauseTypeOK
    <3>4. PauseTypeOK'
      BY <1>4, <1>6, <3>2, <3>3 DEF PauseTypeOK
    <3>5. WriterInv'
      BY <1>4, <1>6, <3>1, <3>2 DEF WriterInv
    <3> QED
      BY <1>4, <3>1, <3>4, <3>5 DEF PauseIsKept
  <2> QED
    BY <1>5, <2>1, <2>2
<1>8. /\ clicks' \in [Calls -> Nat] /\ clicks'[c] = 1
      /\ \A d \in Calls \ {c} : clicks'[d] = clicks[d]
  BY <1>1, <1>4 DEF IInv, TypeOK
<1>9. /\ offer' \in [Calls -> {"none", "older", "sent"}]
      /\ \A d \in Calls \ {c} : offer'[d] = offer[d]
  BY <1>5 DEF IInv, TypeOK
<1>10. TypeOK'
  BY <1>3, <1>4, <1>7, <1>8, <1>9 DEF IInv, TypeOK
<1>11. CallInv' /\ EffectIsAmbiguous'
  BY <1>3, <1>8, <1>9 DEF IInv, CallInv, EffectIsAmbiguous
<1>12. OneClickPerCall'
  BY <1>8, <1>9 DEF IInv, OneClickPerCall
<1> QED
  BY <1>7, <1>10, <1>11, <1>12 DEF IInv

\* A bot that dies tells nothing of the calls it had begun.
LEMMA DeathKeeps == IInv /\ BotDies => IInv'
<1> SUFFICES ASSUME IInv, BotDies PROVE IInv'
  OBVIOUS
<1>1. Bot \in Writers /\ Resting \in WriterType /\ Resting.pc = "idle"
  BY DEF Writers, Resting, WriterType, Findings, Dates
<1>2. writer' = [writer EXCEPT ![Bot] = Resting] /\ writer \in [Writers -> WriterType]
  BY DEF BotDies, IInv, TypeOK, PauseTypeOK
<1>3. PauseTypeOK' /\ WriterInv' /\ PauseIsKept'
  <2>1. writer' \in [Writers -> WriterType] /\ writer'[Bot].pc = "idle"
        /\ \A q \in Writers \ {Bot} : writer'[q] = writer[q]
    BY <1>1, <1>2
  <2>2. crashes' \in 0 .. MaxCrashes
    <3>1. MaxCrashes \in Nat /\ crashes \in 0 .. MaxCrashes
      BY DEF IInv, TypeOK, PauseTypeOK
    <3>2. crashes < MaxCrashes /\ crashes' = crashes + 1
      BY DEF BotDies
    <3> QED
      BY <3>1, <3>2
  <2>3. PauseTypeOK'
    BY <2>1, <2>2 DEF BotDies, IInv, TypeOK, PauseTypeOK
  <2> QED
    BY <2>1, <2>3 DEF BotDies, IInv, WriterInv, PauseIsKept, Loaded
<1>4. ASSUME NEW c \in Calls
      PROVE  /\ call'[c] \in CallType /\ call'[c].told = call[c].told
             /\ call'[c] = call[c] \/ call'[c].pc = "done"
  <2>1. call[c] \in CallType
    BY DEF IInv, TypeOK
  <2>2. [Fresh EXCEPT !.pc = "done", !.told = call[c].told] \in CallType
    <3>1. Proxies \in 1 .. Proxies
      OBVIOUS
    <3> QED
      BY <2>1, <3>1 DEF Fresh, CallType, Stages
  <2>3. call'[c] = IF call[c].pc = "idle" THEN call[c]
                   ELSE [Fresh EXCEPT !.pc = "done", !.told = call[c].told]
    BY DEF BotDies
  <2> QED
    BY <2>1, <2>2, <2>3 DEF Fresh
<1>5. call' \in [Calls -> CallType]
  BY <1>4 DEF BotDies
<1>6. TypeOK'
  BY <1>3, <1>5 DEF BotDies, IInv, TypeOK
<1>7. UNCHANGED <<clicks, offer>>
  BY DEF BotDies
<1>8. CallInv'
  BY <1>4, <1>7 DEF IInv, CallInv
<1>9. EffectIsAmbiguous' /\ OneClickPerCall'
  BY <1>4, <1>7 DEF IInv, EffectIsAmbiguous, OneClickPerCall
<1> QED
  BY <1>3, <1>6, <1>8, <1>9 DEF IInv

\* Initially nothing was called, and no pause is recorded.
LEMMA InitIInv == Init => IInv
<1> SUFFICES ASSUME Init PROVE IInv
  OBVIOUS
<1>1. MaxReplenish \in Nat /\ MaxCrashes \in Nat /\ Proxies \in 1 .. Proxies
  OBVIOUS
<1>2. PauseTypeOK
  <2>1. Resting \in WriterType /\ NoFile \in FileType
    BY DEF NoFile, FileType, Dates, Resting, WriterType, Findings
  <2>2. 0 \in 0 .. MaxReplenish /\ 0 \in 0 .. MaxCrashes
    BY <1>1
  <2>3. writer \in [Writers -> WriterType]
    BY <2>1 DEF Init, PauseInit
  <2> QED
    BY <2>1, <2>2, <2>3 DEF Init, PauseInit, PauseTypeOK
<1>3. Fresh \in CallType /\ Fresh.pc = "idle" /\ Fresh.told = "none"
  BY <1>1 DEF Fresh, CallType, Stages
<1>4. TypeOK
  BY <1>2, <1>3 DEF Init, TypeOK
<1>5. CallInv /\ EffectIsAmbiguous /\ OneClickPerCall
  BY <1>3 DEF Init, CallInv, EffectIsAmbiguous, OneClickPerCall
<1>6. WriterInv /\ PauseIsKept
  BY DEF Init, PauseInit, WriterInv, PauseIsKept, Resting
<1> QED
  BY <1>4, <1>5, <1>6 DEF IInv

\* The invariant is inductive.
LEMMA NextIInv == IInv /\ [Next]_vars => IInv'
<1> SUFFICES ASSUME IInv, [Next]_vars PROVE IInv'
  OBVIOUS
<1>1. PauseTypeOK /\ WriterInv /\ PauseIsKept
  BY DEF IInv, TypeOK
<1>2. ASSUME UNCHANGED callVars, PauseTypeOK', WriterInv', PauseIsKept' PROVE IInv'
  BY <1>2 DEF callVars, IInv, TypeOK, CallInv, EffectIsAmbiguous, OneClickPerCall
<1>3. CASE UNCHANGED vars
  BY <1>1, <1>2, <1>3, PauseUntouched DEF vars
<1>4. CASE PauseNext /\ UNCHANGED callVars
  BY <1>1, <1>2, <1>4, PauseTypes, PauseKeeps
<1>5. ASSUME NEW c \in Calls, CallStep(c), ~Click(c) PROVE IInv'
  <2>1. PauseTypeOK' /\ WriterInv' /\ PauseIsKept'
    BY <1>1, <1>5, StepPause, PauseUntouched, LimitKeeps
  <2>2. Moves(c)
    BY <1>5, StepMoves DEF IInv
  <2>3. /\ TypeOK' /\ CallInv'
        /\ EffectIsAmbiguous' /\ OneClickPerCall'
    BY <2>1, <2>2, MovesKeep DEF IInv
  <2> QED
    BY <2>1, <2>3 DEF IInv
<1> QED
  BY <1>3, <1>4, <1>5, ClickKeeps, DeathKeeps DEF Next

-----------------------------------------------------------------------------
(* The theorems.                                                           *)

(* Every reachable state satisfies the strengthened invariant: the types,  *)
(* what is known of the calls and of the pause, and how they hang together.*)
THEOREM InductiveInvariant == Spec => []IInv
BY InitIInv, NextIInv, PTL DEF Spec

(* A delivery the sender may repeat, because it was told as failed, was    *)
(* not taken by the platform, whatever pages, connections and exceptions   *)
(* the call met.                                                           *)
THEOREM EffectsAreAmbiguous == Spec => []EffectIsAmbiguous
<1>1. IInv => EffectIsAmbiguous
  BY DEF IInv
<1> QED
  BY <1>1, InductiveInvariant, PTL

(* One call presses the button at most once, however many connections it   *)
(* tries.                                                                  *)
THEOREM OneClick == Spec => []OneClickPerCall
<1>1. IInv => OneClickPerCall
  BY DEF IInv
<1> QED
  BY <1>1, InductiveInvariant, PTL

(* A recorded pause stands while the balance is zero, for any number of    *)
(* probing tasks without a lock on the file, unless its writer was         *)
(* overtaken between its look at the page and its write.                   *)
THEOREM PauseStands == Spec => []PauseIsKept
<1>1. IInv => PauseIsKept
  BY DEF IInv
<1> QED
  BY <1>1, InductiveInvariant, PTL
=============================================================================
