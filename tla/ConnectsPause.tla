---------------------------- MODULE ConnectsPause ----------------------------
(***************************************************************************)
(* The pause of Kwork offers when the account has no connects left         *)
(* (services/kwork_pause.py and the probe in services/kwork_browser.py).   *)
(*                                                                         *)
(* The pause lives in one JSON file that several processes rewrite without *)
(* a lock: each reads the file, truncates it and fills it.  A file caught  *)
(* in between does not parse and counts as no pause.  Within one process   *)
(* nothing runs between the three steps.  Dates are "none", "ahead" or     *)
(* "passed".                                                               *)
(***************************************************************************)
EXTENDS Naturals

CONSTANTS
    Probers,            \* tasks that look at the balance: the pause task, the scrape task
    PauseTask,          \* the one that also probes while the pause is on
    Bot,                \* the process that sends offers
    MaxConnects,        \* bound: connects of the account
    MaxReplenish,       \* bound: replenishments
    MaxCrashes          \* bound: processes that die

ASSUME PauseAssumption ==
    /\ PauseTask \in Probers /\ Bot \notin Probers
    /\ {MaxConnects, MaxReplenish, MaxCrashes} \subseteq Nat

VARIABLES
    auto,       \* KWORK_PAUSE_AUTO, fixed when the processes start
    manual,     \* KWORK_PAUSE_UNTIL is a date ahead
    connects,   \* balance on the platform
    replenished,
    file,       \* data/kwork_connects_pause.json
    writer,     \* each process between its look at the page and its write
    crashes,
    exhausted,  \* history: the balance was zero when a pause was written, and still is
    raced       \* history: the file's writer was overtaken by another one or by the platform

pauseVars == <<auto, manual, connects, replenished, file, writer, crashes, exhausted, raced>>

Writers == Probers \cup {Bot}
Dates == {"none", "ahead", "passed"}
Findings == {"available", "exhausted", "unclear"}

FileType == [state: {"absent", "torn", "written"}, paused: BOOLEAN, until: Dates]
NoFile == [state |-> "absent", paused |-> FALSE, until |-> "none"]
Torn == [NoFile EXCEPT !.state = "torn"]

WriterType == [pc: {"idle", "seen", "writing", "filling"}, saw: Findings,
               paused: BOOLEAN, until: Dates, overtaken: BOOLEAN]
Resting == [pc |-> "idle", saw |-> "unclear", paused |-> FALSE, until |-> "none",
            overtaken |-> FALSE]

PauseInit ==
    /\ auto \in BOOLEAN /\ manual \in BOOLEAN
    /\ connects \in 0..MaxConnects /\ replenished = 0
    /\ file = NoFile
    /\ writer = [p \in Writers |-> Resting]
    /\ crashes = 0 /\ exhausted = FALSE /\ raced = FALSE

\* load_pause_state
Loaded == file.state = "written"

\* is_kwork_paused.  Under KWORK_PAUSE_AUTO the date alone does not end the pause.
PausedNow == IF Loaded /\ file.paused THEN auto \/ file.until # "passed" ELSE manual

\* The other processes that have looked at the page or the file and not written yet.
Overtake(w, others) == [q \in Writers |-> IF q \in others /\ w[q].pc # "idle"
                                          THEN [w[q] EXCEPT !.overtaken = TRUE] ELSE w[q]]

------------------------------------------------------------------------------
\* Mutant: the pause task, too, leaves a paused account alone.
MayProbeUnlessPaused(p) == auto /\ writer[p].pc = "idle" /\ ~PausedNow
\* refresh_kwork_pause_from_kwork; the scrape task refreshes only what is not paused.
MayProbe(p) == auto /\ writer[p].pc = "idle" /\ (p = PauseTask \/ ~PausedNow)

\* probe_kwork_connects_status.  A disabled button counts as exhausted whatever the
\* reason; a page that names a balance is believed; an error ends the probe.
Look(p, finding) ==
    /\ MayProbe(p)
    /\ finding = "available" => connects > 0
    /\ writer' = [writer EXCEPT ![p] = [Resting EXCEPT !.pc = "seen", !.saw = finding]]
    /\ UNCHANGED <<auto, manual, connects, replenished, file, crashes, exhausted, raced>>

\* Mutant: what the page does not say counts as available.
DecisionHopeful(p) ==
    IF writer[p].saw = "exhausted" THEN {[paused |-> TRUE, until |-> "ahead"]}
    ELSE {[paused |-> FALSE, until |-> "none"]}
\* What apply_connects_probe_result is going to write, from the page and the file.
Decision(p) ==
    CASE writer[p].saw = "available" -> {[paused |-> FALSE, until |-> "none"]}
      [] writer[p].saw = "exhausted" -> {[paused |-> TRUE, until |-> d] : d \in {"none", "ahead"}}
      [] writer[p].saw = "unclear" /\ Loaded ->
             {[paused |-> file.paused, until |-> file.until]}
      [] writer[p].saw = "unclear" /\ ~Loaded /\ auto /\ manual ->
             {[paused |-> TRUE, until |-> "ahead"]}
      [] OTHER -> {}

ReadFile(p) ==
    /\ writer[p].pc = "seen"
    /\ \/ \E d \in Decision(p) :
              writer' = [writer EXCEPT ![p].pc = "writing", ![p].paused = d.paused,
                                       ![p].until = d.until]
       \/ Decision(p) = {} /\ writer' = [writer EXCEPT ![p] = Resting]
    /\ UNCHANGED <<auto, manual, connects, replenished, file, crashes, exhausted, raced>>

Truncate(p) ==
    /\ writer[p].pc = "writing"
    /\ file' = Torn
    /\ writer' = Overtake([writer EXCEPT ![p].pc = "filling"], Writers \ {p})
    /\ UNCHANGED <<auto, manual, connects, replenished, crashes, exhausted, raced>>

\* Over another process' text a shorter one leaves a tail that does not parse.
Fill(p) ==
    LET mine == [state |-> "written", paused |-> writer[p].paused, until |-> writer[p].until]
    IN /\ writer[p].pc = "filling"
       /\ file' \in IF Loaded THEN {mine, Torn} ELSE {mine}
       /\ writer' = Overtake([writer EXCEPT ![p] = Resting], Writers \ {p})
       /\ exhausted' = (exhausted \/ (file' = mine /\ mine.paused /\ connects = 0))
       /\ raced' = (writer[p].overtaken \/ (writer[p].saw = "unclear" /\ raced))
       /\ UNCHANGED <<auto, manual, connects, replenished, crashes>>

\* is_kwork_paused, asked when the date of a manual pause has passed, removes the file.
ClearElapsed ==
    /\ Loaded /\ file.paused /\ file.until = "passed" /\ ~auto
    /\ file' = NoFile
    /\ writer' = Overtake(writer, Writers)
    /\ raced' = TRUE
    /\ UNCHANGED <<auto, manual, connects, replenished, crashes, exhausted>>

ManualDatePasses ==
    /\ manual /\ manual' = FALSE
    /\ UNCHANGED <<auto, connects, replenished, file, writer, crashes, exhausted, raced>>

ReplenishDatePasses ==
    /\ file.until = "ahead" /\ file' = [file EXCEPT !.until = "passed"]
    /\ UNCHANGED <<auto, manual, connects, replenished, writer, crashes, exhausted, raced>>

Replenish ==
    /\ replenished < MaxReplenish /\ connects < MaxConnects
    /\ connects' = MaxConnects /\ replenished' = replenished + 1
    /\ exhausted' = FALSE
    /\ writer' = Overtake(writer, Writers)
    /\ UNCHANGED <<auto, manual, file, crashes, raced>>

ProberDies(p) ==
    /\ writer[p].pc # "idle" /\ crashes < MaxCrashes
    /\ writer' = [writer EXCEPT ![p] = Resting] /\ crashes' = crashes + 1
    /\ UNCHANGED <<auto, manual, connects, replenished, file, exhausted, raced>>

Write(p) == ReadFile(p) \/ Truncate(p) \/ Fill(p)

PauseNext ==
    \/ \E p \in Probers : ProberDies(p) \/ \E f \in Findings : Look(p, f)
    \/ \E p \in Writers : Write(p)
    \/ ClearElapsed \/ ManualDatePasses \/ ReplenishDatePasses \/ Replenish

PauseTypeOK ==
    /\ auto \in BOOLEAN /\ manual \in BOOLEAN
    /\ connects \in 0..MaxConnects /\ replenished \in 0..MaxReplenish
    /\ file \in FileType
    /\ writer \in [Writers -> WriterType]
    /\ crashes \in 0..MaxCrashes
    /\ exhausted \in BOOLEAN /\ raced \in BOOLEAN
==============================================================================
