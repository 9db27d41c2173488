--------------------------- MODULE OfferSubmission ---------------------------
(***************************************************************************)
(* Sending one approved offer through the browser (services/               *)
(* kwork_browser.py, called by services/proposal_sender.py), together with *)
(* the pause it obeys and feeds (ConnectsPause).                           *)
(*                                                                         *)
(* The bot sends one offer at a time.  A call tries the direct connection  *)
(* and then the proxy until it is logged in, opens the form, fills it,     *)
(* reads it back, clicks and looks at the page it gets.  What the page     *)
(* shows is the platform's business and nondeterministic.  Whether a call  *)
(* is told as ambiguous is decided from the steps it has noted: one that   *)
(* begins with "click on" was noted.  ProposalDelivery assumes of a call   *)
(* what EffectIsAmbiguous states.                                          *)
(***************************************************************************)
EXTENDS ConnectsPause, FiniteSets

CONSTANTS
    Calls,          \* calls of the sender, each for another job
    Proxies         \* connections to try: the direct one and the configured proxy

ASSUME SubmissionAssumption == Proxies \in Nat \ {0}

VARIABLES
    call,       \* local state of each call
    lock,       \* _kwork_send_lock
    offer,      \* the account's offer on the job of the call, as the platform has it
    clicks      \* history: presses of the submit button

callVars == <<call, lock, offer, clicks>>
vars == <<pauseVars, callVars>>

NoCall == "nobody"
Stages == {"idle", "waiting", "launching", "connecting", "opening", "form", "filled",
           "verified", "clicked", "done"}

\* noted: a step that begins with "click on" is in the list; told: what
\* finalize_send_attempt is told, "none" until the call returns.
CallType == [pc: Stages, edit: BOOLEAN, left: 1..Proxies, noted: BOOLEAN,
             page: {"form", "elsewhere"},
             told: {"none", "failed", "ambiguous"}]
Fresh == [pc |-> "idle", edit |-> FALSE, left |-> Proxies, noted |-> FALSE,
          page |-> "form", told |-> "none"]

Init ==
    /\ PauseInit
    /\ call = [c \in Calls |-> Fresh]
    /\ lock = NoCall
    /\ offer \in [Calls -> {"none", "older"}]
    /\ clicks = [c \in Calls |-> 0]

\* The bot's event loop is not in the middle of writing the pause file.
BotRuns == writer[Bot].pc = "idle"

CallOnly == UNCHANGED <<pauseVars, offer, clicks>>

\* The call returns; the lock is free again.
Return(c, told) ==
    /\ call' = [call EXCEPT ![c] = [Fresh EXCEPT !.pc = "done", !.told = told]]
    /\ lock' = NoCall

\* Mutant: every failure is a known one.
AsNotedNever(c) == "failed"
\* How a failure with a list of steps is told.
AsNoted(c) == IF call[c].noted THEN "ambiguous" ELSE "failed"

\* record_connects_limit_detected, which runs to its end in the bot's process.
RecordLimit ==
    writer' = [writer EXCEPT ![Bot] = [Resting EXCEPT !.pc = "seen", !.saw = "exhausted"]]

PauseSame == UNCHANGED <<auto, manual, connects, replenished, file, crashes, exhausted, raced>>

------------------------------------------------------------------------------
\* ProposalSender._send_to_platform: a paused platform is not called.
RefusedByPause(c) ==
    /\ BotRuns /\ call[c].pc = "idle" /\ PausedNow
    /\ call' = [call EXCEPT ![c].pc = "done", ![c].told = "failed"]
    /\ UNCHANGED lock /\ CallOnly

Start(c) ==
    /\ BotRuns /\ call[c].pc = "idle" /\ ~PausedNow
    /\ \E edit \in BOOLEAN :
           call' = [call EXCEPT ![c].pc = "waiting", ![c].edit = edit]
    /\ UNCHANGED lock /\ CallOnly

\* validate_approved_submission: nothing is opened for a payload that is not complete.
InvalidPayload(c) ==
    /\ BotRuns /\ call[c].pc = "waiting" /\ lock = NoCall
    /\ Return(c, "failed")
    /\ CallOnly

\* send_kwork_offer
Enter(c) ==
    /\ BotRuns /\ call[c].pc = "waiting" /\ lock = NoCall
    /\ lock' = c /\ call' = [call EXCEPT ![c].pc = "launching"]
    /\ CallOnly

\* Mutant: one connection more than there are.
TryNextOnceMore(c) ==
    IF call[c].left > 0
    THEN call' = [call EXCEPT ![c].left = @ - 1, ![c].pc = "launching"] /\ UNCHANGED lock
    ELSE Return(c, "failed")
\* The next connection is tried, or the last failure is told.
TryNext(c) ==
    IF call[c].left > 1
    THEN call' = [call EXCEPT ![c].left = @ - 1, ![c].pc = "launching"] /\ UNCHANGED lock
    ELSE Return(c, "failed")

BrowserStarts(c) ==
    /\ BotRuns /\ call[c].pc = "launching"
    /\ call' = [call EXCEPT ![c].pc = "connecting"]
    /\ UNCHANGED lock /\ CallOnly

BrowserFails(c) ==
    /\ BotRuns /\ call[c].pc = "launching"
    /\ TryNext(c)
    /\ CallOnly

\* login: access is blocked, or the session and the credentials do not help.
LoginFails(c) ==
    /\ BotRuns /\ call[c].pc = "connecting"
    /\ TryNext(c)
    /\ CallOnly

LoggedIn(c) ==
    /\ BotRuns /\ call[c].pc = "connecting"
    /\ call' = [call EXCEPT ![c].pc = "opening"]
    /\ UNCHANGED lock /\ CallOnly

\* The form of a new offer, or of the offer there is.
OpenForm(c) ==
    /\ BotRuns /\ call[c].pc = "opening"
    /\ call[c].edit <=> offer[c] = "older"
    /\ call' = [call EXCEPT ![c].pc = "form"]
    /\ UNCHANGED lock /\ CallOnly

\* The form is reached by a press on the project's page, which is noted as well.
OpenFromProject(c) ==
    /\ BotRuns /\ call[c].pc = "opening" /\ ~call[c].edit /\ offer[c] = "none"
    /\ call' = [call EXCEPT ![c].pc = "form", ![c].noted = TRUE]
    /\ UNCHANGED lock /\ CallOnly

\* Access blocked, session gone; or an offer that is to be edited has no form.
CannotOpen(c) ==
    /\ BotRuns /\ call[c].pc = "opening"
    /\ Return(c, "failed")
    /\ CallOnly

\* The press on the project's page leads nowhere, and the page says why or does not.
PressLeadsNowhere(c) ==
    /\ BotRuns /\ call[c].pc = "opening" /\ ~call[c].edit
    /\ Return(c, "ambiguous")
    /\ CallOnly

\* Order closed, portfolio missing, no button (_diagnose_offer_blocker).
OfferBlocked(c) ==
    /\ BotRuns /\ call[c].pc = "opening" /\ ~call[c].edit
    /\ Return(c, "failed")
    /\ CallOnly

\* An offer that is there already is told without the steps, a press or not.
OfferExists(c) ==
    /\ BotRuns /\ call[c].pc = "opening" /\ ~call[c].edit /\ offer[c] # "none"
    /\ Return(c, "failed")
    /\ CallOnly

LimitAtOpening(c) ==
    /\ BotRuns /\ call[c].pc = "opening" /\ connects = 0 /\ ~call[c].edit
    /\ \E told \in {"failed", "ambiguous"} : Return(c, told)
    /\ RecordLimit
    /\ PauseSame /\ UNCHANGED <<offer, clicks>>

\* _check_seller_ready
SellerNotReady(c) ==
    /\ BotRuns /\ call[c].pc = "form"
    /\ Return(c, AsNoted(c))
    /\ CallOnly

\* _exchange_lesson_required is asked before the form is filled and after the press.
LessonRequired(c) ==
    /\ BotRuns
    /\ call[c].pc = "form" \/ (call[c].pc = "clicked" /\ call[c].page = "form")
    /\ Return(c, AsNoted(c))
    /\ CallOnly

\* The form does not load, or a field of it cannot be filled.
FormUnusable(c) ==
    /\ BotRuns /\ call[c].pc = "form"
    /\ Return(c, AsNoted(c))
    /\ CallOnly

FillForm(c) ==
    /\ BotRuns /\ call[c].pc = "form"
    /\ call' = [call EXCEPT ![c].pc = "filled"]
    /\ UNCHANGED lock /\ CallOnly

\* _verify_approved_form reads the page back and finds what was approved: the hidden text
\* in full, the visible one by its beginning.
Verify(c) ==
    /\ BotRuns /\ call[c].pc = "filled"
    /\ call' = [call EXCEPT ![c].pc = "verified"]
    /\ UNCHANGED lock /\ CallOnly

\* It finds something else, which is told without the steps: never ambiguous.
Mismatch(c) ==
    /\ BotRuns /\ call[c].pc = "filled"
    /\ Return(c, "failed")
    /\ CallOnly

NoButton(c) ==
    /\ BotRuns /\ call[c].pc = "verified"
    /\ Return(c, AsNoted(c))
    /\ CallOnly

\* The press: the platform takes what the page holds by now or does not, and shows some
\* page.  Nobody reads the form again between Verify and this.
Click(c) ==
    /\ BotRuns /\ call[c].pc = "verified"
    /\ \E page \in {"form", "elsewhere"} :
           call' = [call EXCEPT ![c].pc = "clicked", ![c].noted = TRUE, ![c].page = page]
    /\ clicks' = [clicks EXCEPT ![c] = @ + 1]
    /\ \/ UNCHANGED <<offer, connects, writer>>
       \/ /\ call[c].edit \/ connects > 0
          /\ offer' = [offer EXCEPT ![c] = "sent"]
          /\ connects' = IF call[c].edit THEN connects ELSE connects - 1
          /\ writer' = IF call[c].edit THEN writer ELSE Overtake(writer, Writers)
    /\ UNCHANGED <<lock, auto, manual, replenished, file, crashes, exhausted, raced>>

\* The form is still there: an error, a limit, or nothing to be seen.
StaysOnForm(c) ==
    /\ BotRuns /\ call[c].pc = "clicked" /\ call[c].page = "form"
    /\ Return(c, AsNoted(c))
    /\ \/ UNCHANGED writer
       \/ connects = 0 /\ RecordLimit
    /\ PauseSame /\ UNCHANGED <<offer, clicks>>

\* Something on the page speaks for the offer.  The sender tells it as ambiguous all the
\* same: no signal is tied to the text that was approved.
OfferSeen(c) ==
    /\ BotRuns /\ call[c].pc = "clicked" /\ call[c].page = "elsewhere"
    /\ Return(c, "ambiguous")
    /\ CallOnly

OfferNotSeen(c) ==
    /\ BotRuns /\ call[c].pc = "clicked" /\ call[c].page = "elsewhere"
    /\ Return(c, AsNoted(c))
    /\ CallOnly

\* Mutant: an exception sends the call to the next connection.
RaisesAndRotates(c) ==
    /\ BotRuns /\ call[c].pc \in {"opening", "form", "filled", "verified", "clicked"}
    /\ IF call[c].left > 1
       THEN /\ call' = [call EXCEPT ![c] = [@ EXCEPT !.left = @ - 1, !.pc = "launching"]]
            /\ UNCHANGED lock
       ELSE Return(c, "ambiguous")
    /\ CallOnly
\* Once the form has been asked for, an exception ends the call.
Raises(c) ==
    /\ BotRuns /\ call[c].pc \in {"opening", "form", "filled", "verified", "clicked"}
    /\ Return(c, "ambiguous")
    /\ CallOnly

\* The bot dies: nothing is told of the calls it had begun.
BotDies ==
    /\ crashes < MaxCrashes /\ crashes' = crashes + 1
    /\ call' = [c \in Calls |-> IF call[c].pc = "idle" THEN call[c]
                                ELSE [Fresh EXCEPT !.pc = "done", !.told = call[c].told]]
    /\ lock' = NoCall
    /\ writer' = [writer EXCEPT ![Bot] = Resting]
    /\ UNCHANGED <<auto, manual, connects, replenished, file, exhausted, raced, offer,
                   clicks>>

------------------------------------------------------------------------------
CallStep(c) ==
    \/ RefusedByPause(c) \/ Start(c) \/ InvalidPayload(c) \/ Enter(c)
    \/ BrowserStarts(c) \/ BrowserFails(c) \/ LoginFails(c) \/ LoggedIn(c)
    \/ OpenForm(c) \/ OpenFromProject(c) \/ CannotOpen(c) \/ PressLeadsNowhere(c)
    \/ OfferBlocked(c) \/ OfferExists(c) \/ LimitAtOpening(c)
    \/ SellerNotReady(c) \/ LessonRequired(c) \/ FormUnusable(c)
    \/ FillForm(c) \/ Verify(c) \/ Mismatch(c) \/ NoButton(c) \/ Click(c)
    \/ StaysOnForm(c) \/ OfferSeen(c) \/ OfferNotSeen(c) \/ Raises(c)

Next == \/ PauseNext /\ UNCHANGED callVars
        \/ \E c \in Calls : CallStep(c)
        \/ BotDies

Spec == Init /\ [][Next]_vars

\* Celery beat starts the pause task for ever, and its page names the balance again and
\* again; processes go on with what they began; dates pass.
FairSpec ==
    /\ Spec
    /\ SF_vars(Look(PauseTask, "available") /\ UNCHANGED callVars)
    /\ \A p \in Writers : WF_vars(Write(p) /\ UNCHANGED callVars)
    /\ WF_vars(ManualDatePasses /\ UNCHANGED callVars)

------------------------------------------------------------------------------
(* Properties *)

\* Every value has its type.
TypeOK ==
    /\ PauseTypeOK
    /\ call \in [Calls -> CallType]
    /\ lock \in Calls \cup {NoCall}
    /\ offer \in [Calls -> {"none", "older", "sent"}]
    /\ clicks \in [Calls -> Nat]

\* What is told as a known failure, and may therefore be tried again, was not taken by
\* the platform (send_kwork_offer, ProposalSender.send).
EffectIsAmbiguous == \A c \in Calls : call[c].told = "failed" => offer[c] # "sent"

\* One call presses the button once, however many connections it tries
\* (_send_kwork_offer_locked).
OneClickPerCall == \A c \in Calls : clicks[c] <= 1

\* As long as the balance is zero a recorded pause stands, unless a process was
\* overtaken between its look at the page and its write (apply_connects_probe_result).
PauseIsKept == exhausted /\ auto /\ ~raced /\ Loaded => file.paused

(* What makes the three of them inductive.                                 *)

\* Nothing is told of a call before it returns; before the press nothing is
\* pressed or sent, and after it a step that begins with "click on" is noted.
CallInv == \A c \in Calls :
    /\ call[c].pc # "done" => call[c].told = "none"
    /\ call[c].pc \notin {"clicked", "done"} => clicks[c] = 0 /\ offer[c] # "sent"
    /\ call[c].pc = "clicked" => call[c].noted

\* The account is as exhausted as the history says, and a writer nobody overtook
\* writes what is still true: connects it saw are there; a limit it met is written as
\* a pause; a file it copied says "no pause" only while the balance is not known zero.
WriterInv ==
    /\ exhausted => connects = 0
    /\ \A p \in Writers : writer[p].pc # "idle" =>
          /\ writer[p].saw = "available" /\ ~writer[p].overtaken => connects > 0
          /\ writer[p].pc # "seen" /\ writer[p].saw = "exhausted" => writer[p].paused
          /\ /\ writer[p].pc # "seen" /\ writer[p].saw = "unclear"
             /\ ~writer[p].overtaken /\ ~writer[p].paused /\ auto /\ ~raced
             => ~exhausted

IInv ==
    /\ TypeOK
    /\ CallInv
    /\ EffectIsAmbiguous /\ OneClickPerCall
    /\ WriterInv
    /\ PauseIsKept

\* Once there are connects again the file comes to record that there is no pause, or they
\* are spent, although probes may be unclear, mistaken or die in the middle of a write
\* (refresh_kwork_pause_from_kwork).
EventuallyResumed == (auto /\ connects > 0) ~> ((Loaded /\ ~file.paused) \/ connects = 0)
==============================================================================
