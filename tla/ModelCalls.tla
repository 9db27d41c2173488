----------------------------- MODULE ModelCalls -----------------------------
(***************************************************************************)
(* The text models behind the agents (app/llm/provider.py): which service  *)
(* answers a call, which model is asked, what a failure falls back to, and *)
(* the model catalogs (app/llm/model_catalog.py) the calls of one process  *)
(* share.  A model name is "auto" (a model is looked for that the provider *)
(* lists as free) or explicit, and an explicit name, like every OpenAI     *)
(* model, may cost money.                                                  *)
(*                                                                         *)
(* Time is a clock of small ticks, because the catalogs are cached for a   *)
(* number of seconds.  A request may take any number of ticks: nothing     *)
(* here rests on a timeout.  Texts, prompts and token counts are left out. *)
(* Requests by one proxy after another (app/utils/proxy.py) count as one   *)
(* request, unless all of them fail.                                       *)
(***************************************************************************)
EXTENDS Naturals

CONSTANTS
    Calls,        \* calls in progress in one process
    Models,       \* the models a provider may list as free
    TTL,          \* the cache time of the catalogs, in ticks
    MaxNow,       \* bound: ticks
    MaxCalls      \* bound: calls made

Explicit == "explicit"                  \* a model named in the settings

ASSUME ModelCallsAssumption ==
    /\ Calls # {} /\ Models # {} /\ Explicit \notin Models
    /\ TTL \in Nat \ {0}
    /\ MaxNow \in Nat /\ MaxCalls \in Nat

Services == {"openrouter", "ollama", "openai"}   \* Anthropic and Cursor are as OpenAI
Listed == {"openrouter", "ollama"}      \* the services with a catalog

VARIABLES
    conf,     \* the settings of the process
    now,      \* the clock
    paidAt,   \* per model of OpenRouter: when it stopped being free (MaxNow + 1: it has not)
    cache,    \* per service: the models listed and the tick the entry is good until
    call,     \* per call: where it is
    made      \* calls started

vars == <<conf, now, paidAt, cache, call, made>>

\* The settings that name a model of a service with a catalog.
RouterNames == {"openrouter_model", "openrouter_simple_model"}
OllamaNames == {"ollama_model", "ollama_scoring_model"}
Names == RouterNames \cup OllamaNames

\* The settings the code reads: which names are "auto", ollama_auto_fallback together
\* with an OpenAI key, openrouter_fallback_to_ollama, and where ollama_base_url points.
Settings == [auto : [Names -> BOOLEAN], paidFallback : BOOLEAN,
             toOllama : BOOLEAN, host : {"loopback", "ollama.com", "elsewhere"}]

\* How an agent asks: by one of these names, or OpenAI directly.
Entries == Names \cup {"openai"}

Places == {"idle", "usage", "resolve", "fetch", "arriving", "listed", "request"}

NoCall == [at |-> "idle", entry |-> "openai", service |-> "openai", auto |-> FALSE,
           mayPay |-> FALSE, attempt |-> 0, list |-> {}, since |-> 0, model |-> Explicit,
           age |-> 0]

CallType == [at : Places, entry : Entries, service : Services, auto : BOOLEAN,
             mayPay : BOOLEAN, attempt : 0..1, list : SUBSET Models, since : 0..MaxNow,
             model : Models \cup {Explicit}, age : 0..MaxNow]

TypeOK ==
    /\ conf \in Settings
    /\ now \in 0..MaxNow
    /\ paidAt \in [Models -> 0..(MaxNow + 1)]
    /\ cache \in [Listed -> [list : SUBSET Models, until : 0..(MaxNow + TTL)]]
    /\ call \in [Calls -> CallType]
    /\ made \in 0..MaxCalls

Init ==
    /\ conf \in Settings
    /\ now = 0
    /\ paidAt = [m \in Models |-> MaxNow + 1]
    /\ cache = [s \in Listed |-> [list |-> {}, until |-> 0]]
    /\ call = [c \in Calls |-> NoCall]
    /\ made = 0

-----------------------------------------------------------------------------
(* What the services say, and what the settings allow                      *)

\* The models OpenRouter prices at zero at this moment.
FreeNow == {m \in Models : paidAt[m] > now}

\* What a service may list: OpenRouter its prices, Ollama what the account is entitled to.
MayList(s) == IF s = "openrouter" THEN {FreeNow} ELSE SUBSET Models

\* How long model m of OpenRouter had not been free when call c looked for a model.
Staleness(c, m) ==
    IF call[c].service = "openrouter" /\ m # Explicit /\ paidAt[m] < call[c].since
    THEN call[c].since - paidAt[m] ELSE 0

\* OllamaProvider._can_fallback_to_openai: never from an automatic name.
CanPay(auto) == ~auto /\ conf.paidFallback

On(c, service, place) == call[c].service = service /\ call[c].at = place

\* The agent gets its text, or the exception.
Ends(c) == call' = [call EXCEPT ![c] = NoCall]

\* OpenAIProvider.complete begins.
AsksOpenAI(c, entry) ==
    call' = [call EXCEPT ![c] = [NoCall EXCEPT !.at = "request", !.entry = entry]]

\* OllamaProvider.complete begins, by reading how much of the quota is used.
AsksOllama(c, entry, auto, pays) ==
    call' = [call EXCEPT ![c] = [NoCall EXCEPT !.at = "usage", !.entry = entry,
                                               !.service = "ollama", !.auto = auto,
                                               !.mayPay = pays]]

\* Mutant: it takes the settings of Ollama as they are.
FallsBackAsSet(c) ==
    AsksOllama(c, call[c].entry, conf.auto["ollama_model"], CanPay(conf.auto["ollama_model"]))

\* OpenRouterProvider._fallback: Ollama, without its paid fallback, and by an
\* automatic name if the call had one.
FallsBack(c) ==
    AsksOllama(c, call[c].entry, call[c].auto \/ conf.auto["ollama_model"], FALSE)

\* A retryable failure of OpenRouter.
Recover(c) == IF conf.toOllama THEN FallsBack(c) ELSE Ends(c)

\* A model is chosen and the request leaves.
Send(c, m) ==
    call' = [call EXCEPT ![c].at = "request", ![c].model = m, ![c].list = {}, ![c].since = 0,
                         ![c].age = Staleness(c, m)]

\* The second attempt begins with a fresh look at the models.
TryAgain(c) == call' = [call EXCEPT ![c].at = "resolve", ![c].attempt = 1, ![c].model = Explicit,
                                    ![c].age = 0]

-----------------------------------------------------------------------------
(* A call begins and ends                                                  *)

\* get_llm_provider, get_simple_llm_provider, get_scoring_llm_provider: the agent
\* makes a provider for the service its settings name, and asks it.
Begin(c) ==
    /\ call[c].at = "idle"
    /\ made < MaxCalls
    /\ made' = made + 1
    /\ \/ \E n \in RouterNames :
              call' = [call EXCEPT ![c].at = "resolve", ![c].entry = n,
                                   ![c].service = "openrouter", ![c].auto = conf.auto[n]]
       \/ \E n \in OllamaNames : AsksOllama(c, n, conf.auto[n], CanPay(conf.auto[n]))
       \/ AsksOpenAI(c, "openai")
    /\ UNCHANGED <<conf, now, paidAt, cache>>

\* get_simple_llm_provider: routine work goes straight to OpenAI while Ollama's
\* limits are critical, if Ollama's model is named and the operator allowed it.
BeginPaid(c) ==
    /\ call[c].at = "idle"
    /\ made < MaxCalls
    /\ CanPay(conf.auto["ollama_model"])
    /\ made' = made + 1
    /\ AsksOpenAI(c, "ollama_model")
    /\ UNCHANGED <<conf, now, paidAt, cache>>

\* get_ollama_usage: whether the account page, as last read, shows a critical quota.
UsageReadings == BOOLEAN

\* OllamaProvider.complete: with the quota critical, OpenAI if the call may pay.
UsageKnown(c) ==
    /\ On(c, "ollama", "usage")
    /\ \E critical \in UsageReadings :
          \/ ~critical /\ call' = [call EXCEPT ![c].at = "resolve"]
          \/ critical /\ call[c].mayPay /\ AsksOpenAI(c, call[c].entry)
          \/ critical /\ ~call[c].mayPay /\ Ends(c)
    /\ UNCHANGED <<conf, now, paidAt, cache, made>>

-----------------------------------------------------------------------------
(* Which model: model_catalog.py                                           *)

\* invalidate_openrouter_catalog, invalidate_ollama_catalog: a second attempt clears
\* the catalog, for every call of the process, before it looks.
Seen(c) == IF call[c].attempt = 1 THEN [list |-> {}, until |-> 0] ELSE cache[call[c].service]

Cleared(c) == cache' = [cache EXCEPT ![call[c].service] = Seen(c)]

\* _resolve_model: an explicit name is sent as it is.
NamedModel(c) ==
    /\ call[c].at = "resolve" /\ ~call[c].auto
    /\ Send(c, Explicit)
    /\ Cleared(c)
    /\ UNCHANGED <<conf, now, paidAt, made>>

\* resolve_ollama_model: on a local server every installed model is free, and no
\* choice is made on a server that is neither local nor ollama.com.
LocalOrRefused(c) ==
    /\ On(c, "ollama", "resolve") /\ call[c].auto
    /\ \/ conf.host = "elsewhere" /\ Ends(c)
       \/ /\ conf.host = "loopback"
          /\ call' = [call EXCEPT ![c].at = "listed", ![c].list = Models]
    /\ Cleared(c)
    /\ UNCHANGED <<conf, now, paidAt, made>>

\* An automatic choice that needs the list of models the service gives for nothing.
Lists(c) ==
    /\ call[c].at = "resolve" /\ call[c].auto
    /\ call[c].service = "ollama" => conf.host = "ollama.com"

\* What fetch_openrouter_models keeps as "now"; Ollama's function keeps nothing.
LookedAt(c) == IF call[c].service = "openrouter" THEN now ELSE 0

\* fetch_openrouter_models, fetch_ollama_free_entitlement: a fresh entry is used.
CacheHit(c) ==
    /\ Lists(c)
    /\ Seen(c).until > now
    /\ call' = [call EXCEPT ![c].at = "listed", ![c].list = Seen(c).list, ![c].since = LookedAt(c)]
    /\ UNCHANGED <<conf, now, paidAt, cache, made>>

CacheMiss(c) ==
    /\ Lists(c)
    /\ Seen(c).until <= now
    /\ call' = [call EXCEPT ![c].at = "fetch", ![c].since = LookedAt(c)]
    /\ Cleared(c)
    /\ UNCHANGED <<conf, now, paidAt, made>>

\* The service reads its list; the answer is under way.  For Ollama a second request,
\* which asks whose key it is, comes before the list is used.
ServiceLists(c) ==
    /\ call[c].at = "fetch"
    /\ \E list \in MayList(call[c].service) :
          call' = [call EXCEPT ![c].at = "arriving", ![c].list = list]
    /\ UNCHANGED <<conf, now, paidAt, cache, made>>

\* Mutant: both count from when the answer is there.
GoodUntilFromNow(c) == TTL + now
\* Until when an answer is cached: fetch_openrouter_models counts from before its
\* request, fetch_ollama_free_entitlement from after its second one.
GoodUntil(c) == TTL + IF call[c].service = "openrouter" THEN call[c].since ELSE now

ListArrives(c) ==
    /\ call[c].at = "arriving"
    /\ cache' = [cache EXCEPT ![call[c].service] = [list |-> call[c].list, until |-> GoodUntil(c)]]
    /\ call' = [call EXCEPT ![c].at = "listed"]
    /\ UNCHANGED <<conf, now, paidAt, made>>

\* No list: an exception of OpenRouter's is retryable unless it is about JSON, none
\* of Ollama's is.
FetchFails(c) ==
    /\ call[c].at \in {"fetch", "arriving"}
    /\ \/ Ends(c)
       \/ call[c].service = "openrouter" /\ Recover(c)
    /\ UNCHANGED <<conf, now, paidAt, cache, made>>

\* select_openrouter_free_model, at once; it raises if no model is free.
ChooseRouter(c) ==
    /\ On(c, "openrouter", "listed")
    /\ \/ \E m \in call[c].list : Send(c, m)
       \/ call[c].list = {} /\ Ends(c)
    /\ UNCHANGED <<conf, now, paidAt, cache, made>>

\* fetch_ollama_models follows and one request after another about each model; then
\* select_ollama_installed_model takes a listed model that is installed and suitable,
\* if there is one.
ChooseInstalled(c) ==
    /\ On(c, "ollama", "listed")
    /\ \/ \E m \in call[c].list : Send(c, m)
       \/ Ends(c)
    /\ UNCHANGED <<conf, now, paidAt, cache, made>>

-----------------------------------------------------------------------------
(* The request                                                             *)

\* The text is there and complete.
Answered(c) ==
    /\ call[c].at = "request"
    /\ Ends(c)
    /\ UNCHANGED <<conf, now, paidAt, cache, made>>

\* OpenRouterProvider.complete: the chosen model is gone (404), the failure is one
\* that Ollama may help with, or neither.
RouterFails(c) ==
    /\ On(c, "openrouter", "request")
    /\ \/ call[c].auto /\ call[c].attempt = 0 /\ TryAgain(c)
       \/ Recover(c)
       \/ Ends(c)
    /\ UNCHANGED <<conf, now, paidAt, cache, made>>

\* classify_llm_error: what a failed request to Ollama counts as.
FailureKinds == {"network", "server", "rate_limit", "timeout", "quota", "other"}

\* OllamaProvider.complete: a chosen model that fails is chosen again, a used-up quota
\* may be paid for, and after a failure of every proxy the list is gone through again.
OllamaFails(c) ==
    /\ On(c, "ollama", "request")
    /\ \E kind \in FailureKinds :
          LET rechosen == call[c].attempt = 0 /\ call[c].auto /\ kind \in {"server", "network"}
              paid == kind = "quota" /\ call[c].mayPay
              rotated == kind \in {"network", "server", "rate_limit"} /\ call[c].attempt = 0
          IN  \/ (rechosen \/ rotated) /\ TryAgain(c)
              \/ paid /\ AsksOpenAI(c, call[c].entry)
              \/ ~rechosen /\ ~paid /\ Ends(c)
    /\ UNCHANGED <<conf, now, paidAt, cache, made>>

OpenAIFails(c) ==
    /\ On(c, "openai", "request")
    /\ Ends(c)
    /\ UNCHANGED <<conf, now, paidAt, cache, made>>

-----------------------------------------------------------------------------
(* The services and the clock                                              *)

\* OpenRouter sets a price for a model.
BecomesPaid(m) ==
    /\ m \in FreeNow
    /\ paidAt' = [paidAt EXCEPT ![m] = now]
    /\ UNCHANGED <<conf, now, cache, call, made>>

Tick ==
    /\ now < MaxNow
    /\ now' = now + 1
    /\ UNCHANGED <<conf, paidAt, cache, call, made>>

CallStep(c) ==
    \/ Begin(c) \/ BeginPaid(c) \/ UsageKnown(c)
    \/ NamedModel(c) \/ LocalOrRefused(c) \/ CacheHit(c) \/ CacheMiss(c)
    \/ ServiceLists(c) \/ ListArrives(c) \/ FetchFails(c)
    \/ ChooseRouter(c) \/ ChooseInstalled(c)
    \/ Answered(c) \/ RouterFails(c) \/ OllamaFails(c) \/ OpenAIFails(c)

Next ==
    \/ \E c \in Calls : CallStep(c)
    \/ \E m \in Models : BecomesPaid(m)
    \/ Tick

Spec == Init /\ [][Next]_vars

-----------------------------------------------------------------------------
(* Properties                                                              *)

\* What the operator agreed to pay for: an agent set to OpenAI, or to a model of
\* Ollama named in the settings, with its paid fallback.
PaidByChoice(c) ==
    \/ call[c].entry = "openai"
    \/ call[c].entry \in OllamaNames /\ CanPay(conf.auto[call[c].entry])

\* Whether the settings name the model that call c may ask of its present service.
NamedByChoice(c) ==
    /\ call[c].entry \in Names /\ ~conf.auto[call[c].entry]
    /\ call[c].service = "ollama" /\ call[c].entry \in RouterNames =>
          ~conf.auto["ollama_model"]

\* README.md:263-267, "an optional, non-paid Ollama fallback" (provider.py:184): through
\* every fallback, retry and change of provider, no request goes to OpenAI and no
\* model is asked by an unverified name unless the settings chose that.
NoHiddenPaidCall ==
    \A c \in Calls : call[c].at = "request" =>
        /\ call[c].service = "openai" => PaidByChoice(c)
        /\ call[c].service # "openai" /\ call[c].model = Explicit => NamedByChoice(c)

\* A model of OpenRouter that is chosen automatically was free less than the cache time
\* before the call looked for one, however long the requests take and in whatever order
\* calls fetch, clear and overwrite the one list they share (fetch_openrouter_models).
RouterChoiceIsRecent ==
    \A c \in Calls : On(c, "openrouter", "request") => call[c].age < TTL

=============================================================================
