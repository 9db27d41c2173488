-------------------------- MODULE ModelCallsProofs --------------------------
(***************************************************************************)
(* The theorems of ModelCalls, for any number of calls, models and ticks.   *)
(***************************************************************************)
EXTENDS ModelCalls, TLAPS

-----------------------------------------------------------------------------
(* Types *)

LEMMA Fields ==
  ASSUME TypeOK
  PROVE  /\ conf \in Settings /\ now \in Nat /\ now <= MaxNow /\ MaxNow \in Nat /\ TTL \in Nat /\ TTL > 0
         /\ \A c \in Calls : call[c] \in CallType
         /\ \A s \in Listed : cache[s] \in [list : SUBSET Models, until : 0..(MaxNow + TTL)]
         /\ \A m \in Models : paidAt[m] \in 0..(MaxNow + 1)
  BY ModelCallsAssumption DEF TypeOK

LEMMA NoCallType == TypeOK => NoCall \in CallType
  BY ModelCallsAssumption DEF NoCall, CallType, Places, Services, Entries, Explicit, TypeOK

LEMMA InitTypeOK == Init => TypeOK
  <1> SUFFICES ASSUME Init PROVE TypeOK
    OBVIOUS
  <1>1. NoCall \in CallType
    BY ModelCallsAssumption DEF NoCall, CallType, Places, Services, Entries, Explicit
  <1> QED BY <1>1, ModelCallsAssumption DEF Init, TypeOK

\* What becomes of a call: the steps by which it goes on.
LEMMA EndsTypes == ASSUME TypeOK, NEW c \in Calls, Ends(c) PROVE call' \in [Calls -> CallType]
  BY NoCallType DEF Ends, TypeOK

LEMMA AsksOpenAITypes ==
  ASSUME TypeOK, NEW c \in Calls, NEW entry \in Entries, AsksOpenAI(c, entry)
  PROVE  call' \in [Calls -> CallType]
  <1>1. [NoCall EXCEPT !.at = "request", !.entry = entry] \in CallType
    BY NoCallType DEF CallType, Places
  <1> QED BY <1>1 DEF AsksOpenAI, TypeOK

LEMMA AsksOllamaTypes ==
  ASSUME TypeOK, NEW c \in Calls, NEW entry \in Entries, NEW auto \in BOOLEAN, NEW pays \in BOOLEAN,
         AsksOllama(c, entry, auto, pays)
  PROVE  call' \in [Calls -> CallType]
  <1>1. [NoCall EXCEPT !.at = "usage", !.entry = entry, !.service = "ollama", !.auto = auto,
                       !.mayPay = pays] \in CallType
    BY NoCallType DEF CallType, Places, Services
  <1> QED BY <1>1 DEF AsksOllama, TypeOK

\* A setting that names a model is automatic or not.
LEMMA AutoType == ASSUME TypeOK PROVE \A n \in Names : conf.auto[n] \in BOOLEAN
  BY DEF TypeOK, Settings

LEMMA PaysType == ASSUME TypeOK PROVE \A auto \in BOOLEAN : CanPay(auto) \in BOOLEAN
  BY DEF CanPay

LEMMA RecoverTypes ==
  ASSUME TypeOK, NEW c \in Calls, Recover(c) PROVE call' \in [Calls -> CallType]
  <1>1. CASE FallsBack(c)
    <2>1. call[c] \in CallType /\ conf.auto["ollama_model"] \in BOOLEAN
      BY Fields, AutoType DEF Names, OllamaNames
    <2>2. call[c].entry \in Entries /\ (call[c].auto \/ conf.auto["ollama_model"]) \in BOOLEAN
      BY <2>1 DEF CallType
    <2> QED BY <1>1, <2>2, AsksOllamaTypes DEF FallsBack
  <1>2. CASE Ends(c)
    BY <1>2, EndsTypes
  <1> QED BY <1>1, <1>2 DEF Recover

LEMMA StalenessType ==
  ASSUME TypeOK, NEW c \in Calls, NEW m \in Models \cup {Explicit}
  PROVE  Staleness(c, m) \in 0..MaxNow
  <1>1. call[c].since \in 0..MaxNow /\ MaxNow \in Nat
    BY Fields DEF CallType
  <1>2. m # Explicit => paidAt[m] \in 0..(MaxNow + 1)
    BY Fields
  <1> QED BY <1>1, <1>2 DEF Staleness

LEMMA SendTypes ==
  ASSUME TypeOK, NEW c \in Calls, NEW m, Send(c, m),
         m \in Models \cup {Explicit}
  PROVE  call' \in [Calls -> CallType]
  <1> DEFINE age == Staleness(c, m)
             new == [call[c] EXCEPT !.at = "request", !.model = m, !.list = {}, !.since = 0, !.age = age]
  <1>1. age \in 0..MaxNow /\ 0 \in 0..MaxNow
    BY StalenessType, Fields
  <1>2. call[c] \in CallType
    BY Fields
  <1>3. new \in CallType
    BY <1>1, <1>2 DEF CallType, Places
  <1>4. call' = [call EXCEPT ![c] = new]
    BY DEF Send, TypeOK
  <1> QED BY <1>3, <1>4 DEF TypeOK

LEMMA TryAgainTypes == ASSUME TypeOK, NEW c \in Calls, TryAgain(c) PROVE call' \in [Calls -> CallType]
  <1> DEFINE new == [call[c] EXCEPT !.at = "resolve", !.attempt = 1, !.model = Explicit, !.age = 0]
  <1>1. call[c] \in CallType /\ 0 \in 0..MaxNow /\ 1 \in 0..1
    BY Fields
  <1>2. new \in CallType
    BY <1>1 DEF CallType, Places
  <1>3. call' = [call EXCEPT ![c] = new]
    BY <1>1 DEF TryAgain, TypeOK, CallType
  <1> QED BY <1>2, <1>3 DEF TypeOK

LEMMA BeginEndTypes ==
  ASSUME TypeOK, NEW c \in Calls
  PROVE  /\ Begin(c) => TypeOK'
         /\ BeginPaid(c) => TypeOK'
         /\ UsageKnown(c) => TypeOK'
         /\ (Answered(c) \/ OllamaFails(c) \/ RouterFails(c) \/ OpenAIFails(c)) => TypeOK'
  <1>0. /\ conf \in Settings /\ call[c] \in CallType /\ made \in 0..MaxCalls
        /\ \A n \in Names : conf.auto[n] \in BOOLEAN /\ CanPay(conf.auto[n]) \in BOOLEAN
        /\ RouterNames \subseteq Names /\ OllamaNames \subseteq Names
    BY Fields, AutoType, PaysType DEF TypeOK, Names
  <1>1. ASSUME made < MaxCalls, made' = made + 1 PROVE made' \in 0..MaxCalls
    BY <1>0, <1>1, ModelCallsAssumption
  <1>2. Names \subseteq Entries /\ "openai" \in Entries /\ "ollama_model" \in Names
    BY DEF Entries, Names, OllamaNames
  <1>3. ASSUME Begin(c) PROVE TypeOK'
    <2>1. ASSUME NEW n \in RouterNames,
                 call' = [call EXCEPT ![c].at = "resolve", ![c].entry = n,
                                      ![c].service = "openrouter", ![c].auto = conf.auto[n]]
          PROVE  TypeOK'
      <3> DEFINE new == [call[c] EXCEPT !.at = "resolve", !.entry = n,
                                        !.service = "openrouter", !.auto = conf.auto[n]]
      <3>0. n \in Entries /\ conf.auto[n] \in BOOLEAN
        BY <1>0, <1>2
      <3>1. new \in CallType
        BY <1>0, <3>0 DEF CallType, Places, Services
      <3>2. call' = [call EXCEPT ![c] = new]
        BY <2>1 DEF TypeOK
      <3>3. call' \in [Calls -> CallType]
        BY <3>1, <3>2 DEF TypeOK
      <3> QED BY <1>1, <1>3, <3>3 DEF Begin, TypeOK
    <2>2. ASSUME NEW n \in OllamaNames, AsksOllama(c, n, conf.auto[n], CanPay(conf.auto[n]))
          PROVE  TypeOK'
      <3>1. call' \in [Calls -> CallType]
        BY <1>0, <1>2, <2>2, AsksOllamaTypes
      <3> QED BY <1>1, <1>3, <3>1 DEF Begin, TypeOK
    <2>3. CASE AsksOpenAI(c, "openai")
      <3>1. call' \in [Calls -> CallType]
        BY <1>2, <2>3, AsksOpenAITypes
      <3> QED BY <1>1, <1>3, <3>1 DEF Begin, TypeOK
    <2> QED BY <1>3, <2>1, <2>2, <2>3 DEF Begin
  <1>4. ASSUME BeginPaid(c) PROVE TypeOK'
    <2>1. call' \in [Calls -> CallType]
      BY <1>2, <1>4, AsksOpenAITypes DEF BeginPaid
    <2> QED BY <1>1, <1>4, <2>1 DEF BeginPaid, TypeOK
  <1>5. ASSUME call' \in [Calls -> CallType], UNCHANGED <<conf, now, paidAt, cache, made>> PROVE TypeOK'
    BY <1>5 DEF TypeOK
  <1>6. ASSUME UsageKnown(c) PROVE TypeOK'
    <2>1. call[c].entry \in Entries
      BY <1>0 DEF CallType
    <2>2. [call[c] EXCEPT !.at = "resolve"] \in CallType
      BY <1>0 DEF CallType, Places
    <2>3. CASE call' = [call EXCEPT ![c].at = "resolve"]
      <3>1. call' \in [Calls -> CallType]
        BY <2>2, <2>3 DEF TypeOK
      <3> QED BY <1>5, <1>6, <3>1 DEF UsageKnown
    <2>4. CASE AsksOpenAI(c, call[c].entry) \/ Ends(c)
      <3>1. call' \in [Calls -> CallType]
        BY <2>1, <2>4, AsksOpenAITypes, EndsTypes
      <3> QED BY <1>5, <1>6, <3>1 DEF UsageKnown
    <2> QED BY <1>6, <2>3, <2>4 DEF UsageKnown
  <1>7. ASSUME Answered(c) \/ OllamaFails(c) \/ RouterFails(c) \/ OpenAIFails(c) PROVE TypeOK'
    <2>1. call[c].entry \in Entries
      BY <1>0 DEF CallType
    <2>2. Ends(c) \/ TryAgain(c) \/ Recover(c) \/ AsksOpenAI(c, call[c].entry)
      BY <1>7 DEF Answered, OllamaFails, RouterFails, OpenAIFails
    <2>3. call' \in [Calls -> CallType]
      BY <2>1, <2>2, EndsTypes, TryAgainTypes, RecoverTypes, AsksOpenAITypes
    <2> QED BY <1>5, <1>7, <2>3 DEF Answered, OllamaFails, RouterFails, OpenAIFails
  <1> QED BY <1>3, <1>4, <1>6, <1>7

LEMMA SeenType ==
  ASSUME TypeOK, NEW c \in Calls, call[c].service \in Listed
  PROVE  Seen(c) \in [list : SUBSET Models, until : 0..(MaxNow + TTL)]
  <1>1. 0 \in 0..(MaxNow + TTL)
    BY Fields
  <1>2. [list |-> {}, until |-> 0] \in [list : SUBSET Models, until : 0..(MaxNow + TTL)]
    BY <1>1
  <1> QED BY <1>2, Fields DEF Seen

\* Only the services with a catalog are looked up in one.
HasCatalog == \A c \in Calls : call[c].at \notin {"idle", "request"} => call[c].service \in Listed

LEMMA ClearedTypes ==
  ASSUME TypeOK, NEW c \in Calls, call[c].service \in Listed, Cleared(c)
  PROVE  cache' \in [Listed -> [list : SUBSET Models, until : 0..(MaxNow + TTL)]]
  BY SeenType DEF Cleared, TypeOK

LEMMA CatalogTypes ==
  ASSUME TypeOK, HasCatalog, NEW c \in Calls
  PROVE  /\ NamedModel(c) => TypeOK'
         /\ LocalOrRefused(c) => TypeOK'
         /\ CacheHit(c) => TypeOK'
         /\ CacheMiss(c) => TypeOK'
         /\ ServiceLists(c) => TypeOK'
         /\ ListArrives(c) => TypeOK'
         /\ FetchFails(c) => TypeOK'
         /\ (ChooseRouter(c) \/ ChooseInstalled(c)) => TypeOK'
  <1>0. call[c] \in CallType /\ now \in 0..MaxNow /\ Models \subseteq Models
        /\ LookedAt(c) \in 0..MaxNow
    BY Fields DEF TypeOK, LookedAt
  <1>1. ASSUME NEW at \in Places, NEW list \in SUBSET Models, NEW since \in 0..MaxNow
        PROVE  [call[c] EXCEPT !.at = at, !.list = list, !.since = since] \in CallType
    BY <1>0, <1>1 DEF CallType
  <1>2. ASSUME NEW at \in Places, NEW since \in 0..MaxNow
        PROVE  [call[c] EXCEPT !.at = at, !.since = since] \in CallType
    BY <1>0, <1>2 DEF CallType
  <1>3. ASSUME NEW new \in CallType, call' = [call EXCEPT ![c] = new]
        PROVE  call' \in [Calls -> CallType]
    BY <1>3 DEF TypeOK
  <1>4. {"listed", "fetch", "arriving"} \subseteq Places
    BY DEF Places
  <1>5. ASSUME NamedModel(c) PROVE TypeOK'
    <2>1. call' \in [Calls -> CallType]
      BY <1>5, SendTypes DEF NamedModel
    <2>2. cache' \in [Listed -> [list : SUBSET Models, until : 0..(MaxNow + TTL)]]
      BY <1>5, ClearedTypes DEF NamedModel, HasCatalog
    <2> QED BY <1>5, <2>1, <2>2 DEF NamedModel, TypeOK
  <1>6. ASSUME LocalOrRefused(c) PROVE TypeOK'
    <2>1. CASE Ends(c)
      <3>1. call' \in [Calls -> CallType]
        BY <2>1, EndsTypes
      <3>2. cache' \in [Listed -> [list : SUBSET Models, until : 0..(MaxNow + TTL)]]
        BY <1>6, ClearedTypes DEF LocalOrRefused, On, HasCatalog
      <3> QED BY <1>6, <3>1, <3>2 DEF LocalOrRefused, TypeOK
    <2>2. CASE call' = [call EXCEPT ![c].at = "listed", ![c].list = Models]
      <3> DEFINE new == [call[c] EXCEPT !.at = "listed", !.list = Models]
      <3>1. new \in CallType
        BY <1>0, <1>4 DEF CallType
      <3>2. call' = [call EXCEPT ![c] = new]
        BY <2>2 DEF TypeOK
      <3>3. call' \in [Calls -> CallType]
        BY <1>3, <3>1, <3>2
      <3>4. cache' \in [Listed -> [list : SUBSET Models, until : 0..(MaxNow + TTL)]]
        BY <1>6, ClearedTypes DEF LocalOrRefused, On, HasCatalog
      <3> QED BY <1>6, <3>3, <3>4 DEF LocalOrRefused, TypeOK
    <2> QED BY <1>6, <2>1, <2>2 DEF LocalOrRefused
  <1>7. ASSUME CacheHit(c) PROVE TypeOK'
    <2> DEFINE new == [call[c] EXCEPT !.at = "listed", !.list = Seen(c).list, !.since = LookedAt(c)]
    <2>1. Seen(c).list \in SUBSET Models
      <3>1. call[c].service \in Listed
        BY <1>7 DEF CacheHit, Lists, HasCatalog
      <3>2. Seen(c) \in [list : SUBSET Models, until : 0..(MaxNow + TTL)]
        BY <3>1, SeenType
      <3> QED BY <3>2
    <2>2. new \in CallType
      BY <1>0, <1>1, <1>4, <2>1
    <2>3. call' = [call EXCEPT ![c] = new]
      BY <1>7 DEF CacheHit, TypeOK
    <2>4. call' \in [Calls -> CallType]
      BY <1>3, <2>2, <2>3
    <2> QED BY <1>7, <2>4 DEF CacheHit, TypeOK
  <1>8. ASSUME CacheMiss(c) PROVE TypeOK'
    <2> DEFINE new == [call[c] EXCEPT !.at = "fetch", !.since = LookedAt(c)]
    <2>1. new \in CallType
      BY <1>0, <1>2, <1>4
    <2>2. call' = [call EXCEPT ![c] = new]
      BY <1>8 DEF CacheMiss, TypeOK
    <2>3. call' \in [Calls -> CallType]
      BY <1>3, <2>1, <2>2
    <2>4. cache' \in [Listed -> [list : SUBSET Models, until : 0..(MaxNow + TTL)]]
      BY <1>8, ClearedTypes DEF CacheMiss, Lists, HasCatalog
    <2> QED BY <1>8, <2>3, <2>4 DEF CacheMiss, TypeOK
  <1>9. ASSUME ServiceLists(c) PROVE TypeOK'
    <2>1. PICK list \in MayList(call[c].service) :
              call' = [call EXCEPT ![c].at = "arriving", ![c].list = list]
      BY <1>9 DEF ServiceLists
    <2>2. list \in SUBSET Models
      BY DEF MayList, FreeNow
    <2>3. [call[c] EXCEPT !.at = "arriving", !.list = list] \in CallType
      BY <1>0, <1>4, <2>2 DEF CallType
    <2>4. call' = [call EXCEPT ![c] = [call[c] EXCEPT !.at = "arriving", !.list = list]]
      BY <2>1 DEF TypeOK
    <2>5. call' \in [Calls -> CallType]
      BY <1>3, <2>3, <2>4
    <2> QED BY <1>9, <2>5 DEF ServiceLists, TypeOK
  <1>10. ASSUME ListArrives(c) PROVE TypeOK'
    <2> DEFINE new == [call[c] EXCEPT !.at = "listed"]
    <2>1. new \in CallType
      BY <1>0, <1>4 DEF CallType
    <2>2. call' = [call EXCEPT ![c] = new]
      BY <1>10 DEF ListArrives, TypeOK
    <2>3. call' \in [Calls -> CallType]
      BY <1>3, <2>1, <2>2
    <2>4. GoodUntil(c) \in 0..(MaxNow + TTL)
      BY <1>0, Fields DEF GoodUntil, CallType
    <2>5. [list |-> call[c].list, until |-> GoodUntil(c)] \in [list : SUBSET Models, until : 0..(MaxNow + TTL)]
      BY <1>0, <2>4 DEF CallType
    <2>6. cache' \in [Listed -> [list : SUBSET Models, until : 0..(MaxNow + TTL)]]
      BY <1>10, <2>5 DEF ListArrives, TypeOK
    <2> QED BY <1>10, <2>3, <2>6 DEF ListArrives, TypeOK
  <1>11. ASSUME FetchFails(c) PROVE TypeOK'
    <2>1. call' \in [Calls -> CallType]
      BY <1>11, EndsTypes, RecoverTypes DEF FetchFails
    <2> QED BY <1>11, <2>1 DEF FetchFails, TypeOK
  <1>12. ASSUME ChooseRouter(c) \/ ChooseInstalled(c) PROVE TypeOK'
    <2>1. call[c].list \subseteq Models /\ call[c].service \in Listed
      BY <1>0, <1>12 DEF ChooseRouter, ChooseInstalled, On, CallType, Listed
    <2>2. call' \in [Calls -> CallType]
      BY <1>12, <2>1, EndsTypes, SendTypes DEF ChooseRouter, ChooseInstalled
    <2> QED BY <1>12, <2>2 DEF ChooseRouter, ChooseInstalled, TypeOK
  <1> QED BY <1>5, <1>6, <1>7, <1>8, <1>9, <1>10, <1>11, <1>12

-----------------------------------------------------------------------------
(* Who pays *)

\* How a call came to its present service, and with which rights.
CameTo(c) ==
  \/ call[c].service = "openai" /\ call[c].at = "request" /\ PaidByChoice(c)
  \/ /\ call[c].service = "openrouter" /\ call[c].entry \in RouterNames
     /\ call[c].auto <=> conf.auto[call[c].entry]
     /\ ~call[c].mayPay
  \/ /\ call[c].service = "ollama" /\ call[c].entry \in OllamaNames
     /\ call[c].auto <=> conf.auto[call[c].entry]
     /\ call[c].mayPay => CanPay(conf.auto[call[c].entry])
  \/ /\ call[c].service = "ollama" /\ call[c].entry \in RouterNames
     /\ call[c].auto <=> (conf.auto[call[c].entry] \/ conf.auto["ollama_model"])
     /\ ~call[c].mayPay

\* Where an automatic name is looked up, and what it is never sent as.
PayInv(c) ==
  IF call[c].at = "idle"
  THEN ~call[c].mayPay
  ELSE
    /\ CameTo(c)
    /\ call[c].at \in {"fetch", "arriving", "listed"} => call[c].auto
    /\ call[c].at = "request" /\ call[c].service # "openai" /\ call[c].model = Explicit => ~call[c].auto

LEMMA PayInvGivesCatalog == (\A c \in Calls : PayInv(c)) => HasCatalog
  BY DEF PayInv, CameTo, HasCatalog, Listed

LEMMA PayInvGivesSafety == (\A c \in Calls : PayInv(c)) => NoHiddenPaidCall
  <1> SUFFICES ASSUME NEW c \in Calls, PayInv(c), call[c].at = "request"
               PROVE  /\ call[c].service = "openai" => PaidByChoice(c)
                      /\ call[c].service # "openai" /\ call[c].model = Explicit => NamedByChoice(c)
    BY DEF NoHiddenPaidCall
  <1> QED BY DEF PayInv, CameTo, NamedByChoice, Names, RouterNames, OllamaNames

\* A call goes on with the same service and the same rights.
SameRights(c) ==
  /\ call'[c].service = call[c].service /\ call'[c].entry = call[c].entry
  /\ call'[c].auto = call[c].auto /\ call'[c].mayPay = call[c].mayPay

LEMMA RightsKept ==
  ASSUME NEW c, UNCHANGED conf, SameRights(c), CameTo(c), call[c].service # "openai"
  PROVE  CameTo(c)'
  BY DEF SameRights, CameTo, CanPay

LEMMA OtherCall ==
  ASSUME NEW c, UNCHANGED conf, call'[c] = call[c], PayInv(c)
  PROVE  PayInv(c)'
  BY DEF PayInv, CameTo, PaidByChoice, CanPay

LEMMA EndsPays == ASSUME TypeOK, NEW c \in Calls, Ends(c) PROVE PayInv(c)'
  BY DEF Ends, NoCall, PayInv, TypeOK

LEMMA AsksOpenAIPays ==
  ASSUME TypeOK, NEW c \in Calls, NEW entry, AsksOpenAI(c, entry), UNCHANGED conf,
         entry = "openai" \/ (entry \in OllamaNames /\ CanPay(conf.auto[entry]))
  PROVE  PayInv(c)'
  <1>1. /\ call'[c].at = "request" /\ call'[c].service = "openai" /\ call'[c].entry = entry
    BY DEF AsksOpenAI, NoCall, TypeOK
  <1> QED BY <1>1 DEF PayInv, CameTo, PaidByChoice, CanPay

LEMMA AsksOllamaAt ==
  ASSUME TypeOK, NEW c \in Calls, NEW entry, NEW auto, NEW pays, AsksOllama(c, entry, auto, pays)
  PROVE  /\ call'[c].at = "usage" /\ call'[c].service = "ollama" /\ call'[c].entry = entry
         /\ call'[c].auto = auto /\ call'[c].mayPay = pays
  BY DEF AsksOllama, NoCall, TypeOK

LEMMA RecoverPays ==
  ASSUME TypeOK, NEW c \in Calls, Recover(c), UNCHANGED conf,
         CameTo(c), call[c].service = "openrouter"
  PROVE  PayInv(c)'
  <1>1. CASE FallsBack(c)
    <2>1. /\ call'[c].at = "usage" /\ call'[c].service = "ollama" /\ call'[c].entry = call[c].entry
          /\ ~call'[c].mayPay
      BY <1>1 DEF FallsBack, AsksOllama, NoCall, TypeOK
    <2>4. call'[c].auto <=> (call[c].auto \/ conf.auto["ollama_model"])
      BY <1>1 DEF FallsBack, AsksOllama, NoCall, TypeOK
    <2>2. call[c].entry \in RouterNames /\ (call[c].auto <=> conf.auto[call[c].entry])
      BY DEF CameTo
    <2>3. CameTo(c)'
      BY <2>1, <2>4, <2>2 DEF CameTo
    <2> QED BY <2>1, <2>3 DEF PayInv
  <1>2. CASE Ends(c)
    BY <1>2, EndsPays
  <1> QED BY <1>1, <1>2 DEF Recover

LEMMA SendPays ==
  ASSUME TypeOK, NEW c \in Calls, NEW m, Send(c, m), UNCHANGED conf, CameTo(c),
         call[c].service # "openai", m = Explicit => ~call[c].auto
  PROVE  PayInv(c)'
  <1>1. call[c] \in CallType
    BY Fields
  <1>2. SameRights(c) /\ call'[c].at = "request" /\ call'[c].model = m
    BY <1>1 DEF Send, SameRights, CallType, TypeOK
  <1>3. CameTo(c)'
    BY <1>2, RightsKept
  <1> QED BY <1>2, <1>3 DEF PayInv, SameRights

\* At another place, on the way to a request.
LEMMA MovesPays ==
  ASSUME NEW c, UNCHANGED conf, CameTo(c), SameRights(c), call[c].service # "openai",
         call'[c].at \in {"resolve", "fetch", "arriving", "listed"},
         call'[c].at # "resolve" => call[c].auto
  PROVE  PayInv(c)'
  <1>1. CameTo(c)'
    BY RightsKept
  <1> QED BY <1>1 DEF PayInv, SameRights

LEMMA TryAgainPays ==
  ASSUME TypeOK, NEW c \in Calls, TryAgain(c), UNCHANGED conf, CameTo(c), call[c].service # "openai"
  PROVE  PayInv(c)'
  <1>1. call[c] \in CallType
    BY Fields
  <1>2. SameRights(c) /\ call'[c].at = "resolve"
    BY <1>1 DEF TryAgain, SameRights, CallType, TypeOK
  <1> QED BY <1>2, MovesPays

LEMMA CallStepPays ==
  ASSUME TypeOK, NEW c \in Calls, PayInv(c), CallStep(c)
  PROVE  PayInv(c)' /\ UNCHANGED conf
  <1>0. call[c] \in CallType /\ call \in [Calls -> CallType] /\ UNCHANGED conf
    BY Fields DEF TypeOK, CallStep, Begin, BeginPaid, UsageKnown, NamedModel, LocalOrRefused, CacheHit,
       CacheMiss, ServiceLists, ListArrives, FetchFails, ChooseRouter, ChooseInstalled, Answered,
       RouterFails, OllamaFails, OpenAIFails
  <1>1. CASE Begin(c)
    <2>1. ASSUME NEW n \in RouterNames,
                 call' = [call EXCEPT ![c].at = "resolve", ![c].entry = n,
                                      ![c].service = "openrouter", ![c].auto = conf.auto[n]]
          PROVE  PayInv(c)'
      <3>1. /\ call'[c].at = "resolve" /\ call'[c].entry = n
            /\ call'[c].service = "openrouter" /\ call'[c].auto = conf.auto[n]
            /\ call'[c].mayPay = call[c].mayPay
        BY <1>0, <2>1 DEF CallType
      <3>2. ~call[c].mayPay
        BY <1>1 DEF Begin, PayInv
      <3> QED BY <1>0, <3>1, <3>2 DEF PayInv, CameTo
    <2>2. ASSUME NEW n \in OllamaNames, AsksOllama(c, n, conf.auto[n], CanPay(conf.auto[n]))
          PROVE  PayInv(c)'
      <3>1. /\ call'[c].at = "usage" /\ call'[c].service = "ollama" /\ call'[c].entry = n
            /\ call'[c].auto = conf.auto[n] /\ call'[c].mayPay = CanPay(conf.auto[n])
        BY <2>2, AsksOllamaAt
      <3>2. CameTo(c)'
        BY <1>0, <3>1 DEF CameTo, CanPay
      <3> QED BY <1>0, <3>1, <3>2 DEF PayInv
    <2>3. CASE AsksOpenAI(c, "openai")
      BY <1>0, <2>3, AsksOpenAIPays
    <2> QED BY <1>0, <1>1, <2>1, <2>2, <2>3 DEF Begin
  <1>2. CASE BeginPaid(c)
    BY <1>0, <1>2, AsksOpenAIPays DEF BeginPaid, OllamaNames
  <1>3. CASE UsageKnown(c)
    <2>1. call[c].service = "ollama" /\ CameTo(c)
      BY <1>3 DEF UsageKnown, On, PayInv
    <2>2. CASE call' = [call EXCEPT ![c].at = "resolve"]
      <3>1. SameRights(c) /\ call'[c].at = "resolve"
        BY <1>0, <2>2 DEF SameRights, CallType
      <3> QED BY <1>0, <2>1, <3>1, MovesPays
    <2>3. CASE call[c].mayPay /\ AsksOpenAI(c, call[c].entry)
      <3>1. call[c].entry \in OllamaNames /\ CanPay(conf.auto[call[c].entry])
        BY <2>1, <2>3 DEF CameTo
      <3> QED BY <1>0, <2>3, <3>1, AsksOpenAIPays
    <2>4. CASE Ends(c)
      BY <1>0, <2>4, EndsPays
    <2> QED BY <1>0, <1>3, <2>2, <2>3, <2>4 DEF UsageKnown
  <1>4. CASE NamedModel(c)
    <2>1. CameTo(c) /\ call[c].service # "openai" /\ ~call[c].auto
      BY <1>4 DEF NamedModel, PayInv, CameTo
    <2> QED BY <1>0, <1>4, <2>1, SendPays DEF NamedModel
  <1>5. CASE LocalOrRefused(c)
    <2>1. CameTo(c) /\ call[c].service = "ollama" /\ call[c].auto
      BY <1>5 DEF LocalOrRefused, On, PayInv
    <2>2. CASE call' = [call EXCEPT ![c].at = "listed", ![c].list = Models]
      <3>1. SameRights(c) /\ call'[c].at = "listed"
        BY <1>0, <2>2 DEF SameRights, CallType
      <3> QED BY <1>0, <2>1, <3>1, MovesPays
    <2>3. CASE Ends(c)
      BY <1>0, <2>3, EndsPays
    <2> QED BY <1>0, <1>5, <2>2, <2>3 DEF LocalOrRefused
  <1>6. CASE CacheHit(c) \/ CacheMiss(c)
    <2>1. CameTo(c) /\ call[c].service # "openai" /\ call[c].auto
      BY <1>6 DEF CacheHit, CacheMiss, Lists, PayInv, CameTo
    <2>2. SameRights(c) /\ call'[c].at \in {"listed", "fetch"}
      BY <1>0, <1>6 DEF CacheHit, CacheMiss, SameRights, CallType
    <2> QED BY <1>0, <2>1, <2>2, MovesPays
  <1>7. CASE ServiceLists(c) \/ ListArrives(c)
    <2>1. CameTo(c) /\ call[c].service # "openai" /\ call[c].auto
      BY <1>7 DEF ServiceLists, ListArrives, PayInv, CameTo
    <2>2. SameRights(c) /\ call'[c].at \in {"listed", "arriving"}
      BY <1>0, <1>7 DEF ServiceLists, ListArrives, SameRights, CallType
    <2> QED BY <1>0, <2>1, <2>2, MovesPays
  <1>8. CASE FetchFails(c)
    <2>1. CameTo(c)
      BY <1>8 DEF FetchFails, PayInv
    <2> QED BY <1>0, <1>8, <2>1, EndsPays, RecoverPays DEF FetchFails
  <1>9. CASE ChooseRouter(c) \/ ChooseInstalled(c)
    <2>1. CameTo(c) /\ call[c].service # "openai" /\ call[c].list \subseteq Models
      BY <1>0, <1>9 DEF ChooseRouter, ChooseInstalled, On, PayInv, CallType
    <2>2. \A m \in call[c].list : m # Explicit
      BY <2>1, ModelCallsAssumption
    <2> QED BY <1>0, <1>9, <2>1, <2>2, SendPays, EndsPays DEF ChooseRouter, ChooseInstalled
  <1>10. CASE Answered(c) \/ OpenAIFails(c)
    BY <1>0, <1>10, EndsPays DEF Answered, OpenAIFails
  <1>11. CASE RouterFails(c)
    <2>1. CameTo(c) /\ call[c].service = "openrouter"
      BY <1>11 DEF RouterFails, On, PayInv
    <2> QED BY <1>0, <1>11, <2>1, TryAgainPays, RecoverPays, EndsPays DEF RouterFails
  <1>12. CASE OllamaFails(c)
    <2>1. CameTo(c) /\ call[c].service = "ollama"
      BY <1>12 DEF OllamaFails, On, PayInv
    <2>2. TryAgain(c) \/ Ends(c) \/ (call[c].mayPay /\ AsksOpenAI(c, call[c].entry))
      BY <1>12 DEF OllamaFails
    <2>3. call[c].mayPay => call[c].entry \in OllamaNames /\ CanPay(conf.auto[call[c].entry])
      BY <2>1 DEF CameTo
    <2> QED BY <1>0, <2>1, <2>2, <2>3, TryAgainPays, EndsPays, AsksOpenAIPays
  <1> QED BY <1>1, <1>2, <1>3, <1>4, <1>5, <1>6, <1>7, <1>8, <1>9, <1>10, <1>11, <1>12 DEF CallStep

LEMMA NextTypeOK == TypeOK /\ HasCatalog /\ [Next]_vars => TypeOK'
  <1> SUFFICES ASSUME TypeOK, HasCatalog, [Next]_vars PROVE TypeOK'
    OBVIOUS
  <1>1. ASSUME NEW c \in Calls, CallStep(c) PROVE TypeOK'
    BY <1>1, BeginEndTypes, CatalogTypes DEF CallStep
  <1>2. ASSUME NEW m \in Models, BecomesPaid(m) PROVE TypeOK'
    <2>1. now \in 0..(MaxNow + 1)
      BY Fields
    <2>2. paidAt' \in [Models -> 0..(MaxNow + 1)]
      BY <1>2, <2>1 DEF BecomesPaid, TypeOK
    <2> QED BY <1>2, <2>2 DEF BecomesPaid, TypeOK
  <1>3. CASE Tick
    <2>1. now' \in 0..MaxNow
      BY <1>3, Fields DEF Tick
    <2> QED BY <1>3, <2>1 DEF Tick, TypeOK
  <1>4. CASE UNCHANGED vars
    BY <1>4 DEF vars, TypeOK
  <1> QED BY <1>1, <1>2, <1>3, <1>4 DEF Next

\* A call's step is no other call's.
LEMMA OnlyOwnCall ==
  ASSUME TypeOK, NEW c \in Calls, CallStep(c), NEW v \in Calls, v # c
  PROVE  call'[v] = call[v]
  <1>1. call \in [Calls -> CallType]
    BY DEF TypeOK
  <1>2. ASSUME Ends(c) \/ TryAgain(c) \/ FallsBack(c) \/ (\E m : Send(c, m))
               \/ (\E entry : AsksOpenAI(c, entry))
               \/ (\E entry, auto, pays : AsksOllama(c, entry, auto, pays))
        PROVE  call'[v] = call[v]
    BY <1>1, <1>2 DEF Ends, TryAgain, FallsBack, Send, AsksOpenAI, AsksOllama
  <1>3. CASE Begin(c) \/ BeginPaid(c) \/ UsageKnown(c)
    BY <1>1, <1>2, <1>3 DEF Begin, BeginPaid, UsageKnown
  <1>4. CASE NamedModel(c) \/ LocalOrRefused(c) \/ CacheHit(c) \/ CacheMiss(c)
    BY <1>1, <1>2, <1>4 DEF NamedModel, LocalOrRefused, CacheHit, CacheMiss
  <1>5. CASE ServiceLists(c) \/ ListArrives(c) \/ FetchFails(c)
    BY <1>1, <1>2, <1>5 DEF ServiceLists, ListArrives, FetchFails, Recover
  <1>6. CASE ChooseRouter(c) \/ ChooseInstalled(c)
    BY <1>2, <1>6 DEF ChooseRouter, ChooseInstalled
  <1>7. CASE Answered(c) \/ RouterFails(c) \/ OllamaFails(c) \/ OpenAIFails(c)
    BY <1>2, <1>7 DEF Answered, RouterFails, OllamaFails, OpenAIFails, Recover
  <1> QED BY <1>3, <1>4, <1>5, <1>6, <1>7 DEF CallStep

LEMMA NextPays ==
  ASSUME TypeOK, \A c \in Calls : PayInv(c), [Next]_vars
  PROVE  \A c \in Calls : PayInv(c)'
  <1>1. ASSUME NEW c \in Calls, CallStep(c) PROVE \A v \in Calls : PayInv(v)'
    BY <1>1, CallStepPays, OnlyOwnCall, OtherCall
  <1>2. CASE UNCHANGED <<conf, call>>
    BY <1>2, OtherCall
  <1>3. ASSUME NEW m \in Models, BecomesPaid(m) PROVE UNCHANGED <<conf, call>>
    BY <1>3 DEF BecomesPaid
  <1>4. Tick => UNCHANGED <<conf, call>>
    BY DEF Tick
  <1>5. UNCHANGED vars => UNCHANGED <<conf, call>>
    BY DEF vars
  <1> QED BY <1>1, <1>2, <1>3, <1>4, <1>5 DEF Next

LEMMA PayInductive == Spec => [](TypeOK /\ \A c \in Calls : PayInv(c))
  <1> DEFINE J == TypeOK /\ \A c \in Calls : PayInv(c)
  <1>1. Init => J
    <2>1. ASSUME Init, NEW c \in Calls PROVE PayInv(c)
      <3>1. call[c] = NoCall
        BY <2>1 DEF Init
      <3>2. NoCall.at = "idle" /\ ~NoCall.mayPay
        BY DEF NoCall
      <3> QED BY <3>1, <3>2 DEF PayInv
    <2> QED BY <2>1, InitTypeOK
  <1>2. J /\ [Next]_vars => J'
    BY NextTypeOK, NextPays, PayInvGivesCatalog
  <1> QED BY <1>1, <1>2, PTL DEF Spec

(* Type correctness of settings, clock, catalogs and calls.                    *)
THEOREM ModelCallTypes == Spec => []TypeOK
  BY PayInductive, PTL

(* No request goes to OpenAI, and none names a model nobody verified as free,    *)
(* unless the settings chose that: for any number of calls, through every         *)
(* fallback, second attempt and change of provider.                              *)
THEOREM NoPaymentUnasked == Spec => []NoHiddenPaidCall
  <1>1. TypeOK /\ (\A c \in Calls : PayInv(c)) => NoHiddenPaidCall
    BY PayInvGivesSafety
  <1> QED BY <1>1, PayInductive, PTL
-----------------------------------------------------------------------------
(* How old a choice is *)

\* OpenRouter's list names what was free when its lifetime began.
CacheInv ==
  /\ cache["openrouter"].until <= now + TTL
  /\ \A m \in cache["openrouter"].list : cache["openrouter"].until <= paidAt[m] + TTL

\* A list that was asked for is of a time after the look; one that is used, old or
\* new, says what was free less than the cache time before the look.
AgeInv(c) ==
  /\ call[c].since <= now
  /\ On(c, "openrouter", "arriving") => \A m \in call[c].list : call[c].since <= paidAt[m]
  /\ On(c, "openrouter", "listed") => \A m \in call[c].list : call[c].since < paidAt[m] + TTL
  /\ On(c, "openrouter", "request") => call[c].age < TTL

CatalogFresh == CacheInv /\ \A c \in Calls : AgeInv(c)

LEMMA Numbers ==
  ASSUME TypeOK
  PROVE  /\ now \in Nat /\ TTL \in Nat /\ TTL > 0
         /\ \A m \in Models : paidAt[m] \in Nat
         /\ cache["openrouter"].until \in Nat /\ cache["openrouter"].list \subseteq Models
         /\ \A c \in Calls : /\ call[c].since \in Nat /\ call[c].age \in Nat
                             /\ call[c].list \subseteq Models
  <1>1. "openrouter" \in Listed
    BY DEF Listed
  <1> QED BY <1>1, Fields DEF CallType

LEMMA OtherAge ==
  ASSUME NEW v \in Calls, AgeInv(v), call'[v] = call[v], UNCHANGED <<now, paidAt>>
  PROVE  AgeInv(v)'
  BY DEF AgeInv, On

LEMMA SameCache ==
  ASSUME CacheInv, UNCHANGED <<now, paidAt>>, cache'["openrouter"] = cache["openrouter"]
  PROVE  CacheInv'
  BY DEF CacheInv

\* Where a call has no list of OpenRouter's, and asks no model by one.
LEMMA NoListAge ==
  ASSUME TypeOK, NEW c \in Calls, UNCHANGED now, call'[c].since \in {0, call[c].since}, AgeInv(c),
         \/ call'[c].service # "openrouter"
         \/ call'[c].at \in {"idle", "usage", "resolve"}
         \/ call'[c].at = "request" /\ call'[c].age = 0
  PROVE  AgeInv(c)'
  BY Numbers DEF AgeInv, On

LEMMA GoesOnAge ==
  ASSUME TypeOK, NEW c \in Calls, UNCHANGED now, AgeInv(c)
  PROVE  /\ Ends(c) => AgeInv(c)'
         /\ TryAgain(c) => AgeInv(c)'
         /\ \A entry : AsksOpenAI(c, entry) => AgeInv(c)'
         /\ \A entry, auto, pays : AsksOllama(c, entry, auto, pays) => AgeInv(c)'
         /\ Recover(c) => AgeInv(c)'
         /\ Send(c, Explicit) => AgeInv(c)'
  <1>0. call \in [Calls -> CallType] /\ call[c] \in CallType
    BY DEF TypeOK
  <1>1. Ends(c) => AgeInv(c)'
    BY <1>0, NoListAge DEF Ends, NoCall
  <1>2. TryAgain(c) => AgeInv(c)'
    <2>1. TryAgain(c) => call'[c].at = "resolve" /\ call'[c].since = call[c].since
      BY <1>0 DEF TryAgain, CallType
    <2> QED BY <2>1, NoListAge
  <1>3. ASSUME NEW entry, AsksOpenAI(c, entry) PROVE AgeInv(c)'
    <2>1. call'[c].service = "openai" /\ call'[c].since = 0
      BY <1>0, <1>3 DEF AsksOpenAI, NoCall
    <2> QED BY <2>1, NoListAge
  <1>4. ASSUME NEW entry, NEW auto, NEW pays, AsksOllama(c, entry, auto, pays) PROVE AgeInv(c)'
    <2>1. call'[c].at = "usage" /\ call'[c].since = 0
      BY <1>0, <1>4 DEF AsksOllama, NoCall
    <2> QED BY <2>1, NoListAge
  <1>5. ASSUME Send(c, Explicit) PROVE AgeInv(c)'
    <2>1. Staleness(c, Explicit) = 0
      BY DEF Staleness
    <2>2. call'[c].at = "request" /\ call'[c].age = 0 /\ call'[c].since = 0
      BY <1>0, <1>5, <2>1 DEF Send, CallType
    <2> QED BY <2>2, NoListAge
  <1>6. Recover(c) => AgeInv(c)'
    BY <1>1, <1>4 DEF Recover, FallsBack
  <1> QED BY <1>1, <1>2, <1>3, <1>4, <1>5, <1>6

\* A listed model was free recently.
LEMMA ChosenAge ==
  ASSUME TypeOK, NEW c \in Calls, UNCHANGED now, AgeInv(c), call[c].at = "listed",
         NEW m \in call[c].list, Send(c, m)
  PROVE  AgeInv(c)'
  <1>1. call \in [Calls -> CallType] /\ call[c] \in CallType
    BY DEF TypeOK
  <1>2. m \in Models /\ m # Explicit
    BY Numbers, ModelCallsAssumption
  <1>3. /\ call'[c].service = call[c].service /\ call'[c].at = "request"
        /\ call'[c].age = Staleness(c, m) /\ call'[c].since = 0
    BY <1>1 DEF Send, CallType
  <1>4. CASE call[c].service = "openrouter"
    <2>1. call[c].since < paidAt[m] + TTL
      BY <1>4 DEF AgeInv, On
    <2>2. Staleness(c, m) < TTL
      BY <1>2, <2>1, Numbers DEF Staleness
    <2> QED BY <1>3, <2>2, Numbers DEF AgeInv, On
  <1>5. CASE call[c].service # "openrouter"
    BY <1>3, <1>5, NoListAge
  <1> QED BY <1>4, <1>5

\* A second attempt that clears a catalog leaves nothing in it that is too old.
LEMMA ClearedInv ==
  ASSUME TypeOK, NEW c \in Calls, call[c].service \in Listed, CacheInv, Cleared(c),
         UNCHANGED <<now, paidAt>>
  PROVE  CacheInv'
  <1>0. "openrouter" \in Listed /\ cache \in [Listed -> [list : SUBSET Models, until : 0..(MaxNow + TTL)]]
    BY DEF Listed, TypeOK
  <1>1. CASE call[c].service = "openrouter" /\ call[c].attempt = 1
    <2>1. cache'["openrouter"].list = {} /\ cache'["openrouter"].until = 0
      BY <1>0, <1>1 DEF Cleared, Seen
    <2> QED BY <2>1, Numbers DEF CacheInv
  <1>2. CASE ~(call[c].service = "openrouter" /\ call[c].attempt = 1)
    <2>1. cache'["openrouter"] = cache["openrouter"]
      BY <1>0, <1>2 DEF Cleared, Seen
    <2> QED BY <2>1, SameCache
  <1> QED BY <1>1, <1>2

LEMMA LookAges ==
  ASSUME TypeOK, HasCatalog, NEW c \in Calls, CacheInv, AgeInv(c), UNCHANGED <<now, paidAt>>
  PROVE  /\ LocalOrRefused(c) => AgeInv(c)' /\ CacheInv'
         /\ CacheHit(c) => AgeInv(c)' /\ CacheInv'
         /\ CacheMiss(c) => AgeInv(c)' /\ CacheInv'
         /\ ServiceLists(c) => AgeInv(c)' /\ CacheInv'
         /\ ListArrives(c) => AgeInv(c)' /\ CacheInv'
  <1>0. call \in [Calls -> CallType] /\ call[c] \in CallType
    BY DEF TypeOK
  <1>1. ASSUME LocalOrRefused(c) PROVE AgeInv(c)' /\ CacheInv'
    <2>1. call[c].service = "ollama" /\ call[c].service \in Listed
      BY <1>1 DEF LocalOrRefused, On, Listed
    <2>2. CacheInv'
      BY <1>1, <2>1, ClearedInv DEF LocalOrRefused
    <2>3. CASE Ends(c)
      BY <2>2, <2>3, GoesOnAge
    <2>4. CASE call' = [call EXCEPT ![c].at = "listed", ![c].list = Models]
      <3>1. call'[c].service = "ollama" /\ call'[c].since = call[c].since
        BY <1>0, <2>1, <2>4 DEF CallType
      <3> QED BY <2>2, <3>1, NoListAge
    <2> QED BY <1>1, <2>3, <2>4 DEF LocalOrRefused
  <1>2. ASSUME CacheHit(c) PROVE AgeInv(c)' /\ CacheInv'
    <2>1. UNCHANGED cache /\ Seen(c).until > now
      BY <1>2 DEF CacheHit
    <2>2. /\ call'[c].at = "listed" /\ call'[c].list = Seen(c).list
          /\ call'[c].since = LookedAt(c) /\ call'[c].service = call[c].service
      BY <1>0, <1>2 DEF CacheHit, CallType
    <2>3. LookedAt(c) <= now
      BY Numbers DEF LookedAt
    <2>4. ASSUME call[c].service = "openrouter", NEW m \in Seen(c).list
          PROVE  LookedAt(c) < paidAt[m] + TTL
      <3>1. CASE call[c].attempt = 1
        BY <2>4, <3>1 DEF Seen
      <3>2. CASE call[c].attempt # 1
        <4>1. Seen(c) = cache["openrouter"] /\ m \in Models
          BY <2>4, <3>2, Numbers DEF Seen
        <4>2. Seen(c).until <= paidAt[m] + TTL
          BY <2>4, <4>1 DEF CacheInv
        <4> QED BY <2>1, <2>4, <4>1, <4>2, Numbers DEF LookedAt
      <3> QED BY <3>1, <3>2
    <2>5. AgeInv(c)'
      BY <2>2, <2>3, <2>4 DEF AgeInv, On
    <2> QED BY <2>1, <2>5, SameCache
  <1>3. ASSUME CacheMiss(c) PROVE AgeInv(c)' /\ CacheInv'
    <2>1. call[c].service \in Listed
      BY <1>3 DEF CacheMiss, Lists, HasCatalog
    <2>2. CacheInv'
      BY <1>3, <2>1, ClearedInv DEF CacheMiss
    <2>3. call'[c].at = "fetch" /\ call'[c].since = LookedAt(c)
      BY <1>0, <1>3 DEF CacheMiss, CallType
    <2>4. LookedAt(c) <= now
      BY Numbers DEF LookedAt
    <2> QED BY <2>2, <2>3, <2>4 DEF AgeInv, On
  <1>4. ASSUME ServiceLists(c) PROVE AgeInv(c)' /\ CacheInv'
    <2>1. PICK list \in MayList(call[c].service) :
              call' = [call EXCEPT ![c].at = "arriving", ![c].list = list]
      BY <1>4 DEF ServiceLists
    <2>2. /\ call'[c].at = "arriving" /\ call'[c].list = list
          /\ call'[c].since = call[c].since /\ call'[c].service = call[c].service
      BY <1>0, <2>1 DEF CallType
    <2>3. ASSUME call[c].service = "openrouter", NEW m \in list PROVE call[c].since <= paidAt[m]
      <3>1. m \in Models /\ paidAt[m] > now
        BY <2>3 DEF MayList, FreeNow
      <3> QED BY <3>1, Numbers DEF AgeInv
    <2>4. AgeInv(c)'
      BY <2>2, <2>3 DEF AgeInv, On
    <2> QED BY <1>4, <2>4, SameCache DEF ServiceLists
  <1>5. ASSUME ListArrives(c) PROVE AgeInv(c)' /\ CacheInv'
    <2>1. /\ call'[c].at = "listed" /\ call'[c].list = call[c].list
          /\ call'[c].since = call[c].since /\ call'[c].service = call[c].service
      BY <1>0, <1>5 DEF ListArrives, CallType
    <2>2. ASSUME call[c].service = "openrouter", NEW m \in call[c].list
          PROVE  call[c].since <= paidAt[m] /\ m \in Models
      BY <1>5, <2>2, Numbers DEF ListArrives, AgeInv, On
    <2>3. AgeInv(c)'
      <3>1. ASSUME call[c].service = "openrouter", NEW m \in call[c].list
            PROVE  call[c].since < paidAt[m] + TTL
        BY <2>2, <3>1, Numbers
      <3> QED BY <2>1, <3>1 DEF AgeInv, On
    <2>4. CASE call[c].service = "openrouter"
      <3>1. cache'["openrouter"] = [list |-> call[c].list, until |-> GoodUntil(c)]
        BY <1>5, <2>4 DEF ListArrives, TypeOK, Listed
      <3>2. GoodUntil(c) = TTL + call[c].since
        BY <2>4 DEF GoodUntil
      <3>3. GoodUntil(c) <= now + TTL
        BY <3>2, Numbers DEF AgeInv
      <3>4. ASSUME NEW m \in call[c].list PROVE GoodUntil(c) <= paidAt[m] + TTL
        BY <2>2, <2>4, <3>2, Numbers
      <3>5. CacheInv'
        BY <3>1, <3>3, <3>4 DEF CacheInv
      <3> QED BY <2>3, <3>5
    <2>5. CASE call[c].service # "openrouter"
      <3>1. cache'["openrouter"] = cache["openrouter"]
        BY <1>5, <2>5 DEF ListArrives, TypeOK, Listed
      <3> QED BY <2>3, <3>1, SameCache
    <2> QED BY <2>4, <2>5
  <1> QED BY <1>1, <1>2, <1>3, <1>4, <1>5

\* Wherever a call goes on from where it is.
LEMMA CallStepAge ==
  ASSUME TypeOK, HasCatalog, NEW c \in Calls, PayInv(c), CacheInv, AgeInv(c), CallStep(c)
  PROVE  AgeInv(c)' /\ CacheInv' /\ UNCHANGED <<now, paidAt>>
  <1>0. call \in [Calls -> CallType] /\ call[c] \in CallType /\ UNCHANGED <<now, paidAt>>
    BY Fields DEF TypeOK, CallStep, Begin, BeginPaid, UsageKnown, NamedModel, LocalOrRefused, CacheHit,
       CacheMiss, ServiceLists, ListArrives, FetchFails, ChooseRouter, ChooseInstalled, Answered,
       RouterFails, OllamaFails, OpenAIFails
  <1>1. UNCHANGED cache => CacheInv'
    BY <1>0, SameCache
  <1>2. CASE Begin(c) \/ BeginPaid(c)
    <2>1. ASSUME NEW n \in RouterNames,
                 call' = [call EXCEPT ![c].at = "resolve", ![c].entry = n,
                                      ![c].service = "openrouter", ![c].auto = conf.auto[n]]
          PROVE  AgeInv(c)'
      <3>1. call'[c].at = "resolve" /\ call'[c].since = call[c].since
        BY <1>0, <2>1 DEF CallType
      <3> QED BY <1>0, <3>1, NoListAge
    <2>2. AgeInv(c)'
      BY <1>0, <1>2, <2>1, GoesOnAge DEF Begin, BeginPaid
    <2> QED BY <1>0, <1>1, <1>2, <2>2 DEF Begin, BeginPaid
  <1>3. CASE UsageKnown(c)
    <2>1. CASE call' = [call EXCEPT ![c].at = "resolve"]
      <3>1. call'[c].at = "resolve" /\ call'[c].since = call[c].since
        BY <1>0, <2>1 DEF CallType
      <3> QED BY <1>0, <1>1, <1>3, <3>1, NoListAge DEF UsageKnown
    <2> QED BY <1>0, <1>1, <1>3, <2>1, GoesOnAge DEF UsageKnown
  <1>4. CASE NamedModel(c)
    <2>1. call[c].service \in Listed
      BY <1>4 DEF NamedModel, HasCatalog
    <2> QED BY <1>0, <1>4, <2>1, GoesOnAge, ClearedInv DEF NamedModel
  <1>5. CASE LocalOrRefused(c) \/ CacheHit(c) \/ CacheMiss(c) \/ ServiceLists(c) \/ ListArrives(c)
    BY <1>0, <1>5, LookAges
  <1>6. CASE FetchFails(c)
    BY <1>0, <1>1, <1>6, GoesOnAge DEF FetchFails
  <1>7. CASE ChooseRouter(c) \/ ChooseInstalled(c)
    <2>1. call[c].at = "listed" /\ UNCHANGED cache
      BY <1>7 DEF ChooseRouter, ChooseInstalled, On
    <2>2. Ends(c) \/ \E m \in call[c].list : Send(c, m)
      BY <1>7 DEF ChooseRouter, ChooseInstalled
    <2>3. AgeInv(c)'
      BY <1>0, <2>1, <2>2, ChosenAge, GoesOnAge
    <2> QED BY <1>0, <1>1, <2>1, <2>3
  <1>8. CASE Answered(c) \/ RouterFails(c) \/ OllamaFails(c) \/ OpenAIFails(c)
    <2>1. Ends(c) \/ TryAgain(c) \/ Recover(c) \/ (\E entry : AsksOpenAI(c, entry))
      BY <1>8 DEF Answered, RouterFails, OllamaFails, OpenAIFails
    <2>2. UNCHANGED cache
      BY <1>8 DEF Answered, RouterFails, OllamaFails, OpenAIFails
    <2> QED BY <1>0, <1>1, <2>1, <2>2, GoesOnAge
  <1> QED BY <1>2, <1>3, <1>4, <1>5, <1>6, <1>7, <1>8 DEF CallStep

\* A model that stops being free was free until now.
LEMMA PaidKeepsFresh ==
  ASSUME TypeOK, CatalogFresh, NEW m \in Models, BecomesPaid(m)
  PROVE  CatalogFresh'
  <1>1. UNCHANGED <<now, cache, call>> /\ paidAt' = [paidAt EXCEPT ![m] = now]
    BY DEF BecomesPaid
  <1>2. ASSUME NEW x \in Models PROVE paidAt'[x] = paidAt[x] \/ paidAt'[x] = now
    BY <1>1 DEF TypeOK
  <1>3. CacheInv'
    BY <1>1, <1>2, Numbers DEF CatalogFresh, CacheInv
  <1>4. ASSUME NEW c \in Calls PROVE AgeInv(c)'
    <2>1. AgeInv(c)
      BY DEF CatalogFresh
    <2>2. ASSUME NEW x \in call[c].list
          PROVE  /\ On(c, "openrouter", "arriving") => call[c].since <= paidAt'[x]
                 /\ On(c, "openrouter", "listed") => call[c].since < paidAt'[x] + TTL
      BY <1>2, <2>1, <2>2, Numbers DEF AgeInv
    <2> QED BY <1>1, <2>1, <2>2 DEF AgeInv, On
  <1> QED BY <1>3, <1>4 DEF CatalogFresh

LEMMA TickKeepsFresh ==
  ASSUME TypeOK, CatalogFresh, Tick
  PROVE  CatalogFresh'
  <1>1. UNCHANGED <<paidAt, cache, call>> /\ now' = now + 1
    BY DEF Tick
  <1>2. CacheInv'
    BY <1>1, Numbers DEF CatalogFresh, CacheInv
  <1>3. ASSUME NEW c \in Calls PROVE AgeInv(c)'
    <2>1. AgeInv(c) /\ call[c].since <= now'
      BY <1>1, Numbers DEF CatalogFresh, AgeInv
    <2> QED BY <1>1, <2>1 DEF AgeInv, On
  <1> QED BY <1>2, <1>3 DEF CatalogFresh

LEMMA NextAge ==
  ASSUME TypeOK, \A c \in Calls : PayInv(c), CatalogFresh, [Next]_vars
  PROVE  CatalogFresh'
  <1>0. HasCatalog
    BY PayInvGivesCatalog
  <1>1. ASSUME NEW c \in Calls, CallStep(c) PROVE CatalogFresh'
    <2>1. AgeInv(c)' /\ CacheInv' /\ UNCHANGED <<now, paidAt>>
      BY <1>0, <1>1, CallStepAge DEF CatalogFresh
    <2>2. ASSUME NEW v \in Calls, v # c PROVE AgeInv(v)'
      BY <1>1, <2>1, <2>2, OnlyOwnCall, OtherAge DEF CatalogFresh
    <2> QED BY <2>1, <2>2 DEF CatalogFresh
  <1>2. CASE UNCHANGED vars
    BY <1>2, SameCache, OtherAge DEF vars, CatalogFresh
  <1> QED BY <1>1, <1>2, PaidKeepsFresh, TickKeepsFresh DEF Next

LEMMA InitAge == Init => CatalogFresh
  <1> SUFFICES ASSUME Init PROVE CatalogFresh
    OBVIOUS
  <1>1. CacheInv
    <2>1. cache["openrouter"].list = {} /\ cache["openrouter"].until = 0 /\ now = 0
      BY DEF Init, Listed
    <2> QED BY <2>1, ModelCallsAssumption DEF CacheInv
  <1>2. ASSUME NEW c \in Calls PROVE AgeInv(c)
    <2>1. call[c].at = "idle" /\ call[c].since = 0 /\ now = 0
      BY DEF Init, NoCall
    <2> QED BY <2>1 DEF AgeInv, On
  <1> QED BY <1>1, <1>2 DEF CatalogFresh

(* However many calls share OpenRouter's list, in whatever order they fetch, clear *)
(* and overwrite it and however long their requests take, a model chosen           *)
(* automatically was free less than the cache time before the call looked.         *)
THEOREM RouterChoices == Spec => []RouterChoiceIsRecent
  <1>1. Init => CatalogFresh
    BY InitAge
  <1>2. TypeOK /\ (\A c \in Calls : PayInv(c)) /\ CatalogFresh /\ [Next]_vars => CatalogFresh'
    BY NextAge
  <1>3. CatalogFresh => RouterChoiceIsRecent
    BY DEF CatalogFresh, AgeInv, RouterChoiceIsRecent
  <1> QED BY <1>1, <1>2, <1>3, PayInductive, PTL DEF Spec
=============================================================================
