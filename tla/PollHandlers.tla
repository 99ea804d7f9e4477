---------------------------- MODULE PollHandlers ----------------------------
(***************************************************************************)
(* One polling task in a Celery worker: snmp_polling and its handlers      *)
(* (manager/tasks.py, manager/task_utilities.py), the translation by the   *)
(* MIB server and the post to Splunk (manager/hec_sender.py).              *)
(*                                                                         *)
(* A task runs one or two handlers, the stages of its plan.  A handler     *)
(* asks the device, and each variable binding of a response is translated  *)
(* (one or two calls to the MIB server), built into an event or a metric   *)
(* and posted, before the next one is looked at.  The MIB server and the   *)
(* Splunk endpoint may fail between any two calls, and other processes     *)
(* change the static data of the device meanwhile.                         *)
(*                                                                         *)
(* A value is abstracted to what the code tells apart:                     *)
(*   counter    a number, before and after translation                     *)
(*   enum       a number that the MIB translates to a name                 *)
(*   numeral    a text that the MIB translates to a number                 *)
(*   string     any other text                                             *)
(*   complaint  a text with the word "error" in it                         *)
(*   missing    NoSuchInstance                                             *)
(* and "error" is a response that is an error.                             *)
(***************************************************************************)
EXTENDS Integers, Sequences, FiniteSets

CONSTANTS
    Workers,
    Kinds,         \* kinds of values the device returns
    Profiles,      \* the varBinds of each profile: sequences of entries
    MaxRows,       \* bound: responses to one BULK or one walk
    WithEnricher,  \* the configuration has an enricher section
    Additional,    \* that section has additionalVarBinds
    MibFails,      \* the MIB server may be out of reach
    HecFails       \* so may the Splunk endpoint

AllKinds == {"counter", "enum", "numeral", "string", "complaint", "missing"}
(* An entry of varBinds: an OID, an OID that ends in ".*", a list
   [mib, name, index], a list [mib, name], a list with more elements. *)
Entries == {"oid", "subtree", "instance", "column", "invalid"}

ASSUME KindsAssumption == Kinds \subseteq AllKinds
ASSUME ProfilesAssumption == Profiles \subseteq Seq(Entries)
ASSUME RowsAssumption == MaxRows \in Nat
ASSUME SwitchAssumption == {WithEnricher, Additional, MibFails, HecFails} \subseteq BOOLEAN

Tasks  == {"profile", "oid", "interfaces", "retry", "tree"}
Stages == {"bulk", "get", "iftable", "tree"}
Forms  == {"metric", "multi", "line", "flag"}   \* "flag": a Python boolean

VARIABLES
    mibUp,      \* the MIB server answers
    hec,        \* the Splunk endpoint: "up", "refusing" connections, "slow"
    static,     \* MIB-STATIC-DATA of the device is there
    ifWalked,   \* its flag onetime_if_walk
    worker      \* the local state of each worker

vars == <<mibUp, hec, static, ifWalked, worker>>

Posts == [kind : Kinds \cup {"error"}, endpoint : {"metrics", "logs"},
          index : {"metric_index", "event_index", "meta_index"},
          sourcetype : {"metric", "metric:walk", "meta", "walk", "error"}]

(* answered and posts are the values of the current stage: what the device said
   and what was handed to requests.post; cut says that an exception ended it. *)
WorkerStates ==
    [pc : {"idle", "ask", "static", "translate", "again", "post", "flag", "save"},
     task : Tasks, plan : Seq(Stages), width : [{"bulk", "get"} -> Nat],
     varbinds : Seq(Kinds \cup {"error"}), enriched : BOOLEAN,
     result : Forms, metric : BOOLEAN, merged : BOOLEAN,
     answered : Seq(Kinds \cup {"error"}), posts : Seq(Posts),
     cut : BOOLEAN]

TypeOK ==
    /\ mibUp \in BOOLEAN /\ hec \in {"up", "refusing", "slow"}
    /\ static \in BOOLEAN /\ ifWalked \in BOOLEAN
    /\ worker \in [Workers -> WorkerStates]

NoWidth == [s \in {"bulk", "get"} |-> 0]
Idle == [pc |-> "idle", task |-> "tree", plan |-> <<>>, width |-> NoWidth,
         varbinds |-> <<>>, enriched |-> FALSE, result |-> "line", metric |-> FALSE,
         merged |-> FALSE, answered |-> <<>>, posts |-> <<>>, cut |-> FALSE]

Init ==
    /\ mibUp = TRUE /\ hec = "up" /\ static = FALSE /\ ifWalked = FALSE
    /\ worker = [w \in Workers |-> Idle]

At(w, pc) == worker[w].pc = pc

(* Of a local state s: the handler that runs, and the binding it looks at. *)
Stage(s)   == Head(s.plan)
Current(s) == Head(s.varbinds)

(* A step of worker w that no other process can observe. *)
Local(w, s) ==
    /\ worker' = [worker EXCEPT ![w] = s]
    /\ UNCHANGED <<mibUp, hec, static, ifWalked>>

-----------------------------------------------------------------------------
(* Translation: get_translated_string. *)

RawNumber(k)  == k \in {"counter", "enum"}      \* is_metric_data(val.prettyPrint())
Translated(k) == k \in {"counter", "numeral"}   \* is_metric_data(_value)

_get_data_format(metric, multi) ==
    IF metric THEN "METRIC" ELSE IF multi THEN "MULTIMETRIC" ELSE "TEXT"

\* Mutant: the form of a value is decided by the static data of the moment.
MultiNow(s) == Stage(s) = "iftable" \/ (Stage(s) \in {"bulk", "get"} /\ static)

(* The walk of the tree asks for events, the walk of IF-MIB for both forms, and
   the others for both forms when there is an enricher. *)
ForceEvent(s) == Stage(s) = "tree"
Multi(s) == Stage(s) = "iftable" \/ (Stage(s) \in {"bulk", "get"} /\ s.enriched)

\* Mutant: the value without its translation has a form of its own.
FallbackRaw(s) == [s EXCEPT !.pc = "post", !.result = "raw", !.metric = FALSE]

(* When a call fails, the pair (is_metric, result) is returned for (result,
   is_metric): a boolean to send, and a string, which counts as true. *)
Fallback(s) == [s EXCEPT !.pc = "post", !.result = "flag", !.metric = TRUE]

TranslationFails(w) ==
    /\ At(w, "translate") \/ At(w, "again")
    /\ ~mibUp
    /\ Local(w, Fallback(worker[w]))

\* Mutant: the value of the translated metric is not looked at.
FirstTranslationOnly(s) ==
    LET metric == RawNumber(Current(s)) /\ ~ForceEvent(s)
    IN  [s EXCEPT !.pc = "post", !.metric = metric,
                  !.result = IF metric THEN "metric" ELSE IF Multi(s) THEN "multi" ELSE "line"]

(* A metric, or the metric part of both forms, holds "metric_name": if its value
   is not a number, a second call follows. *)
FirstTranslation(s) ==
    LET metric == RawNumber(Current(s)) /\ ~ForceEvent(s)
        text   == _get_data_format(metric, Multi(s)) = "TEXT"
    IN  [s EXCEPT !.pc = IF text \/ Translated(Current(s)) THEN "post" ELSE "again",
                  !.result = IF text THEN "line" ELSE "metric",
                  !.metric = metric]

SecondTranslation(s) ==
    [s EXCEPT !.pc = "post", !.metric = FALSE,
              !.result = IF Multi(s) THEN "multi" ELSE "line"]

Translate(w) == At(w, "translate") /\ mibUp /\ Local(w, FirstTranslation(worker[w]))
TranslateAgain(w) == At(w, "again") /\ mibUp /\ Local(w, SecondTranslation(worker[w]))

-----------------------------------------------------------------------------
(* snmp_polling: the stages of a task. *)

(* The next stage of a plan, or the end; posts and answered tell of one stage. *)
Start(s, task, plan, width) ==
    [pc |-> IF plan = <<>> THEN "idle" ELSE "ask",
     task |-> task, plan |-> plan, width |-> width, varbinds |-> <<>>,
     enriched |-> FALSE, result |-> "line", metric |-> FALSE, merged |-> FALSE,
     answered |-> IF plan = <<>> THEN s.answered ELSE <<>>,
     posts |-> IF plan = <<>> THEN s.posts ELSE <<>>,
     cut |-> IF plan = <<>> THEN s.cut ELSE FALSE]

Number(profile, kinds, resolved) ==
    Cardinality({i \in DOMAIN profile : profile[i] \in kinds /\ i \in resolved})

(* A list of more than three elements is left out, and so is one whose names do
   not resolve, which happens only when the MIB files are out of reach. *)
sort_varbinds(profile, resolved) ==
    [s \in {"bulk", "get"} |->
        Number(profile, IF s = "get" THEN {"oid", "instance"} ELSE {"subtree", "column"},
               resolved)]
Resolvable(profile, resolved) ==
    \A i \in DOMAIN profile \ resolved : ~mibUp /\ profile[i] \in {"instance", "column"}

(* get_snmp_data calls no handler without variable bindings. *)
PollPlan(width) ==
    (IF width["bulk"] > 0 THEN <<"bulk">> ELSE <<>>)
        \o (IF width["get"] > 0 THEN <<"get">> ELSE <<>>)

PollProfile(w) ==
    /\ At(w, "idle")
    /\ \E profile \in Profiles : \E resolved \in SUBSET DOMAIN profile :
        LET width == sort_varbinds(profile, resolved) IN
        /\ Resolvable(profile, resolved)
        /\ Local(w, Start(worker[w], "profile", PollPlan(width), width))

(* An OID, a part of IF-MIB, or the whole tree; with an enricher the retry of a
   failed walk walks IF-MIB first. *)
WalkPlan(task) ==
    CASE task = "oid" -> <<"get">>
      [] task = "interfaces" -> <<"iftable">>
      [] task = "retry" -> IF WithEnricher THEN <<"iftable", "tree">> ELSE <<"tree">>
      [] OTHER -> <<"tree">>

PollOid(w) ==
    /\ At(w, "idle")
    /\ \E task \in Tasks \ {"profile"} :
        /\ task = "interfaces" => WithEnricher
        /\ Local(w, Start(worker[w], task, WalkPlan(task), [NoWidth EXCEPT !["get"] = 1]))

NextStage(s) == Start(s, s.task, Tail(s.plan), s.width)

(* The handler returns; the walk of IF-MIB has to store what it found. *)
HandlerEnds(s) == IF Stage(s) = "iftable" THEN [s EXCEPT !.pc = "flag"] ELSE NextStage(s)

\* Mutant: get_snmp_data does not catch the exception.
RaiseUncaught(s) == [s EXCEPT !.cut = TRUE, !.pc = "idle", !.plan = <<>>]

(* An exception: get_snmp_data ends the handler, snmp_polling the task. *)
Raise(s) ==
    IF s.task = "profile" THEN NextStage([s EXCEPT !.cut = TRUE])
    ELSE [s EXCEPT !.cut = TRUE, !.pc = "idle", !.plan = <<>>]

-----------------------------------------------------------------------------
(* The device: getCmd, bulkCmd, nextCmd and what the handlers do first. *)

Width(s) == IF Stage(s) \in {"bulk", "get"} THEN s.width[Stage(s)] ELSE 1

Answer(w) ==
    /\ At(w, "ask")
    /\ Len(worker[w].answered) < MaxRows * Width(worker[w])
    /\ \E values \in [1 .. Width(worker[w]) -> Kinds] :
        Local(w, [worker[w] EXCEPT
            !.pc = IF Stage(worker[w]) \in {"bulk", "get"} THEN "static" ELSE "translate",
            !.varbinds = values, !.answered = @ \o values])

(* An error indication or an error status: it is posted, and ends the handler. *)
DeviceError(w) ==
    /\ At(w, "ask")
    /\ Local(w, [worker[w] EXCEPT !.pc = "post", !.varbinds = <<"error">>,
                                  !.answered = Append(@, "error")])

NoMoreAnswers(w) ==
    /\ At(w, "ask")
    /\ Stage(worker[w]) # "get"
    /\ Local(w, HandlerEnds(worker[w]))

_enrich_response(w) ==
    /\ At(w, "static")
    /\ Local(w, [worker[w] EXCEPT !.pc = "translate", !.enriched = WithEnricher /\ static])

-----------------------------------------------------------------------------
(* Splunk: post_data_to_splunk_hec, build_metric_data, build_event_data. *)

Walk(s) == s.task \in {"interfaces", "retry", "tree"}   \* OnetimeFlag.is_a_walk

(* walk_handler passes False for is_metric; GET and BULK alone enrich. *)
AsMetric(s) == s.metric /\ Stage(s) # "tree"
Enriches(s) == Stage(s) \in {"bulk", "get"} /\ s.enriched

(* NoSuchInstance becomes an error before anything else is looked at. *)
build_event_data(k, walk) ==
    [kind |-> k, endpoint |-> "logs",
     index |-> IF k \in {"missing", "complaint"} THEN "event_index" ELSE "meta_index",
     sourcetype |-> IF k \in {"missing", "complaint"} THEN "error"
                    ELSE IF walk THEN "walk" ELSE "meta"]
build_metric_data(k, walk) ==
    [kind |-> k, endpoint |-> "metrics", index |-> "metric_index",
     sourcetype |-> IF walk THEN "metric:walk" ELSE "metric"]
build_error_data ==
    [kind |-> "error", endpoint |-> "logs", index |-> "event_index", sourcetype |-> "error"]

post_data_to_splunk_hec(s) ==
    IF Current(s) = "error" THEN build_error_data
    ELSE IF AsMetric(s) THEN build_metric_data(Current(s), Walk(s))
    ELSE build_event_data(Current(s), Walk(s))

(* What the builder, or _sort_walk_data before it, can take apart. *)
Buildable(s) ==
    \/ Current(s) = "error"
    \/ IF AsMetric(s) THEN s.result = "metric"
       ELSE IF Stage(s) = "iftable" \/ (Enriches(s) /\ Current(s) # "missing")
       THEN s.result = "multi"
       ELSE s.result # "flag"

\* Mutant: a handler returns to the device after the first binding.
ProceedToNextRow(s) ==
    IF Current(s) = "error" \/ Stage(s) = "get"
    THEN HandlerEnds([s EXCEPT !.varbinds = <<>>])
    ELSE [s EXCEPT !.pc = "ask", !.varbinds = <<>>, !.merged = @ \/ Stage(s) = "iftable"]

(* Back in the loop of the handler.  An error ends it, as does the last binding
   of a GET; other handlers ask the device again. *)
Proceed(s) ==
    LET rest == Tail(s.varbinds) IN
    IF Current(s) = "error" \/ (rest = <<>> /\ Stage(s) = "get")
    THEN HandlerEnds([s EXCEPT !.varbinds = rest])
    ELSE [s EXCEPT !.pc = IF rest = <<>> THEN "ask" ELSE "translate",
                   !.varbinds = rest, !.merged = @ \/ Stage(s) = "iftable"]

Sent(s) == [s EXCEPT !.posts = Append(@, post_data_to_splunk_hec(s))]

\* Mutant: a refused value is tried again.
PostRepeated(w) ==
    /\ At(w, "post") /\ Buildable(worker[w])
    /\ hec # "slow" /\ Len(worker[w].posts) < 5
    /\ Local(w, IF hec = "up" THEN Proceed(Sent(worker[w])) ELSE Sent(worker[w]))

(* A connection error is logged and the value is lost, but the handler goes on. *)
Post(w) ==
    /\ At(w, "post") /\ Buildable(worker[w])
    /\ hec # "slow"
    /\ Local(w, Proceed(Sent(worker[w])))

(* send_request catches connection errors only, not a timeout. *)
PostTimesOut(w) ==
    /\ At(w, "post") /\ Buildable(worker[w])
    /\ hec = "slow"
    /\ Local(w, Raise(worker[w]))

BuildFails(w) ==
    /\ At(w, "post") /\ ~Buildable(worker[w])
    /\ Local(w, Raise(worker[w]))

-----------------------------------------------------------------------------
(* The end of walk_handler_with_enricher: two updates of the document.  Which
   of the configured attributes the walk met is left open. *)

\* Mutant: without the test of merged_result.
MarkAlways(w) ==
    /\ At(w, "flag")
    /\ ifWalked' = TRUE
    /\ worker' = [worker EXCEPT ![w].pc = "save"]
    /\ UNCHANGED <<mibUp, hec, static>>

MarkIfWalked(w) ==
    /\ At(w, "flag")
    /\ ifWalked' = (ifWalked \/ worker[w].merged)
    /\ worker' = [worker EXCEPT ![w].pc = "save"]
    /\ UNCHANGED <<mibUp, hec, static>>

update_mib_static_data_for(w) ==
    /\ At(w, "save")
    /\ \E found \in {FALSE, worker[w].merged} : static' = (static \/ found \/ Additional)
    /\ worker' = [worker EXCEPT ![w] = NextStage(@)]
    /\ UNCHANGED <<mibUp, hec, ifWalked>>

-----------------------------------------------------------------------------
(* The other processes. *)

MibServer ==
    /\ MibFails
    /\ mibUp' = ~mibUp
    /\ UNCHANGED <<hec, static, ifWalked, worker>>

SplunkEndpoint ==
    /\ HecFails
    /\ hec' \in {"up", "refusing", "slow"} \ {hec}
    /\ UNCHANGED <<mibUp, static, ifWalked, worker>>

(* delete_all_static_data and delete_host, by the scheduler. *)
DeleteStatic ==
    /\ static \/ ifWalked
    /\ static' = FALSE
    /\ ifWalked' \in {ifWalked, FALSE}
    /\ UNCHANGED <<mibUp, hec, worker>>

Environment == MibServer \/ SplunkEndpoint \/ DeleteStatic

Step(w) ==
    \/ PollProfile(w) \/ PollOid(w)
    \/ Answer(w) \/ DeviceError(w) \/ NoMoreAnswers(w)
    \/ _enrich_response(w)
    \/ Translate(w) \/ TranslateAgain(w) \/ TranslationFails(w)
    \/ Post(w) \/ PostTimesOut(w) \/ BuildFails(w)
    \/ MarkIfWalked(w) \/ update_mib_static_data_for(w)

Next == Environment \/ \E w \in Workers : Step(w)

Spec == Init /\ [][Next]_vars

-----------------------------------------------------------------------------
(* Properties. *)

SentKinds(w) == [i \in DOMAIN worker[w].posts |-> worker[w].posts[i].kind]

(* A value goes to the metrics endpoint and index exactly when it is a number
   that the translation leaves a number, unless a walk of the whole tree sent
   it; errors, and nothing else, go to the index for events.  This must hold
   whatever the MIB server answers to the second call and whenever the static
   data change (post_data_to_splunk_hec). *)
IsMetric(k) == RawNumber(k) /\ Translated(k)
Routed(p) ==
    /\ p.endpoint = "metrics" <=> p.index = "metric_index"
    /\ p.endpoint = "metrics" => IsMetric(p.kind)
    /\ IsMetric(p.kind) => p.endpoint = "metrics" \/ p.sourcetype = "walk"
    /\ p.index = "event_index" <=> p.kind \in {"error", "missing", "complaint"}
    /\ p.index = "event_index" <=> p.sourcetype = "error"
RoutedByMeaning ==
    \A w \in Workers : \A i \in DOMAIN worker[w].posts : Routed(worker[w].posts[i])

(* Values are posted once each, in the order in which the device gave them, and
   when the handler turns to the device again, or is through, none is left out:
   only an exception cuts a handler short (the loops of the handlers). *)
InOrder ==
    \A w \in Workers :
        /\ Len(worker[w].posts) <= Len(worker[w].answered)
        /\ \A i \in DOMAIN worker[w].posts : SentKinds(w)[i] = worker[w].answered[i]
NoneLeftOut ==
    \A w \in Workers :
        worker[w].pc \in {"idle", "ask", "flag", "save"} /\ ~worker[w].cut
            => SentKinds(w) = worker[w].answered

(* What reaches the post can be built into an event or a metric, whatever the
   other processes do to the static data meanwhile, except after a failure of the
   MIB server and for a text with two forms that translates to a number. *)
BuiltUnlessFailed ==
    \A w \in Workers :
        At(w, "post") /\ ~Buildable(worker[w]) =>
            \/ MibFails /\ worker[w].result = "flag"
            \/ Multi(worker[w]) /\ Current(worker[w]) = "numeral"

(* What goes wrong in the BULK part of a profile does not keep the worker from
   asking for the GET part (get_snmp_data). *)
GetAfterBulk ==
    [][\A w \in Workers :
        worker[w].task = "profile" /\ worker[w].width["get"] > 0
            /\ ~At(w, "idle") /\ At(w, "idle")'
            => worker[w].plan = <<"get">>]_vars

(* Only an answer to a walk of IF-MIB sets the flag that keeps a new host from
   being walked again (walk_handler_with_enricher, check_if_new_host_was_added). *)
FlagEarned ==
    [][~ifWalked /\ ifWalked' =>
        \E w \in Workers : /\ At(w, "flag")
                           /\ \E i \in DOMAIN worker[w].answered :
                                  worker[w].answered[i] # "error"]_vars

(* get_translated_string: "if it failed to get translation, return the the original
   var_binds", so that a device's values reach Splunk without the MIB server. *)
SentUntranslated ==
    \A w \in Workers : At(w, "idle") => SentKinds(w) = worker[w].answered
=============================================================================
