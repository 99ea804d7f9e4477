------------------------- MODULE PollHandlersProofs -------------------------
(***************************************************************************)
(* Theorems about PollHandlers, for any workers, kinds of values, profiles *)
(* and number of responses.                                                *)
(***************************************************************************)
EXTENDS PollHandlers, FiniteSetTheorems, SequenceTheorems, TLAPS

(* What the result of a translation says of the value, before it is posted. *)
Form(s) ==
    \/ s.result = "flag" /\ s.metric /\ MibFails
    \/ s.result = "metric" /\ s.metric /\ IsMetric(Current(s)) /\ Stage(s) # "tree"
    \/ s.result = "metric" /\ ~s.metric /\ Multi(s) /\ Current(s) = "numeral"
    \/ s.result = "multi" /\ ~s.metric /\ Multi(s) /\ ~IsMetric(Current(s))
    \/ /\ s.result = "line" /\ ~s.metric /\ ~Multi(s)
       /\ Stage(s) = "tree" \/ ~IsMetric(Current(s))

(* Each stage of a plan belongs to its task, and has variable bindings. *)
Fits(plan, task, width) ==
    \A i \in DOMAIN plan :
        /\ plan[i] = "tree" => task \in {"retry", "tree"}
        /\ plan[i] \in {"bulk", "get"} => width[plan[i]] > 0

(* A busy worker has a stage, and a binding to look at once the device answered. *)
Shape(s) ==
    /\ s.pc # "idle" => s.plan # <<>>
    /\ s.pc \in {"static", "translate", "again", "post"} => s.varbinds # <<>>
    /\ Fits(s.plan, s.task, s.width)

FormShape(s) ==
    /\ s.pc = "again" => ~Translated(Current(s))
    /\ s.pc = "post" /\ Current(s) # "error" => Form(s)

AllRouted(s) == \A i \in DOMAIN s.posts : Routed(s.posts[i])

LocalInv(s) == s \in WorkerStates /\ Shape(s) /\ FormShape(s) /\ AllRouted(s)

(* What stays of it in the middle of a step. *)
Busy(s) ==
    /\ s \in WorkerStates /\ s.plan # <<>> /\ AllRouted(s)
    /\ Fits(s.plan, s.task, s.width)

Inv == TypeOK /\ (mibUp \/ MibFails) /\ \A w \in Workers : LocalInv(worker[w])

-----------------------------------------------------------------------------
LEMMA TailType ==
    ASSUME NEW S, NEW q \in Seq(S), q # <<>>
    PROVE  /\ Head(q) \in S /\ Tail(q) \in Seq(S)
           /\ Len(Tail(q)) = Len(q) - 1 /\ Len(q) >= 1
           /\ \A i \in DOMAIN Tail(q) : i + 1 \in DOMAIN q /\ Tail(q)[i] = q[i + 1]
    OBVIOUS

LEMMA IdleType == Idle \in WorkerStates /\ NoWidth \in [{"bulk", "get"} -> Nat]
<1>1. NoWidth \in [{"bulk", "get"} -> Nat]
    BY DEF NoWidth
<1>2. \A S : <<>> \in Seq(S)
    OBVIOUS
<1> QED
    BY <1>1, <1>2 DEF Idle, WorkerStates, Tasks, Forms

(* Start keeps the history of the previous stage, or forgets it. *)
LEMMA StartInv ==
    ASSUME NEW s \in WorkerStates, AllRouted(s), NEW task \in Tasks,
           NEW plan \in Seq(Stages), NEW width \in [{"bulk", "get"} -> Nat],
           Fits(plan, task, width)
    PROVE  LocalInv(Start(s, task, plan, width))
<1> DEFINE t == Start(s, task, plan, width)
<1>0. \A S : <<>> \in Seq(S)
    OBVIOUS
<1>1. /\ t.pc = IF plan = <<>> THEN "idle" ELSE "ask"
      /\ t.task = task /\ t.plan = plan
      /\ t.posts = IF plan = <<>> THEN s.posts ELSE <<>>
    BY DEF Start
<1>2. t \in WorkerStates
    <2>1. s.answered \in Seq(Kinds \cup {"error"}) /\ s.posts \in Seq(Posts) /\ s.cut \in BOOLEAN
        BY DEF WorkerStates
    <2> QED
        BY <1>0, <2>1 DEF Start, WorkerStates, Forms
<1>3. Shape(t) /\ FormShape(t)
    <2>1. t.width = width
        BY DEF Start
    <2> QED
        BY <1>1, <2>1 DEF Shape, FormShape
<1>4. AllRouted(t)
    BY <1>1 DEF AllRouted
<1> QED
    BY <1>2, <1>3, <1>4 DEF LocalInv

LEMMA BusyInv ==
    ASSUME NEW s, LocalInv(s), s.pc # "idle"
    PROVE  Busy(s)
    BY DEF LocalInv, Shape, Busy

LEMMA PlanType ==
    ASSUME NEW s, Busy(s)
    PROVE  /\ s.plan # <<>> /\ Stage(s) \in Stages /\ Tail(s.plan) \in Seq(Stages)
           /\ s.task \in Tasks /\ s.width \in [{"bulk", "get"} -> Nat]
           /\ Fits(Tail(s.plan), s.task, s.width)
           /\ Stage(s) = "tree" => s.task \in {"retry", "tree"}
           /\ Stage(s) \in {"bulk", "get"} => s.width[Stage(s)] > 0
<1>1. s.plan \in Seq(Stages) /\ s.plan # <<>> /\ s.task \in Tasks
      /\ s.width \in [{"bulk", "get"} -> Nat]
    BY DEF Busy, WorkerStates
<1>2. Fits(s.plan, s.task, s.width)
    BY DEF Busy
<1>3. 1 \in DOMAIN s.plan /\ Head(s.plan) = s.plan[1]
    BY <1>1
<1> QED
    BY <1>1, <1>2, <1>3, TailType DEF Stage, Fits

LEMMA NextStageInv ==
    ASSUME NEW s, Busy(s)
    PROVE  LocalInv(NextStage(s))
<1>1. s \in WorkerStates /\ AllRouted(s)
    BY DEF Busy
<1> QED
    BY <1>1, PlanType, StartInv DEF NextStage

LEMMA EndsInv ==
    ASSUME NEW s, Busy(s)
    PROVE  LocalInv(HandlerEnds(s))
<1>1. CASE Stage(s) = "iftable"
    <2> DEFINE t == [s EXCEPT !.pc = "flag"]
    <2>1. t \in WorkerStates /\ t.pc = "flag" /\ t.plan = s.plan /\ t.task = s.task
          /\ t.posts = s.posts
        BY DEF Busy, WorkerStates
    <2> QED
        BY <1>1, <2>1 DEF HandlerEnds, LocalInv, Busy, Shape, FormShape, AllRouted
<1>2. CASE Stage(s) # "iftable"
    BY <1>2, NextStageInv DEF HandlerEnds
<1> QED
    BY <1>1, <1>2

LEMMA RaiseInv ==
    ASSUME NEW s, Busy(s)
    PROVE  LocalInv(Raise(s))
<1>1. CASE s.task = "profile"
    <2> DEFINE t == [s EXCEPT !.cut = TRUE]
    <2>1. /\ t \in WorkerStates /\ t.pc = s.pc /\ t.plan = s.plan /\ t.task = s.task
          /\ t.posts = s.posts /\ t.width = s.width
        BY DEF Busy, WorkerStates
    <2>2. AllRouted(t)
        BY <2>1 DEF Busy, AllRouted
    <2>3. LocalInv(NextStage(t))
        BY <2>1, <2>2, PlanType, StartInv DEF NextStage
    <2> QED
        BY <1>1, <2>3 DEF Raise
<1>2. CASE s.task # "profile"
    <2> DEFINE t == [s EXCEPT !.cut = TRUE, !.pc = "idle", !.plan = <<>>]
    <2>1. <<>> \in Seq(Stages)
        OBVIOUS
    <2>2. /\ t \in WorkerStates /\ t.pc = "idle" /\ t.plan = <<>>
          /\ t.posts = s.posts
        BY <2>1 DEF Busy, WorkerStates
    <2>3. LocalInv(t)
        BY <2>2 DEF LocalInv, Busy, Shape, FormShape, AllRouted, Fits
    <2> QED
        BY <1>2, <2>3 DEF Raise
<1> QED
    BY <1>1, <1>2

(* What is handed to requests.post goes where its meaning says. *)
LEMMA PostRouted ==
    ASSUME NEW s, LocalInv(s), s.pc = "post", Buildable(s)
    PROVE  /\ post_data_to_splunk_hec(s) \in Posts
           /\ Routed(post_data_to_splunk_hec(s))
           /\ post_data_to_splunk_hec(s).kind = Current(s)
<1>1. /\ s.varbinds \in Seq(Kinds \cup {"error"}) /\ s.varbinds # <<>>
      /\ s.metric \in BOOLEAN /\ s.result \in Forms
    BY DEF LocalInv, Shape, WorkerStates
<1>2. Current(s) \in Kinds \cup {"error"}
    BY <1>1, TailType DEF Current
<1>3. CASE Current(s) = "error"
    BY <1>2, <1>3 DEF post_data_to_splunk_hec, build_error_data, Posts, Routed, IsMetric,
       RawNumber
<1>4. CASE Current(s) # "error" /\ AsMetric(s)
    <2>1. IsMetric(Current(s))
        BY <1>4 DEF LocalInv, FormShape, Form, Buildable, AsMetric
    <2>2. Current(s) = "counter"
        BY <2>1 DEF IsMetric, RawNumber, Translated
    <2> QED
        BY <1>2, <1>4, <2>2 DEF post_data_to_splunk_hec, build_metric_data, Posts, Routed,
           IsMetric, RawNumber, Translated
<1>5. CASE Current(s) # "error" /\ ~AsMetric(s)
    <2>1. Stage(s) = "tree" \/ ~IsMetric(Current(s))
        BY <1>5 DEF LocalInv, FormShape, Form, Buildable, AsMetric, IsMetric, RawNumber
    <2>2. Stage(s) = "tree" => Walk(s)
        BY BusyInv, PlanType DEF Walk
    <2>3. IsMetric(Current(s)) => Walk(s) /\ Current(s) \notin {"missing", "complaint"}
        BY <2>1, <2>2 DEF IsMetric, RawNumber
    <2> QED
        BY <1>2, <1>5, <2>3 DEF post_data_to_splunk_hec, build_event_data, Posts, Routed
<1> QED
    BY <1>3, <1>4, <1>5

(* The handler goes on with the next binding, the device or the next stage. *)
LEMMA ProceedInv ==
    ASSUME NEW s, LocalInv(s), s.pc = "post", Buildable(s)
    PROVE  LocalInv(Proceed(Sent(s)))
<1> DEFINE p == post_data_to_splunk_hec(s)
<1> DEFINE t == Sent(s)
<1> DEFINE rest == Tail(s.varbinds)
<1>1. /\ s.varbinds \in Seq(Kinds \cup {"error"}) /\ s.varbinds # <<>>
      /\ s.posts \in Seq(Posts) /\ rest \in Seq(Kinds \cup {"error"})
    BY TailType DEF LocalInv, Shape, WorkerStates
<1>2. p \in Posts /\ Routed(p)
    BY PostRouted
<1>3. /\ t \in WorkerStates /\ t.posts = Append(s.posts, p) /\ t.pc = s.pc
      /\ t.plan = s.plan /\ t.task = s.task /\ t.width = s.width
      /\ t.varbinds = s.varbinds
    <2>1. Append(s.posts, p) \in Seq(Posts)
        BY <1>1, <1>2
    <2> QED
        BY <2>1 DEF LocalInv, WorkerStates, Sent
<1>4. AllRouted(t)
    <2>1. \A i \in DOMAIN t.posts : 
              t.posts[i] = p \/ (i \in DOMAIN s.posts /\ t.posts[i] = s.posts[i])
        BY <1>1, <1>2, <1>3
    <2> QED
        BY <2>1, <1>2 DEF AllRouted, LocalInv
<1>5. Busy(t)
    BY <1>3, <1>4 DEF LocalInv, Shape, Busy
<1>6. CASE Current(t) = "error" \/ (Tail(t.varbinds) = <<>> /\ Stage(t) = "get")
    <2> DEFINE u == [t EXCEPT !.varbinds = rest]
    <2>1. /\ u \in WorkerStates /\ u.plan = t.plan /\ u.task = t.task /\ u.width = t.width
          /\ u.posts = t.posts
        BY <1>1, <1>3 DEF WorkerStates
    <2>2. Busy(u)
        BY <1>5, <2>1 DEF Busy, AllRouted
    <2> QED
        BY <1>3, <1>6, <2>2, EndsInv DEF Proceed
<1>7. CASE ~(Current(t) = "error" \/ (Tail(t.varbinds) = <<>> /\ Stage(t) = "get"))
    <2> DEFINE pc == IF rest = <<>> THEN "ask" ELSE "translate"
    <2> DEFINE merged == t.merged \/ Stage(t) = "iftable"
    <2> DEFINE u == [t EXCEPT !.pc = pc, !.varbinds = rest, !.merged = merged]
    <2>1. merged \in BOOLEAN /\ pc \in {"ask", "translate"} /\ (pc = "translate" => rest # <<>>)
        OBVIOUS
    <2>2. /\ u \in WorkerStates /\ u.pc = pc /\ u.varbinds = rest /\ u.plan = t.plan
          /\ u.task = t.task /\ u.width = t.width
          /\ u.posts = t.posts
        <3> HIDE DEF merged, pc
        <3> QED
            BY <1>1, <1>3, <2>1 DEF WorkerStates
    <2>3. LocalInv(u)
        BY <1>5, <2>1, <2>2 DEF LocalInv, Busy, Shape, FormShape, AllRouted
    <2>4. Proceed(t) = u
        BY <1>3, <1>7 DEF Proceed
    <2> QED
        BY <2>3, <2>4
<1> QED
    BY <1>6, <1>7

-----------------------------------------------------------------------------
(* The calls to the MIB server leave what Form says. *)
LEMMA TranslationInv ==
    ASSUME NEW s, LocalInv(s),
           NEW t, t \in WorkerStates, AllRouted(t), t.pc \in {"again", "post"},
           t.plan = s.plan, t.task = s.task, t.width = s.width, t.varbinds = s.varbinds,
           s.pc \in {"translate", "again"}, FormShape(t)
    PROVE  LocalInv(t)
    BY DEF LocalInv, Shape

LEMMA FallbackInv ==
    ASSUME NEW s, LocalInv(s), s.pc \in {"translate", "again"}, MibFails
    PROVE  LocalInv(Fallback(s))
<1> DEFINE t == Fallback(s)
<1>1. /\ t \in WorkerStates /\ t.pc = "post" /\ t.plan = s.plan /\ t.task = s.task
      /\ t.width = s.width /\ t.varbinds = s.varbinds /\ t.posts = s.posts /\ t.result = "flag"
    BY DEF LocalInv, WorkerStates, Fallback, Forms
<1>2. t.metric
    BY DEF LocalInv, WorkerStates, Fallback
<1>3. FormShape(t) /\ AllRouted(t)
    BY <1>1, <1>2 DEF FormShape, Form, LocalInv, AllRouted
<1> QED
    BY <1>1, <1>3, TranslationInv

LEMMA FirstInv ==
    ASSUME NEW s, LocalInv(s), s.pc = "translate"
    PROVE  LocalInv(FirstTranslation(s))
<1> DEFINE metric == RawNumber(Current(s)) /\ ~ForceEvent(s)
<1> DEFINE text == _get_data_format(metric, Multi(s)) = "TEXT"
<1> DEFINE pc == IF text \/ Translated(Current(s)) THEN "post" ELSE "again"
<1> DEFINE result == IF text THEN "line" ELSE "metric"
<1> DEFINE t == [s EXCEPT !.pc = pc, !.result = result, !.metric = metric]
<1>1. /\ metric \in BOOLEAN /\ pc \in {"post", "again"} /\ result \in {"line", "metric"}
      /\ pc = "again" => ~Translated(Current(s))
      /\ result = "line" => text
    OBVIOUS
<1>2. text <=> ~metric /\ ~Multi(s)
    BY DEF _get_data_format
<1>3. /\ t \in WorkerStates /\ t.pc = pc /\ t.plan = s.plan /\ t.task = s.task
      /\ t.width = s.width /\ t.varbinds = s.varbinds /\ t.posts = s.posts /\ t.result = result
      /\ t.enriched = s.enriched
    <2> HIDE DEF metric, pc, result
    <2> QED
        BY <1>1 DEF LocalInv, WorkerStates, Forms
<1>4. t.metric = metric
    <2> HIDE DEF metric, pc, result
    <2> QED
        BY <1>1 DEF LocalInv, WorkerStates
<1>5. Current(t) = Current(s) /\ Stage(t) = Stage(s) /\ (Multi(t) <=> Multi(s))
    <2> HIDE DEF t
    <2> QED
        BY <1>3 DEF Current, Stage, Multi
<1>6. FormShape(t)
    <2>1. CASE text
        <3>1. ~metric /\ ~Multi(s) /\ result = "line"
            BY <2>1, <1>2
        <3>2. Stage(s) = "tree" \/ ~IsMetric(Current(s))
            BY <3>1 DEF IsMetric, ForceEvent
        <3> HIDE DEF t, metric, result
        <3>3. ~t.metric /\ t.result = "line"
            BY <3>1, <1>3, <1>4
        <3> QED
            BY <2>1, <3>1, <3>2, <3>3, <1>1, <1>3, <1>5 DEF FormShape, Form
    <2>2. CASE ~text /\ Translated(Current(s)) /\ metric
        <3>1. IsMetric(Current(s)) /\ Stage(s) # "tree" /\ result = "metric"
            BY <2>2 DEF IsMetric, ForceEvent
        <3> HIDE DEF t, metric, result
        <3>2. t.metric /\ t.result = "metric"
            BY <2>2, <3>1, <1>3, <1>4
        <3> QED
            BY <2>2, <3>1, <3>2, <1>1, <1>3, <1>5 DEF FormShape, Form
    <2>3. CASE ~text /\ Translated(Current(s)) /\ ~metric
        <3>1. Multi(s) /\ result = "metric"
            BY <2>3, <1>2
        <3>2. Current(s) = "numeral"
            BY <2>3, <3>1 DEF Multi, ForceEvent, RawNumber, Translated
        <3> HIDE DEF t, metric, result
        <3>3. ~t.metric /\ t.result = "metric"
            BY <2>3, <3>1, <1>3, <1>4
        <3> QED
            BY <2>3, <3>1, <3>2, <3>3, <1>1, <1>3, <1>5 DEF FormShape, Form
    <2>4. CASE ~text /\ ~Translated(Current(s))
        <3>1. pc = "again"
            BY <2>4
        <3> HIDE DEF t, metric, result, pc
        <3> QED
            BY <2>4, <3>1, <1>3, <1>5 DEF FormShape
    <2> QED
        BY <2>1, <2>2, <2>3, <2>4
<1>7. AllRouted(t)
    BY <1>3 DEF LocalInv, AllRouted
<1>8. LocalInv(t)
    <2> HIDE DEF t, metric, result, pc, text
    <2> QED
        BY <1>1, <1>3, <1>6, <1>7, TranslationInv
<1> QED
    BY <1>8 DEF FirstTranslation

LEMMA SecondInv ==
    ASSUME NEW s, LocalInv(s), s.pc = "again"
    PROVE  LocalInv(SecondTranslation(s))
<1> DEFINE t == SecondTranslation(s)
<1>1. /\ t \in WorkerStates /\ t.pc = "post" /\ t.plan = s.plan /\ t.task = s.task
      /\ t.width = s.width /\ t.varbinds = s.varbinds /\ t.posts = s.posts /\ t.enriched = s.enriched
      /\ t.result = IF Multi(s) THEN "multi" ELSE "line"
    BY DEF LocalInv, WorkerStates, SecondTranslation, Forms
<1>2. ~t.metric
    BY DEF LocalInv, WorkerStates, SecondTranslation
<1>3. Current(t) = Current(s) /\ Stage(t) = Stage(s) /\ (Multi(t) <=> Multi(s))
    <2> HIDE DEF t
    <2> QED
        BY <1>1 DEF Current, Stage, Multi
<1>4. ~IsMetric(Current(s))
    BY DEF LocalInv, FormShape, IsMetric
<1>5. FormShape(t) /\ AllRouted(t)
    <2> HIDE DEF t
    <2> QED
        BY <1>1, <1>2, <1>3, <1>4 DEF FormShape, Form, LocalInv, AllRouted
<1> QED
    BY <1>1, <1>5, TranslationInv

-----------------------------------------------------------------------------
(* What a task starts with. *)
LEMMA WidthType ==
    ASSUME NEW profile \in Profiles, NEW resolved
    PROVE  sort_varbinds(profile, resolved) \in [{"bulk", "get"} -> Nat]
<1>1. profile \in Seq(Entries)
    BY ProfilesAssumption
<1>2. \A kinds : Number(profile, kinds, resolved) \in Nat
    <2> TAKE kinds
    <2> DEFINE chosen == {i \in DOMAIN profile : profile[i] \in kinds /\ i \in resolved}
    <2>1. DOMAIN profile = 1 .. Len(profile) /\ Len(profile) \in Nat
        BY <1>1
    <2>2. IsFiniteSet(1 .. Len(profile))
        BY <2>1, FS_Interval
    <2>3. chosen \subseteq 1 .. Len(profile)
        BY <2>1
    <2>4. IsFiniteSet(chosen)
        BY <2>2, <2>3, FS_Subset
    <2>5. Cardinality(chosen) \in Nat
        BY <2>4, FS_CardinalityType
    <2> QED
        BY <2>5 DEF Number
<1> QED
    BY <1>2 DEF sort_varbinds

LEMMA PollPlanType ==
    ASSUME NEW width
    PROVE  PollPlan(width) \in Seq(Stages) /\ Fits(PollPlan(width), "profile", width)
<1>0. \A stage \in {"bulk", "get"} :
          LET q == IF width[stage] > 0 THEN <<stage>> ELSE <<>>
          IN  q \in Seq(Stages) /\ Fits(q, "profile", width)
    <2> TAKE stage \in {"bulk", "get"}
    <2>0. stage \in Stages /\ stage # "tree"
        BY DEF Stages
    <2>1. CASE width[stage] > 0
        <3>1. <<stage>> \in Seq(Stages) /\ \A i \in DOMAIN <<stage>> : <<stage>>[i] = stage
            BY <2>0
        <3>2. Fits(<<stage>>, "profile", width)
            BY <2>0, <2>1, <3>1 DEF Fits
        <3> QED
            BY <2>1, <3>1, <3>2
    <2>2. CASE ~(width[stage] > 0)
        BY <2>2 DEF Fits, Stages
    <2> QED
        BY <2>1, <2>2
<1> DEFINE bulk == IF width["bulk"] > 0 THEN <<"bulk">> ELSE <<>>
<1> DEFINE get == IF width["get"] > 0 THEN <<"get">> ELSE <<>>
<1>1. bulk \in Seq(Stages) /\ Fits(bulk, "profile", width)
    BY <1>0
<1>2. get \in Seq(Stages) /\ Fits(get, "profile", width)
    BY <1>0
<1> HIDE DEF bulk, get
<1>3. bulk \o get \in Seq(Stages)
    BY <1>1, <1>2
<1>4. \A i \in DOMAIN (bulk \o get) :
          \/ i \in DOMAIN bulk /\ (bulk \o get)[i] = bulk[i]
          \/ i - Len(bulk) \in DOMAIN get /\ (bulk \o get)[i] = get[i - Len(bulk)]
    BY <1>1, <1>2
<1>5. Fits(bulk \o get, "profile", width)
    BY <1>1, <1>2, <1>4 DEF Fits
<1> QED
    BY <1>3, <1>5 DEF PollPlan, bulk, get

LEMMA WalkPlanType ==
    ASSUME NEW task \in Tasks \ {"profile"}
    PROVE  /\ WalkPlan(task) \in Seq(Stages)
           /\ Fits(WalkPlan(task), task, [NoWidth EXCEPT !["get"] = 1])
           /\ [NoWidth EXCEPT !["get"] = 1] \in [{"bulk", "get"} -> Nat]
<1>1. [NoWidth EXCEPT !["get"] = 1] \in [{"bulk", "get"} -> Nat]
      /\ [NoWidth EXCEPT !["get"] = 1]["get"] = 1
    BY DEF NoWidth
<1>2. WalkPlan(task) = <<"get">> \/ WalkPlan(task) = <<"iftable">>
      \/ (task \in {"retry", "tree"}
              /\ (WalkPlan(task) = <<"iftable", "tree">> \/ WalkPlan(task) = <<"tree">>))
    BY DEF WalkPlan, Tasks
<1> DEFINE width == [NoWidth EXCEPT !["get"] = 1]
<1> HIDE DEF width
<1>3. /\ <<"get">> \in Seq(Stages) /\ Fits(<<"get">>, task, width)
      /\ <<"iftable">> \in Seq(Stages) /\ Fits(<<"iftable">>, task, width)
    <2>1. width["get"] = 1
        BY <1>1 DEF width
    <2> QED
        BY <2>1 DEF Fits, Stages
<1>4. /\ <<"tree">> \in Seq(Stages) /\ <<"iftable", "tree">> \in Seq(Stages)
      /\ task \in {"retry", "tree"} => Fits(<<"tree">>, task, width)
      /\ task \in {"retry", "tree"} => Fits(<<"iftable", "tree">>, task, width)
    BY DEF Fits, Stages
<1> QED
    BY <1>1, <1>2, <1>3, <1>4 DEF width

LEMMA BeginInv ==
    ASSUME NEW s, LocalInv(s), NEW task \in Tasks,
           NEW plan \in Seq(Stages), NEW width \in [{"bulk", "get"} -> Nat],
           Fits(plan, task, width)
    PROVE  LocalInv(Start(s, task, plan, width))
    BY StartInv DEF LocalInv

-----------------------------------------------------------------------------
(* The steps of a worker, of its local state. *)
LEMMA SharedStep ==
    ASSUME Inv, NEW w \in Workers, NEW s, LocalInv(s),
           worker' = [worker EXCEPT ![w] = s],
           mibUp' = mibUp, hec' = hec, static' \in BOOLEAN, ifWalked' \in BOOLEAN
    PROVE  Inv'
<1>2. /\ worker \in [Workers -> WorkerStates] /\ \A v \in Workers : LocalInv(worker[v])
      /\ mibUp \/ MibFails
      /\ mibUp \in BOOLEAN /\ hec \in {"up", "refusing", "slow"}
    BY DEF Inv, TypeOK
<1>3. s \in WorkerStates
    BY DEF LocalInv
<1>4. worker' \in [Workers -> WorkerStates]
    BY <1>2, <1>3
<1>5. \A v \in Workers : worker'[v] = IF v = w THEN s ELSE worker[v]
    BY <1>2
<1>6. \A v \in Workers : LocalInv(worker'[v])
    BY <1>2, <1>5
<1>7. TypeOK'
    BY <1>2, <1>4 DEF TypeOK
<1>8. (\A v \in Workers : LocalInv(worker[v]))'
    BY <1>6
<1> QED
    BY <1>2, <1>7, <1>8 DEF Inv

LEMMA LocalStep ==
    ASSUME Inv, NEW w \in Workers, NEW s, LocalInv(s), Local(w, s)
    PROVE  Inv'
    BY SharedStep DEF Local, Inv, TypeOK

LEMMA WidthPositive ==
    ASSUME NEW s, LocalInv(s), s.pc = "ask"
    PROVE  Width(s) \in Nat /\ Width(s) > 0
    BY BusyInv, PlanType DEF Width

LEMMA AnswerInv ==
    ASSUME NEW s, LocalInv(s), s.pc = "ask", NEW values \in [1 .. Width(s) -> Kinds]
    PROVE  LocalInv([s EXCEPT
               !.pc = IF Stage(s) \in {"bulk", "get"} THEN "static" ELSE "translate",
               !.varbinds = values, !.answered = @ \o values])
<1> DEFINE pc == IF Stage(s) \in {"bulk", "get"} THEN "static" ELSE "translate"
<1>1. values \in Seq(Kinds) /\ values # <<>>
    <2>1. values \in Seq(Kinds) /\ Len(values) = Width(s)
        BY WidthPositive
    <2> QED
        BY <2>1, WidthPositive
<1>2. values \in Seq(Kinds \cup {"error"})
    BY <1>1
<1>3. s.answered \in Seq(Kinds \cup {"error"}) /\ s \in WorkerStates
    BY DEF LocalInv, WorkerStates
<1>4. s.answered \o values \in Seq(Kinds \cup {"error"})
    BY <1>2, <1>3
<1> DEFINE t == [s EXCEPT !.pc = pc, !.varbinds = values, !.answered = s.answered \o values]
<1>5. /\ t \in WorkerStates /\ t.pc = pc /\ t.plan = s.plan /\ t.task = s.task
      /\ t.width = s.width /\ t.varbinds = values /\ t.posts = s.posts
    <2>1. pc \in {"static", "translate"}
        OBVIOUS
    <2> HIDE DEF pc
    <2> QED
        BY <1>2, <1>3, <1>4, <2>1 DEF WorkerStates
<1>6. pc \in {"static", "translate"}
    OBVIOUS
<1> HIDE DEF t, pc
<1>7. LocalInv(t)
    BY <1>1, <1>5, <1>6 DEF LocalInv, Shape, FormShape, AllRouted
<1> QED
    BY <1>7 DEF t, pc

LEMMA DeviceErrorInv ==
    ASSUME NEW s, LocalInv(s), s.pc = "ask"
    PROVE  LocalInv([s EXCEPT !.pc = "post", !.varbinds = <<"error">>,
                              !.answered = Append(@, "error")])
<1> DEFINE t == [s EXCEPT !.pc = "post", !.varbinds = <<"error">>,
                          !.answered = Append(s.answered, "error")]
<1>1. s.answered \in Seq(Kinds \cup {"error"}) /\ s \in WorkerStates
    BY DEF LocalInv, WorkerStates
<1>2. /\ Append(s.answered, "error") \in Seq(Kinds \cup {"error"})
      /\ <<"error">> \in Seq(Kinds \cup {"error"})
    BY <1>1
<1>3. /\ t \in WorkerStates /\ t.pc = "post" /\ t.plan = s.plan /\ t.task = s.task
      /\ t.width = s.width /\ t.varbinds = <<"error">> /\ t.posts = s.posts
    BY <1>1, <1>2 DEF WorkerStates
<1>4. Current(t) = "error" /\ <<"error">> # <<>>
    BY <1>3 DEF Current
<1> HIDE DEF t
<1>5. LocalInv(t)
    BY <1>3, <1>4 DEF LocalInv, Shape, FormShape, AllRouted
<1> QED
    BY <1>5 DEF t

LEMMA EnrichInv ==
    ASSUME NEW s, LocalInv(s), s.pc = "static", NEW found \in BOOLEAN
    PROVE  LocalInv([s EXCEPT !.pc = "translate", !.enriched = found])
<1> DEFINE t == [s EXCEPT !.pc = "translate", !.enriched = found]
<1>1. /\ t \in WorkerStates /\ t.pc = "translate" /\ t.plan = s.plan /\ t.task = s.task
      /\ t.width = s.width /\ t.varbinds = s.varbinds /\ t.posts = s.posts
    BY DEF LocalInv, WorkerStates
<1> HIDE DEF t
<1>2. LocalInv(t)
    BY <1>1 DEF LocalInv, Shape, FormShape, AllRouted
<1> QED
    BY <1>2 DEF t

LEMMA FlagInv ==
    ASSUME NEW s, LocalInv(s), s.pc = "flag"
    PROVE  LocalInv([s EXCEPT !.pc = "save"])
<1> DEFINE t == [s EXCEPT !.pc = "save"]
<1>1. /\ t \in WorkerStates /\ t.pc = "save" /\ t.plan = s.plan /\ t.task = s.task
      /\ t.width = s.width /\ t.varbinds = s.varbinds /\ t.posts = s.posts
    BY DEF LocalInv, WorkerStates
<1> HIDE DEF t
<1>2. LocalInv(t)
    BY <1>1 DEF LocalInv, Shape, FormShape, AllRouted
<1> QED
    BY <1>2 DEF t

-----------------------------------------------------------------------------
LEMMA InitInv ==
    ASSUME Init
    PROVE  Inv
<1>1. TypeOK /\ mibUp
    BY IdleType DEF Init, TypeOK
<1>2. LocalInv(Idle)
    BY IdleType DEF LocalInv, Idle, Shape, FormShape, AllRouted, Fits
<1> QED
    BY <1>1, <1>2 DEF Init, Inv

LEMMA WorkerStep ==
    ASSUME Inv, NEW w \in Workers, Step(w)
    PROVE  Inv'
<1> DEFINE s == worker[w]
<1>0. LocalInv(s)
    BY DEF Inv
<1>1. CASE PollProfile(w)
    <2>1. PICK profile \in Profiles : \E resolved \in SUBSET DOMAIN profile :
              Local(w, Start(s, "profile", PollPlan(sort_varbinds(profile, resolved)),
                             sort_varbinds(profile, resolved)))
        BY <1>1 DEF PollProfile
    <2>2. PICK resolved \in SUBSET DOMAIN profile :
              Local(w, Start(s, "profile", PollPlan(sort_varbinds(profile, resolved)),
                             sort_varbinds(profile, resolved)))
        BY <2>1
    <2>3. "profile" \in Tasks
        BY DEF Tasks
    <2> QED
        BY <1>0, <2>2, <2>3, WidthType, PollPlanType, BeginInv, LocalStep
<1>2. CASE PollOid(w)
    <2>1. PICK task \in Tasks \ {"profile"} :
              Local(w, Start(s, task, WalkPlan(task), [NoWidth EXCEPT !["get"] = 1]))
        BY <1>2 DEF PollOid
    <2> QED
        BY <1>0, <2>1, WalkPlanType, BeginInv, LocalStep
<1>3. CASE Answer(w)
    <2>1. PICK values \in [1 .. Width(s) -> Kinds] :
              Local(w, [s EXCEPT
                  !.pc = IF Stage(s) \in {"bulk", "get"} THEN "static" ELSE "translate",
                  !.varbinds = values, !.answered = @ \o values])
        BY <1>3 DEF Answer
    <2> QED
        BY <1>0, <1>3, <2>1, AnswerInv, LocalStep DEF Answer, At
<1>4. CASE DeviceError(w)
    BY <1>0, <1>4, DeviceErrorInv, LocalStep DEF DeviceError, At
<1>5. CASE NoMoreAnswers(w)
    BY <1>0, <1>5, BusyInv, EndsInv, LocalStep DEF NoMoreAnswers, At
<1>6. CASE _enrich_response(w)
    <2>1. (WithEnricher /\ static) \in BOOLEAN
        OBVIOUS
    <2> QED
        BY <1>0, <1>6, <2>1, EnrichInv, LocalStep DEF _enrich_response, At
<1>7. CASE Translate(w)
    BY <1>0, <1>7, FirstInv, LocalStep DEF Translate, At
<1>8. CASE TranslateAgain(w)
    BY <1>0, <1>8, SecondInv, LocalStep DEF TranslateAgain, At
<1>9. CASE TranslationFails(w)
    <2>1. MibFails
        BY <1>9 DEF TranslationFails, Inv
    <2> QED
        BY <1>0, <1>9, <2>1, FallbackInv, LocalStep DEF TranslationFails, At
<1>10. CASE Post(w)
    BY <1>0, <1>10, ProceedInv, LocalStep DEF Post, At
<1>11. CASE PostTimesOut(w) \/ BuildFails(w)
    BY <1>0, <1>11, BusyInv, RaiseInv, LocalStep DEF PostTimesOut, BuildFails, At
<1>12. CASE MarkIfWalked(w)
    <2> DEFINE t == [s EXCEPT !.pc = "save"]
    <2>1. LocalInv(t)
        BY <1>0, <1>12, FlagInv DEF MarkIfWalked, At
    <2>2. worker' = [worker EXCEPT ![w] = t]
        BY <1>12 DEF MarkIfWalked
    <2>3. mibUp' = mibUp /\ hec' = hec /\ static' \in BOOLEAN /\ ifWalked' \in BOOLEAN
        BY <1>12 DEF MarkIfWalked, Inv, TypeOK
    <2> QED
        BY <2>1, <2>2, <2>3, SharedStep
<1>13. CASE update_mib_static_data_for(w)
    <2>1. LocalInv(NextStage(s))
        BY <1>0, <1>13, BusyInv, NextStageInv DEF update_mib_static_data_for, At
    <2>2. worker' = [worker EXCEPT ![w] = NextStage(s)]
        BY <1>13 DEF update_mib_static_data_for
    <2>3. mibUp' = mibUp /\ hec' = hec /\ static' \in BOOLEAN /\ ifWalked' \in BOOLEAN
        BY <1>13 DEF update_mib_static_data_for, Inv, TypeOK
    <2> QED
        BY <2>1, <2>2, <2>3, SharedStep
<1> QED
    BY <1>1, <1>2, <1>3, <1>4, <1>5, <1>6, <1>7, <1>8, <1>9, <1>10, <1>11, <1>12, <1>13
    DEF Step

LEMMA OtherStep ==
    ASSUME Inv, Environment \/ UNCHANGED vars
    PROVE  Inv'
<1>1. CASE MibServer
    BY <1>1 DEF MibServer, Inv, TypeOK
<1>2. CASE SplunkEndpoint
    BY <1>2 DEF SplunkEndpoint, Inv, TypeOK
<1>3. CASE DeleteStatic
    BY <1>3 DEF DeleteStatic, Inv, TypeOK
<1>4. CASE UNCHANGED vars
    BY <1>4 DEF vars, Inv, TypeOK
<1> QED
    BY <1>1, <1>2, <1>3, <1>4 DEF Environment

LEMMA Invariance == Spec => []Inv
<1>1. Inv /\ [Next]_vars => Inv'
    BY WorkerStep, OtherStep DEF Next
<1> QED
    BY <1>1, InitInv, PTL DEF Spec

(* The variables, and the local state of each worker, keep their types. *)
THEOREM TypeCorrect == Spec => []TypeOK
    BY Invariance, PTL DEF Inv

(* What is posted has the endpoint, index and source type that its meaning asks
   for (post_data_to_splunk_hec), however the failures of the MIB server and the
   changes of the static data fall between the steps of a handler. *)
THEOREM RoutingCorrect == Spec => []RoutedByMeaning
<1>1. Inv => RoutedByMeaning
    BY DEF Inv, LocalInv, AllRouted, RoutedByMeaning
<1> QED
    BY <1>1, Invariance, PTL

(* Only a failed translation, or a text with two forms that translates to a
   number, reaches the post in a form that cannot be built (post_data_to_splunk_hec,
   get_translated_string). *)
THEOREM BuildingCorrect == Spec => []BuiltUnlessFailed
<1>1. ASSUME NEW s, LocalInv(s), s.pc = "post", ~Buildable(s)
      PROVE  \/ MibFails /\ s.result = "flag"
             \/ Multi(s) /\ Current(s) = "numeral"
    <2>1. Form(s)
        BY <1>1 DEF LocalInv, FormShape, Buildable
    <2>2. Multi(s) => Stage(s) # "tree"
        BY DEF Multi
    <2>3. Multi(s) <=> Stage(s) = "iftable" \/ Enriches(s)
        BY DEF Multi, Enriches
    <2> QED
        BY <1>1, <2>1, <2>2, <2>3 DEF Form, Buildable, AsMetric
<1>2. Inv => BuiltUnlessFailed
    BY <1>1 DEF Inv, BuiltUnlessFailed, At
<1> QED
    BY <1>2, Invariance, PTL
=============================================================================
