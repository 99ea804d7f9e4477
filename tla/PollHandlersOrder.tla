-------------------------- MODULE PollHandlersOrder --------------------------
(***************************************************************************)
(* More theorems about PollHandlers: what the device answered and what was *)
(* posted go together, value by value, and what a handler leaves behind.   *)
(***************************************************************************)
EXTENDS PollHandlersProofs

(* What was posted is what was answered first ... *)
Told(s) ==
    /\ Len(s.posts) <= Len(s.answered)
    /\ \A i \in 1 .. Len(s.posts) : s.posts[i].kind = s.answered[i]

(* ... and in the middle of a stage the bindings to look at are what is left. *)
Left(s) ==
    /\ Len(s.answered) = Len(s.posts) + Len(s.varbinds)
    /\ \A i \in 1 .. Len(s.varbinds) : s.answered[Len(s.posts) + i] = s.varbinds[i]

(* An error is a response of its own. *)
Alone(values) == \A i \in 1 .. Len(values) : values[i] = "error" => Len(values) = 1

Balanced(s) ==
    /\ Left(s) /\ Alone(s.varbinds)
    /\ s.pc \in {"ask", "flag", "save"} => s.varbinds = <<>>

Complete(s) == s.cut \/ Len(s.posts) = Len(s.answered)

Earned(s) == s.merged => \E i \in 1 .. Len(s.answered) : s.answered[i] # "error"

(* A profile with something to GET ends with the GET. *)
EndsWithGet(plan, task, width) ==
    plan # <<>> /\ task = "profile" /\ width["get"] > 0 => plan[Len(plan)] = "get"

Story(s) ==
    /\ Told(s) /\ Earned(s)
    /\ IF s.pc = "idle" THEN Complete(s) ELSE Balanced(s)
    /\ EndsWithGet(s.plan, s.task, s.width)

OrderInv == \A w \in Workers : Story(worker[w])

-----------------------------------------------------------------------------
(* The steps of a local state. *)

LEMMA StartStory ==
    ASSUME NEW s \in WorkerStates, Told(s), Complete(s), NEW task \in Tasks,
           NEW plan \in Seq(Stages), NEW width \in [{"bulk", "get"} -> Nat],
           EndsWithGet(plan, task, width)
    PROVE  Story(Start(s, task, plan, width))
<1> DEFINE t == Start(s, task, plan, width)
<1>1. /\ t.plan = plan /\ t.task = task /\ t.width = width /\ t.varbinds = <<>>
      /\ t.merged = FALSE
      /\ t.pc = IF plan = <<>> THEN "idle" ELSE "ask"
      /\ t.answered = IF plan = <<>> THEN s.answered ELSE <<>>
      /\ t.posts = IF plan = <<>> THEN s.posts ELSE <<>>
      /\ t.cut = IF plan = <<>> THEN s.cut ELSE FALSE
    BY DEF Start
<1> HIDE DEF t
<1>0. EndsWithGet(t.plan, t.task, t.width)
    BY <1>1
<1>2. ASSUME plan = <<>> PROVE Story(t)
    <2>1. t.pc = "idle" /\ t.answered = s.answered /\ t.posts = s.posts /\ t.cut = s.cut
        BY <1>1, <1>2
    <2>2. Told(t) /\ Complete(t) /\ Earned(t)
        BY <1>1, <2>1 DEF Told, Complete, Earned
    <2> QED
        BY <1>0, <2>1, <2>2 DEF Story
<1>3. ASSUME plan # <<>> PROVE Story(t)
    <2>1. t.pc = "ask" /\ t.answered = <<>> /\ t.posts = <<>> /\ t.varbinds = <<>>
        BY <1>1, <1>3
    <2>2. Len(<<>>) = 0
        OBVIOUS
    <2>3. Told(t) /\ Left(t) /\ Alone(t.varbinds)
        BY <2>1, <2>2 DEF Told, Left, Alone
    <2>4. Earned(t) /\ Balanced(t)
        BY <1>1, <2>1, <2>3 DEF Earned, Balanced
    <2> QED
        BY <1>0, <2>1, <2>3, <2>4 DEF Story
<1> QED
    BY <1>2, <1>3 DEF t

LEMMA NextStory ==
    ASSUME NEW s, Busy(s), Told(s), Complete(s), EndsWithGet(s.plan, s.task, s.width)
    PROVE  Story(NextStage(s))
<1>1. /\ s \in WorkerStates /\ s.plan \in Seq(Stages) /\ s.plan # <<>>
      /\ s.task \in Tasks /\ s.width \in [{"bulk", "get"} -> Nat]
    BY DEF Busy, WorkerStates
<1>2. Tail(s.plan) \in Seq(Stages)
    BY <1>1, TailType
<1>3. EndsWithGet(Tail(s.plan), s.task, s.width)
    BY <1>1 DEF EndsWithGet
<1> QED
    BY <1>1, <1>2, <1>3, StartStory DEF NextStage

(* A handler that returns has nothing left. *)
LEMMA EndsStory ==
    ASSUME NEW s, Busy(s), s.varbinds = <<>>, Told(s), Left(s), Earned(s),
           EndsWithGet(s.plan, s.task, s.width)
    PROVE  Story(HandlerEnds(s))
<1>1. /\ s \in WorkerStates /\ s.posts \in Seq(Posts)
      /\ s.answered \in Seq(Kinds \cup {"error"})
    BY DEF Busy, WorkerStates
<1>2. Len(s.posts) = Len(s.answered)
    BY <1>1 DEF Left
<1>3. CASE Stage(s) = "iftable"
    <2> DEFINE t == [s EXCEPT !.pc = "flag"]
    <2>1. /\ t.pc = "flag" /\ t.plan = s.plan /\ t.task = s.task /\ t.width = s.width
          /\ t.posts = s.posts /\ t.answered = s.answered /\ t.varbinds = <<>>
          /\ t.merged = s.merged
        BY <1>1 DEF WorkerStates
    <2> HIDE DEF t
    <2>2. Told(t) /\ Earned(t) /\ Balanced(t)
        BY <2>1 DEF Told, Earned, Balanced, Left, Alone
    <2>3. Story(t)
        BY <2>1, <2>2 DEF Story
    <2> QED
        BY <1>3, <2>3 DEF HandlerEnds, t
<1>4. CASE Stage(s) # "iftable"
    BY <1>2, <1>4, NextStory DEF HandlerEnds, Complete
<1> QED
    BY <1>3, <1>4

LEMMA RaiseStory ==
    ASSUME NEW s, Busy(s), Told(s), Earned(s), EndsWithGet(s.plan, s.task, s.width)
    PROVE  Story(Raise(s))
<1>1. s \in WorkerStates
    BY DEF Busy
<1>2. CASE s.task = "profile"
    <2> DEFINE t == [s EXCEPT !.cut = TRUE]
    <2>1. /\ t \in WorkerStates /\ t.plan = s.plan /\ t.task = s.task /\ t.width = s.width
          /\ t.posts = s.posts /\ t.answered = s.answered /\ t.cut
        BY <1>1 DEF WorkerStates
    <2>2. Raise(s) = NextStage(t)
        BY <1>2 DEF Raise
    <2> HIDE DEF t
    <2>3. Busy(t) /\ Told(t) /\ Complete(t)
        BY <2>1 DEF Busy, AllRouted, Told, Complete
    <2> QED
        BY <2>1, <2>2, <2>3, NextStory
<1>3. CASE s.task # "profile"
    <2> DEFINE t == [s EXCEPT !.cut = TRUE, !.pc = "idle", !.plan = <<>>]
    <2>1. /\ t.pc = "idle" /\ t.plan = <<>> /\ t.posts = s.posts
          /\ t.answered = s.answered /\ t.merged = s.merged /\ t.cut
        BY <1>1 DEF WorkerStates
    <2>2. Raise(s) = t
        BY <1>3 DEF Raise
    <2> HIDE DEF t
    <2> QED
        BY <2>1, <2>2 DEF Story, Told, Complete, Earned, EndsWithGet
<1> QED
    BY <1>2, <1>3

LEMMA Shift == \A m, n, k, j \in Nat :
    m = n + 1 /\ k = j - 1 =>
        /\ m + k = n + j
        /\ \A i \in 1 .. k : m + i = n + (i + 1) /\ i + 1 \in 1 .. j
    OBVIOUS

(* The first of the bindings left goes to Splunk. *)
LEMMA ProceedStory ==
    ASSUME NEW s, LocalInv(s), Story(s), s.pc = "post", Buildable(s)
    PROVE  Story(Proceed(Sent(s)))
<1> DEFINE p == post_data_to_splunk_hec(s)
<1> DEFINE t == Sent(s)
<1> DEFINE rest == Tail(s.varbinds)
<1>1. /\ s.varbinds \in Seq(Kinds \cup {"error"}) /\ s.varbinds # <<>>
      /\ s.posts \in Seq(Posts) /\ s.answered \in Seq(Kinds \cup {"error"})
      /\ s.merged \in BOOLEAN
    BY DEF LocalInv, Shape, WorkerStates
<1>2. p \in Posts /\ Routed(p) /\ p.kind = Current(s)
    BY PostRouted
<1>3. /\ t \in WorkerStates /\ t.posts = Append(s.posts, p) /\ t.pc = s.pc
      /\ t.plan = s.plan /\ t.task = s.task /\ t.width = s.width
      /\ t.varbinds = s.varbinds /\ t.answered = s.answered /\ t.merged = s.merged
    <2>1. Append(s.posts, p) \in Seq(Posts)
        BY <1>1, <1>2
    <2> QED
        BY <2>1 DEF LocalInv, WorkerStates, Sent
<1>4. Busy(t)
    <2>1. \A i \in DOMAIN t.posts :
              t.posts[i] = p \/ (i \in DOMAIN s.posts /\ t.posts[i] = s.posts[i])
        BY <1>1, <1>2, <1>3
    <2>2. AllRouted(t)
        BY <2>1, <1>2 DEF AllRouted, LocalInv
    <2> QED
        BY <1>3, <2>2 DEF LocalInv, Shape, Busy
<1>5. /\ Left(s) /\ Alone(s.varbinds) /\ Told(s) /\ Earned(s)
      /\ EndsWithGet(s.plan, s.task, s.width)
    BY DEF Story, Balanced
<1>6. /\ rest \in Seq(Kinds \cup {"error"}) /\ Len(rest) = Len(s.varbinds) - 1
      /\ \A i \in 1 .. Len(rest) : rest[i] = s.varbinds[i + 1]
      /\ Current(s) = s.varbinds[1] /\ Len(s.varbinds) >= 1
    BY <1>1 DEF Current
<1>7. p.kind = s.answered[Len(s.posts) + 1] /\ Len(s.posts) + 1 <= Len(s.answered)
    BY <1>1, <1>2, <1>5, <1>6 DEF Left
<1>8. /\ Len(t.posts) = Len(s.posts) + 1
      /\ \A i \in 1 .. Len(s.posts) : t.posts[i] = s.posts[i]
      /\ t.posts[Len(s.posts) + 1] = p
    <2> HIDE DEF p, t
    <2> QED
        BY <1>1, <1>2, <1>3
<1>9. Told(t)
    <2> HIDE DEF p, t
    <2> QED
        BY <1>1, <1>3, <1>5, <1>7, <1>8 DEF Told
<1>10. ASSUME NEW u, u.posts = t.posts, u.answered = t.answered, u.varbinds = rest
       PROVE  Told(u) /\ Left(u)
    <2> HIDE DEF p, t, rest
    <2>1. Told(u)
        BY <1>9, <1>10 DEF Told
    <2>2. /\ Len(rest) \in Nat /\ Len(rest) = Len(s.varbinds) - 1
          /\ Len(s.posts) \in Nat /\ Len(s.varbinds) \in Nat
          /\ Len(t.posts) \in Nat /\ Len(t.posts) = Len(s.posts) + 1
        BY <1>1, <1>6, <1>8
    <2>3. /\ Len(t.posts) + Len(rest) = Len(s.posts) + Len(s.varbinds)
          /\ \A i \in 1 .. Len(rest) : /\ Len(t.posts) + i = Len(s.posts) + (i + 1)
                                      /\ i + 1 \in 1 .. Len(s.varbinds)
        BY <2>2, Shift
    <2>4. /\ Len(s.answered) = Len(t.posts) + Len(rest)
          /\ \A i \in 1 .. Len(rest) : s.answered[Len(t.posts) + i] = rest[i]
        BY <1>5, <1>6, <2>3 DEF Left
    <2>5. Left(u)
        BY <1>3, <1>10, <2>4 DEF Left
    <2> QED
        BY <2>1, <2>5
<1>11. CASE Current(t) = "error" \/ (Tail(t.varbinds) = <<>> /\ Stage(t) = "get")
    <2> DEFINE u == [t EXCEPT !.varbinds = rest]
    <2>1. /\ u \in WorkerStates /\ u.plan = t.plan /\ u.task = t.task /\ u.width = t.width
          /\ u.posts = t.posts /\ u.answered = t.answered /\ u.varbinds = rest
          /\ u.merged = t.merged
        <3> HIDE DEF t, rest
        <3> QED
            BY <1>3, <1>6 DEF WorkerStates
    <2>2. rest = <<>>
        <3> HIDE DEF rest
        <3>0. 1 \in 1 .. Len(s.varbinds)
            BY <1>1, <1>6
        <3>1. Current(s) = "error" => Len(s.varbinds) = 1
            BY <1>5, <1>6, <3>0 DEF Alone
        <3>2. Current(s) = "error" => Len(rest) = 0
            BY <1>6, <3>1
        <3>3. Current(s) = "error" => rest = <<>>
            BY <1>6, <3>2
        <3>4. Current(t) = Current(s) /\ Tail(t.varbinds) = rest
            <4> HIDE DEF t
            <4> QED
                BY <1>3 DEF Current, rest
        <3> QED
            BY <1>11, <3>3, <3>4
    <2>3. Proceed(t) = HandlerEnds(u)
        BY <1>3, <1>11 DEF Proceed
    <2> HIDE DEF u, t, rest, p
    <2>4. Busy(u)
        BY <1>4, <2>1 DEF Busy, AllRouted
    <2>5. Told(u) /\ Left(u)
        BY <1>10, <2>1
    <2>6. Earned(u) /\ EndsWithGet(u.plan, u.task, u.width)
        BY <1>3, <1>5, <2>1 DEF Earned
    <2>7. Story(HandlerEnds(u))
        BY <2>1, <2>2, <2>4, <2>5, <2>6, EndsStory
    <2> QED
        BY <2>3, <2>7 DEF t
<1>12. CASE ~(Current(t) = "error" \/ (Tail(t.varbinds) = <<>> /\ Stage(t) = "get"))
    <2> DEFINE pc == IF rest = <<>> THEN "ask" ELSE "translate"
    <2> DEFINE merged == t.merged \/ Stage(t) = "iftable"
    <2> DEFINE u == [t EXCEPT !.pc = pc, !.varbinds = rest, !.merged = merged]
    <2>1. Proceed(t) = u
        BY <1>3, <1>12 DEF Proceed
    <2>2. pc \in {"ask", "translate"} /\ (pc = "ask" => rest = <<>>)
        OBVIOUS
    <2> HIDE DEF pc, merged
    <2>3. /\ u.pc = pc /\ u.plan = t.plan /\ u.task = t.task /\ u.width = t.width
          /\ u.posts = t.posts /\ u.answered = t.answered /\ u.varbinds = rest
        BY <1>3 DEF WorkerStates
    <2> HIDE DEF u
    <2>4. Told(u) /\ Left(u)
        BY <1>10, <2>3
    <2>5. Earned(u)
        <3>1. Current(s) # "error"
            BY <1>3, <1>12 DEF Current
        <3>2. s.answered[Len(s.posts) + 1] # "error" /\ Len(s.posts) + 1 \in 1 .. Len(s.answered)
            BY <1>1, <1>2, <1>7, <3>1
        <3> QED
            BY <1>3, <2>3, <3>2 DEF Earned
    <2>6. Alone(u.varbinds)
        <3>1. \A i \in 1 .. Len(rest) : rest[i] = "error" => FALSE
            BY <1>5, <1>6 DEF Alone
        <3> QED
            BY <2>3, <3>1 DEF Alone
    <2>7. Balanced(u) /\ u.pc # "idle"
        BY <2>2, <2>3, <2>4, <2>6 DEF Balanced
    <2>8. EndsWithGet(u.plan, u.task, u.width)
        BY <1>3, <1>5, <2>3
    <2>9. Story(u)
        BY <2>4, <2>5, <2>7, <2>8 DEF Story
    <2> QED
        BY <2>1, <2>9
<1> QED
    BY <1>11, <1>12

(* Steps that post nothing and hear nothing. *)
LEMMA SameStory ==
    ASSUME NEW s, Story(s), s.pc # "idle", NEW t,
           t.pc \in {"translate", "again", "post"} \/ (s.pc = "flag" /\ t.pc = "save"),
           t.plan = s.plan, t.task = s.task, t.width = s.width,
           t.varbinds = s.varbinds, t.posts = s.posts, t.answered = s.answered,
           t.merged = s.merged
    PROVE  Story(t)
<1>1. Told(s) /\ Earned(s) /\ Balanced(s) /\ EndsWithGet(s.plan, s.task, s.width)
    BY DEF Story
<1>2. Told(t) /\ Left(t)
    BY <1>1 DEF Balanced, Told, Left
<1>3. Alone(t.varbinds) /\ Earned(t)
    BY <1>1 DEF Balanced, Earned, Alone
<1>4. Balanced(t) /\ t.pc # "idle"
    BY <1>1, <1>2, <1>3 DEF Balanced
<1>5. EndsWithGet(t.plan, t.task, t.width)
    BY <1>1
<1> QED
    BY <1>2, <1>3, <1>4, <1>5 DEF Story

LEMMA Joined ==
    ASSUME NEW S, NEW p \in Seq(S), NEW q \in Seq(S)
    PROVE  /\ Len(p \o q) = Len(p) + Len(q)
           /\ \A i \in 1 .. Len(p) : (p \o q)[i] = p[i] /\ i \in 1 .. Len(p \o q)
           /\ \A i \in 1 .. Len(q) : (p \o q)[Len(p) + i] = q[i]
    OBVIOUS

LEMMA AnswerStory ==
    ASSUME NEW s, LocalInv(s), Story(s), s.pc = "ask",
           NEW t, t.varbinds \in Seq(Kinds \cup {"error"}), Alone(t.varbinds),
           t.pc \in {"static", "translate", "post"}, t.plan = s.plan,
           t.task = s.task, t.width = s.width, t.posts = s.posts, t.merged = s.merged,
           t.answered = s.answered \o t.varbinds
    PROVE  Story(t)
<1>1. s.answered \in Seq(Kinds \cup {"error"}) /\ s.posts \in Seq(Posts)
    BY DEF LocalInv, WorkerStates
<1>2. /\ Len(t.answered) = Len(s.answered) + Len(t.varbinds)
      /\ \A i \in 1 .. Len(s.answered) : /\ t.answered[i] = s.answered[i]
                                         /\ i \in 1 .. Len(t.answered)
      /\ \A i \in 1 .. Len(t.varbinds) : t.answered[Len(s.answered) + i] = t.varbinds[i]
    <2> DEFINE old == s.answered
    <2> DEFINE new == t.varbinds
    <2>1. old \in Seq(Kinds \cup {"error"}) /\ new \in Seq(Kinds \cup {"error"})
        BY <1>1
    <2>2. t.answered = old \o new
        OBVIOUS
    <2> HIDE DEF old, new
    <2>3. /\ Len(t.answered) = Len(old) + Len(new)
          /\ \A i \in 1 .. Len(old) : t.answered[i] = old[i] /\ i \in 1 .. Len(t.answered)
          /\ \A i \in 1 .. Len(new) : t.answered[Len(old) + i] = new[i]
        BY <2>1, <2>2, Joined
    <2> QED
        BY <2>3 DEF old, new
<1>3. /\ Len(s.posts) = Len(s.answered) /\ Len(s.answered) \in Nat
      /\ Len(t.varbinds) \in Nat
    <2>1. Left(s) /\ s.varbinds = <<>> /\ Len(<<>>) = 0
        BY DEF Story, Balanced
    <2> QED
        BY <1>1, <2>1 DEF Left
<1>4. Told(t)
    <2>1. Told(s) /\ Len(s.posts) \in Nat
        BY <1>1 DEF Story
    <2>2. Len(t.posts) <= Len(t.answered)
        <3>1. /\ Len(t.answered) = Len(s.answered) + Len(t.varbinds)
              /\ Len(t.posts) = Len(s.answered)
            BY <1>2, <1>3
        <3>2. \A m, n \in Nat : m <= m + n
            OBVIOUS
        <3> QED
            BY <1>3, <3>1, <3>2
    <2>3. \A i \in 1 .. Len(s.posts) : s.posts[i].kind = t.answered[i]
        BY <1>2, <1>3, <2>1 DEF Told
    <2> QED
        BY <2>2, <2>3 DEF Told
<1>5. Earned(t)
    BY <1>1, <1>2, <1>3 DEF Story, Earned
<1>6. Balanced(t)
    BY <1>1, <1>2, <1>3 DEF Balanced, Left, Alone
<1> QED
    BY <1>4, <1>5, <1>6 DEF Story

LEMMA PollPlanEnds ==
    ASSUME NEW width
    PROVE  EndsWithGet(PollPlan(width), "profile", width)
<1>1. CASE width["get"] > 0
    <2> DEFINE bulk == IF width["bulk"] > 0 THEN <<"bulk">> ELSE <<>>
    <2>0. \A S : <<>> \in Seq(S)
        OBVIOUS
    <2>1. bulk \in Seq(Stages)
        <3>1. <<"bulk">> \in Seq(Stages)
            BY DEF Stages
        <3> QED
            BY <2>0, <3>1
    <2>2. PollPlan(width) = bulk \o <<"get">>
        BY <1>1 DEF PollPlan
    <2> HIDE DEF bulk
    <2>3. LET plan == bulk \o <<"get">> IN plan[Len(plan)] = "get"
        BY <2>1
    <2> QED
        BY <2>2, <2>3 DEF EndsWithGet
<1>2. CASE ~(width["get"] > 0)
    BY <1>2 DEF EndsWithGet
<1> QED
    BY <1>1, <1>2

-----------------------------------------------------------------------------
(* The steps of a worker. *)
LEMMA OneStory ==
    ASSUME Inv, OrderInv, NEW w \in Workers, NEW s, Story(s),
           worker' = [worker EXCEPT ![w] = s]
    PROVE  OrderInv'
<1>1. worker \in [Workers -> WorkerStates]
    BY DEF Inv, TypeOK
<1>2. \A v \in Workers : worker'[v] = IF v = w THEN s ELSE worker[v]
    BY <1>1
<1>3. \A v \in Workers : Story(worker'[v])
    BY <1>2 DEF OrderInv
<1> QED
    BY <1>3 DEF OrderInv

LEMMA StoryStep ==
    ASSUME Inv, OrderInv, NEW w \in Workers, Step(w)
    PROVE  OrderInv'
<1> DEFINE s == worker[w]
<1>0. LocalInv(s) /\ Story(s)
    BY DEF Inv, OrderInv
<1>a. s \in WorkerStates /\ s.answered \in Seq(Kinds \cup {"error"})
    BY <1>0 DEF LocalInv, WorkerStates
<1>b. Told(s) /\ Earned(s) /\ EndsWithGet(s.plan, s.task, s.width)
    BY <1>0 DEF Story
<1>c. s.pc = "idle" => Complete(s)
    BY <1>0 DEF Story
<1>1. CASE PollProfile(w)
    <2>1. PICK profile \in Profiles : \E resolved \in SUBSET DOMAIN profile :
              Local(w, Start(s, "profile", PollPlan(sort_varbinds(profile, resolved)),
                             sort_varbinds(profile, resolved)))
        BY <1>1 DEF PollProfile
    <2>2. PICK resolved \in SUBSET DOMAIN profile :
              Local(w, Start(s, "profile", PollPlan(sort_varbinds(profile, resolved)),
                             sort_varbinds(profile, resolved)))
        BY <2>1
    <2> DEFINE width == sort_varbinds(profile, resolved)
    <2>3. width \in [{"bulk", "get"} -> Nat]
        BY WidthType
    <2>4. "profile" \in Tasks /\ s.pc = "idle"
        BY <1>1 DEF Tasks, PollProfile, At
    <2>5. Local(w, Start(s, "profile", PollPlan(width), width))
        BY <2>2
    <2> HIDE DEF width, s
    <2>6. Story(Start(s, "profile", PollPlan(width), width))
        BY <1>a, <1>b, <1>c, <2>3, <2>4, PollPlanEnds, PollPlanType, StartStory
    <2> QED
        BY <2>5, <2>6, OneStory DEF Local
<1>2. CASE PollOid(w)
    <2>1. PICK task \in Tasks \ {"profile"} :
              Local(w, Start(s, task, WalkPlan(task), [NoWidth EXCEPT !["get"] = 1]))
        BY <1>2 DEF PollOid
    <2> DEFINE width == [NoWidth EXCEPT !["get"] = 1]
    <2>2. EndsWithGet(WalkPlan(task), task, width)
        BY DEF EndsWithGet
    <2>3. width \in [{"bulk", "get"} -> Nat] /\ WalkPlan(task) \in Seq(Stages)
        BY WalkPlanType
    <2>4. s.pc = "idle"
        BY <1>2 DEF PollOid, At
    <2>5. Local(w, Start(s, task, WalkPlan(task), width))
        BY <2>1
    <2> HIDE DEF width, s
    <2>6. Story(Start(s, task, WalkPlan(task), width))
        BY <1>a, <1>b, <1>c, <2>2, <2>3, <2>4, StartStory
    <2> QED
        BY <2>5, <2>6, OneStory DEF Local
<1>3. CASE Answer(w)
    <2>1. PICK values \in [1 .. Width(s) -> Kinds] :
              Local(w, [s EXCEPT
                  !.pc = IF Stage(s) \in {"bulk", "get"} THEN "static" ELSE "translate",
                  !.varbinds = values, !.answered = @ \o values])
        BY <1>3 DEF Answer
    <2>2. s.pc = "ask"
        BY <1>3 DEF Answer, At
    <2> DEFINE pc == IF Stage(s) \in {"bulk", "get"} THEN "static" ELSE "translate"
    <2> DEFINE t == [s EXCEPT !.pc = pc, !.varbinds = values,
                              !.answered = s.answered \o values]
    <2>3. worker' = [worker EXCEPT ![w] = t]
        BY <2>1 DEF Local
    <2>4. values \in Seq(Kinds) /\ Len(values) \in Nat /\ DOMAIN values = 1 .. Len(values)
        BY <1>0, <2>2, WidthPositive
    <2>5. values \in Seq(Kinds \cup {"error"})
        BY <2>4
    <2>6. "error" \notin Kinds
        BY KindsAssumption DEF AllKinds
    <2>7. Alone(values)
        <3>1. \A i \in 1 .. Len(values) : values[i] \in Kinds
            BY <2>4
        <3> QED
            BY <2>6, <3>1 DEF Alone
    <2>8. pc \in {"static", "translate", "post"}
        OBVIOUS
    <2> HIDE DEF s, pc
    <2>9. /\ t.pc = pc /\ t.plan = s.plan /\ t.task = s.task /\ t.width = s.width
          /\ t.posts = s.posts /\ t.merged = s.merged /\ t.varbinds = values
          /\ t.answered = s.answered \o values
        BY <1>a DEF WorkerStates
    <2> HIDE DEF t
    <2>10. /\ t.varbinds \in Seq(Kinds \cup {"error"}) /\ Alone(t.varbinds)
           /\ t.answered = s.answered \o t.varbinds
           /\ t.pc \in {"static", "translate", "post"}
        BY <2>5, <2>7, <2>8, <2>9
    <2>11. Story(t)
        BY <1>0, <2>2, <2>9, <2>10, AnswerStory
    <2> QED
        BY <2>3, <2>11, OneStory
<1>4. CASE DeviceError(w)
    <2> DEFINE t == [s EXCEPT !.pc = "post", !.varbinds = <<"error">>,
                              !.answered = Append(s.answered, "error")]
    <2>1. worker' = [worker EXCEPT ![w] = t] /\ s.pc = "ask"
        BY <1>4 DEF DeviceError, Local, At
    <2>2. <<"error">> \in Seq(Kinds \cup {"error"}) /\ Alone(<<"error">>)
        BY DEF Alone
    <2>3. Append(s.answered, "error") = s.answered \o <<"error">>
        BY <1>a
    <2> HIDE DEF s
    <2>4. /\ t.pc = "post" /\ t.plan = s.plan /\ t.task = s.task /\ t.width = s.width
          /\ t.posts = s.posts /\ t.merged = s.merged /\ t.varbinds = <<"error">>
          /\ t.answered = s.answered \o <<"error">>
        BY <1>a, <2>3 DEF WorkerStates
    <2> HIDE DEF t
    <2>5. /\ t.varbinds \in Seq(Kinds \cup {"error"}) /\ Alone(t.varbinds)
          /\ t.answered = s.answered \o t.varbinds
          /\ t.pc \in {"static", "translate", "post"}
        BY <2>2, <2>4
    <2>6. Story(t)
        BY <1>0, <2>1, <2>4, <2>5, AnswerStory
    <2> QED
        BY <2>1, <2>6, OneStory
<1>5. CASE NoMoreAnswers(w)
    <2>1. s.pc = "ask" /\ worker' = [worker EXCEPT ![w] = HandlerEnds(s)]
        BY <1>5 DEF NoMoreAnswers, At, Local
    <2>2. s.varbinds = <<>> /\ Left(s)
        BY <1>0, <2>1 DEF Story, Balanced
    <2>3. Story(HandlerEnds(s))
        BY <1>0, <1>b, <2>1, <2>2, BusyInv, EndsStory
    <2> QED
        BY <2>1, <2>3, OneStory
<1>6. CASE _enrich_response(w)
    <2> DEFINE found == WithEnricher /\ static
    <2> DEFINE t == [s EXCEPT !.pc = "translate", !.enriched = found]
    <2>1. s.pc = "static" /\ worker' = [worker EXCEPT ![w] = t]
        BY <1>6 DEF _enrich_response, At, Local
    <2> HIDE DEF s, found
    <2>2. /\ t.pc = "translate" /\ t.plan = s.plan /\ t.task = s.task /\ t.width = s.width
          /\ t.varbinds = s.varbinds /\ t.posts = s.posts /\ t.answered = s.answered
          /\ t.merged = s.merged
        BY <1>a DEF WorkerStates
    <2> HIDE DEF t
    <2>3. Story(t)
        BY <1>0, <2>1, <2>2, SameStory
    <2> QED
        BY <2>1, <2>3, OneStory
<1>7. CASE Translate(w)
    <2> DEFINE t == FirstTranslation(s)
    <2>1. s.pc = "translate" /\ worker' = [worker EXCEPT ![w] = t]
        BY <1>7 DEF Translate, At, Local
    <2> HIDE DEF s
    <2>2. /\ t.pc \in {"post", "again"} /\ t.plan = s.plan /\ t.task = s.task
          /\ t.width = s.width /\ t.varbinds = s.varbinds /\ t.posts = s.posts
          /\ t.answered = s.answered /\ t.merged = s.merged
        BY <1>a DEF WorkerStates, FirstTranslation
    <2> HIDE DEF t
    <2>3. Story(t)
        BY <1>0, <2>1, <2>2, SameStory
    <2> QED
        BY <2>1, <2>3, OneStory
<1>8. CASE TranslateAgain(w) \/ TranslationFails(w)
    <2>1. PICK t \in {SecondTranslation(s), Fallback(s)} : worker' = [worker EXCEPT ![w] = t]
        BY <1>8 DEF TranslateAgain, TranslationFails, Local
    <2>2. s.pc \in {"translate", "again"}
        BY <1>8 DEF TranslateAgain, TranslationFails, At
    <2> HIDE DEF s
    <2>3. /\ t.pc = "post" /\ t.plan = s.plan /\ t.task = s.task
          /\ t.width = s.width /\ t.varbinds = s.varbinds /\ t.posts = s.posts
          /\ t.answered = s.answered /\ t.merged = s.merged
        BY <1>a, <2>1 DEF WorkerStates, SecondTranslation, Fallback
    <2>4. Story(t)
        BY <1>0, <2>2, <2>3, SameStory
    <2> QED
        BY <2>1, <2>4, OneStory
<1>9. CASE Post(w)
    <2>1. /\ s.pc = "post" /\ Buildable(s)
          /\ worker' = [worker EXCEPT ![w] = Proceed(Sent(s))]
        BY <1>9 DEF Post, At, Local
    <2> QED
        BY <1>0, <2>1, ProceedStory, OneStory
<1>10. CASE PostTimesOut(w) \/ BuildFails(w)
    <2>1. s.pc = "post" /\ worker' = [worker EXCEPT ![w] = Raise(s)]
        BY <1>10 DEF PostTimesOut, BuildFails, At, Local
    <2>2. Story(Raise(s))
        BY <1>0, <1>b, <2>1, BusyInv, RaiseStory
    <2> QED
        BY <2>1, <2>2, OneStory
<1>11. CASE MarkIfWalked(w)
    <2> DEFINE t == [s EXCEPT !.pc = "save"]
    <2>1. s.pc = "flag" /\ worker' = [worker EXCEPT ![w] = t]
        BY <1>11 DEF MarkIfWalked, At
    <2> HIDE DEF s
    <2>2. /\ t.pc = "save" /\ t.plan = s.plan /\ t.task = s.task /\ t.width = s.width
          /\ t.varbinds = s.varbinds /\ t.posts = s.posts /\ t.answered = s.answered
          /\ t.merged = s.merged
        BY <1>a DEF WorkerStates
    <2> HIDE DEF t
    <2>3. Story(t)
        BY <1>0, <2>1, <2>2, SameStory
    <2> QED
        BY <2>1, <2>3, OneStory
<1>12. CASE update_mib_static_data_for(w)
    <2>1. s.pc = "save" /\ worker' = [worker EXCEPT ![w] = NextStage(s)]
        BY <1>12 DEF update_mib_static_data_for, At
    <2>2. Complete(s)
        <3>1. Left(s) /\ s.varbinds = <<>> /\ Len(<<>>) = 0
            BY <1>0, <2>1 DEF Story, Balanced
        <3>2. s.posts \in Seq(Posts)
            BY <1>a DEF WorkerStates
        <3> QED
            BY <3>1, <3>2 DEF Left, Complete
    <2>3. Story(NextStage(s))
        BY <1>0, <1>b, <2>1, <2>2, BusyInv, NextStory
    <2> QED
        BY <2>1, <2>3, OneStory
<1> QED
    BY <1>1, <1>2, <1>3, <1>4, <1>5, <1>6, <1>7, <1>8, <1>9, <1>10, <1>11, <1>12 DEF Step

LEMMA StoryOfTheOthers ==
    ASSUME OrderInv, Environment \/ UNCHANGED vars
    PROVE  OrderInv'
<1>1. worker' = worker
    BY DEF Environment, MibServer, SplunkEndpoint, DeleteStatic, vars
<1> QED
    BY <1>1 DEF OrderInv

LEMMA InitStory ==
    ASSUME Init
    PROVE  OrderInv
<1>1. Story(Idle)
    BY DEF Idle, Story, Told, Earned, Complete, EndsWithGet
<1> QED
    BY <1>1 DEF Init, OrderInv

LEMMA OrderInvariance == Spec => [](Inv /\ OrderInv)
<1>1. Init => Inv /\ OrderInv
    BY InitInv, InitStory
<1>2. Inv /\ OrderInv /\ [Next]_vars => (Inv /\ OrderInv)'
    BY WorkerStep, OtherStep, StoryStep, StoryOfTheOthers DEF Next
<1> QED
    BY <1>1, <1>2, PTL DEF Spec

-----------------------------------------------------------------------------
(* Values are posted once each and in the order of the device's answers, whatever
   fails between two of them (the loops of get_handler, bulk_handler, walk_handler
   and walk_handler_with_enricher). *)
THEOREM OrderCorrect == Spec => []InOrder
<1>1. Inv /\ OrderInv => InOrder
    <2> SUFFICES ASSUME Inv, OrderInv, NEW w \in Workers
                 PROVE  /\ Len(worker[w].posts) <= Len(worker[w].answered)
                        /\ \A i \in DOMAIN worker[w].posts :
                               SentKinds(w)[i] = worker[w].answered[i]
        BY DEF InOrder
    <2>1. Told(worker[w]) /\ worker[w].posts \in Seq(Posts)
        BY DEF OrderInv, Story, Inv, LocalInv, WorkerStates
    <2>2. DOMAIN worker[w].posts = 1 .. Len(worker[w].posts)
        BY <2>1
    <2> QED
        BY <2>1, <2>2 DEF Told, SentKinds
<1> QED
    BY <1>1, OrderInvariance, PTL

(* A handler that turns to the device again, or is through without an exception,
   has posted every value it was given. *)
THEOREM NothingLeftOut == Spec => []NoneLeftOut
<1>1. Inv /\ OrderInv => NoneLeftOut
    <2> SUFFICES ASSUME Inv, OrderInv, NEW w \in Workers,
                        worker[w].pc \in {"idle", "ask", "flag", "save"}, ~worker[w].cut
                 PROVE  SentKinds(w) = worker[w].answered
        BY DEF NoneLeftOut
    <2> DEFINE s == worker[w]
    <2>1. /\ s.posts \in Seq(Posts) /\ s.answered \in Seq(Kinds \cup {"error"})
          /\ Told(s) /\ Story(s)
        BY DEF OrderInv, Story, Inv, LocalInv, WorkerStates
    <2>2. Len(s.posts) = Len(s.answered)
        <3>1. CASE s.pc = "idle"
            BY <2>1, <3>1 DEF Story, Complete
        <3>2. CASE s.pc # "idle"
            <4>1. Left(s) /\ s.varbinds = <<>> /\ Len(<<>>) = 0
                BY <2>1, <3>2 DEF Story, Balanced
            <4> QED
                BY <2>1, <4>1 DEF Left
        <3> QED
            BY <3>1, <3>2
    <2>3. /\ DOMAIN s.posts = 1 .. Len(s.answered)
          /\ \A i \in 1 .. Len(s.answered) : s.posts[i].kind = s.answered[i]
        BY <2>1, <2>2 DEF Told
    <2> HIDE DEF s
    <2>4. [i \in DOMAIN s.posts |-> s.posts[i].kind] = s.answered
        BY <2>1, <2>3
    <2> QED
        BY <2>4 DEF SentKinds, s
<1> QED
    BY <1>1, OrderInvariance, PTL

(* A task ends with its last stage, or with an exception if it is no profile. *)
LEMMA EndsIdle ==
    ASSUME NEW s \in WorkerStates, HandlerEnds(s).pc = "idle"
    PROVE  Tail(s.plan) = <<>>
<1>1. [s EXCEPT !.pc = "flag"].pc # "idle"
    BY DEF WorkerStates
<1> QED
    BY <1>1 DEF HandlerEnds, NextStage, Start

LEMMA RaiseIdle ==
    ASSUME NEW s \in WorkerStates, s.task = "profile", Raise(s).pc = "idle"
    PROVE  Tail(s.plan) = <<>>
<1>1. [s EXCEPT !.cut = TRUE].plan = s.plan
    BY DEF WorkerStates
<1> QED
    BY <1>1 DEF Raise, NextStage, Start

LEMMA ProceedIdle ==
    ASSUME NEW s \in WorkerStates, s.varbinds # <<>>, Proceed(s).pc = "idle"
    PROVE  Tail(s.plan) = <<>>
<1> DEFINE u == [s EXCEPT !.varbinds = Tail(s.varbinds)]
<1> DEFINE pc == IF Tail(s.varbinds) = <<>> THEN "ask" ELSE "translate"
<1> DEFINE v == [s EXCEPT !.pc = pc, !.varbinds = Tail(s.varbinds),
                          !.merged = s.merged \/ Stage(s) = "iftable"]
<1>1. Proceed(s) = HandlerEnds(u) \/ Proceed(s) = v
    BY DEF Proceed
<1>2. u \in WorkerStates /\ u.plan = s.plan
    <2>1. Tail(s.varbinds) \in Seq(Kinds \cup {"error"})
        BY DEF WorkerStates
    <2> QED
        BY <2>1 DEF WorkerStates
<1>3. v.pc # "idle"
    BY DEF WorkerStates
<1> QED
    BY <1>1, <1>2, <1>3, EndsIdle

(* A profile with something to GET does not end before the GET was tried, whatever
   became of its BULK part (get_snmp_data). *)
THEOREM GetCorrect == Spec => GetAfterBulk
<1> DEFINE Claim(w) ==
        worker[w].task = "profile" /\ worker[w].width["get"] > 0
            /\ ~At(w, "idle") /\ At(w, "idle")' => worker[w].plan = <<"get">>
<1>1. ASSUME NEW s, Busy(s), s.task = "profile", s.width["get"] > 0,
             EndsWithGet(s.plan, s.task, s.width), Tail(s.plan) = <<>>
      PROVE  s.plan = <<"get">>
    <2>1. s.plan \in Seq(Stages) /\ s.plan # <<>> /\ Len(s.plan) \in Nat
        BY <1>1 DEF Busy, WorkerStates
    <2>2. Len(s.plan) = 1
        <3>0. Len(<<>>) = 0
            OBVIOUS
        <3>1. Len(Tail(s.plan)) = 0
            BY <1>1, <3>0
        <3>2. Len(Tail(s.plan)) = Len(s.plan) - 1
            BY <2>1, TailType
        <3> QED
            BY <2>1, <3>1, <3>2
    <2>3. s.plan[1] = "get"
        BY <1>1, <2>1, <2>2 DEF EndsWithGet
    <2> QED
        BY <2>1, <2>2, <2>3
<1>2. ASSUME Inv, OrderInv, NEW w \in Workers, NEW v \in Workers, Step(v)
      PROVE  Claim(w)
    <2> DEFINE s == worker[w]
    <2> SUFFICES ASSUME s.task = "profile", s.width["get"] > 0, s.pc # "idle",
                        worker'[w].pc = "idle"
                 PROVE  s.plan = <<"get">>
        BY DEF At
    <2>1. /\ LocalInv(s) /\ Story(s) /\ worker \in [Workers -> WorkerStates]
          /\ s \in WorkerStates
        BY <1>2 DEF Inv, OrderInv, TypeOK
    <2>2. Busy(s) /\ EndsWithGet(s.plan, s.task, s.width)
        BY <2>1, BusyInv DEF Story
    <2>3. v = w
        <3>1. \E t : worker' = [worker EXCEPT ![v] = t]
            BY <1>2 DEF Step, PollProfile, PollOid, Answer, DeviceError, NoMoreAnswers,
               _enrich_response, Translate, TranslateAgain, TranslationFails, Post,
               PostTimesOut, BuildFails, MarkIfWalked, update_mib_static_data_for, Local
        <3> QED
            BY <2>1, <3>1
    <2>4. ASSUME NEW t, worker' = [worker EXCEPT ![w] = t]
          PROVE  t.pc = "idle"
        BY <2>1, <2>4
    <2>5. Tail(s.plan) = <<>>
        <3>1. ~PollProfile(w) /\ ~PollOid(w)
            BY DEF PollProfile, PollOid, At
        <3>2. ~Answer(w) /\ ~DeviceError(w) /\ ~_enrich_response(w)
            <4>1. ASSUME Answer(w) PROVE FALSE
                <5> DEFINE pc == IF Stage(s) \in {"bulk", "get"} THEN "static" ELSE "translate"
                <5>1. PICK values \in [1 .. Width(s) -> Kinds] :
                          worker' = [worker EXCEPT ![w] = [s EXCEPT !.pc = pc,
                              !.varbinds = values, !.answered = @ \o values]]
                    BY <4>1 DEF Answer, Local
                <5>2. pc # "idle"
                    OBVIOUS
                <5> HIDE DEF pc
                <5> QED
                    BY <2>1, <2>4, <5>1, <5>2 DEF WorkerStates
            <4>2. ~DeviceError(w)
                <5>1. [s EXCEPT !.pc = "post", !.varbinds = <<"error">>,
                                !.answered = Append(@, "error")].pc # "idle"
                    BY <2>1 DEF WorkerStates
                <5> QED
                    BY <2>4, <5>1 DEF DeviceError, Local
            <4>3. ~_enrich_response(w)
                <5>1. [s EXCEPT !.pc = "translate",
                                !.enriched = WithEnricher /\ static].pc # "idle"
                    BY <2>1 DEF WorkerStates
                <5> QED
                    BY <2>4, <5>1 DEF _enrich_response, Local
            <4> QED
                BY <4>1, <4>2, <4>3
        <3>3. ~Translate(w) /\ ~TranslateAgain(w) /\ ~TranslationFails(w) /\ ~MarkIfWalked(w)
            <4>1. FirstTranslation(s).pc # "idle"
                BY <2>1 DEF FirstTranslation, WorkerStates
            <4>2. SecondTranslation(s).pc # "idle" /\ Fallback(s).pc # "idle"
                BY <2>1 DEF SecondTranslation, Fallback, WorkerStates
            <4>3. [s EXCEPT !.pc = "save"].pc # "idle"
                BY <2>1 DEF WorkerStates
            <4> QED
                BY <2>4, <4>1, <4>2, <4>3 DEF Translate, TranslateAgain, TranslationFails,
                   MarkIfWalked, Local
        <3>4. CASE NoMoreAnswers(w)
            BY <2>1, <2>4, <3>4, EndsIdle DEF NoMoreAnswers, Local
        <3>5. CASE Post(w)
            <4>1. s.pc = "post" /\ worker' = [worker EXCEPT ![w] = Proceed(Sent(s))]
                  /\ Buildable(s)
                BY <3>5 DEF Post, Local, At
            <4>2. /\ Sent(s) \in WorkerStates /\ Sent(s).plan = s.plan
                  /\ Sent(s).varbinds = s.varbinds
                <5>1. Append(s.posts, post_data_to_splunk_hec(s)) \in Seq(Posts)
                    BY <2>1, <4>1, PostRouted DEF WorkerStates
                <5> QED
                    BY <2>1, <5>1 DEF Sent, WorkerStates
            <4>3. s.varbinds # <<>>
                BY <2>1, <4>1 DEF LocalInv, Shape
            <4> QED
                BY <2>4, <4>1, <4>2, <4>3, ProceedIdle
        <3>6. CASE PostTimesOut(w) \/ BuildFails(w)
            BY <2>1, <2>4, <3>6, RaiseIdle DEF PostTimesOut, BuildFails, Local
        <3>7. CASE update_mib_static_data_for(w)
            BY <2>4, <3>7 DEF update_mib_static_data_for, NextStage, Start
        <3> QED
            BY <1>2, <2>3, <3>1, <3>2, <3>3, <3>4, <3>5, <3>6, <3>7 DEF Step
    <2> QED
        BY <1>1, <2>2, <2>5
<1>3. ASSUME NEW w \in Workers, Environment \/ UNCHANGED vars
      PROVE  Claim(w)
    <2>1. worker' = worker
        BY <1>3 DEF Environment, MibServer, SplunkEndpoint, DeleteStatic, vars
    <2> QED
        BY <2>1 DEF At
<1>4. Inv /\ OrderInv /\ [Next]_vars => \A w \in Workers : Claim(w)
    BY <1>2, <1>3 DEF Next
<1>5. Inv /\ OrderInv /\ [Next]_vars => [\A w \in Workers : Claim(w)]_vars
    BY <1>4
<1> QED
    BY <1>5, OrderInvariance, PTL DEF Spec, GetAfterBulk

(* Only an answer to a walk of IF-MIB sets the flag that keeps a new host from being
   walked again (walk_handler_with_enricher): an empty walk, or one that met an
   error at once, leaves it. *)
THEOREM FlagCorrect == Spec => FlagEarned
<1> DEFINE Claim ==
        ~ifWalked /\ ifWalked' =>
            \E w \in Workers : /\ At(w, "flag")
                               /\ \E i \in DOMAIN worker[w].answered :
                                      worker[w].answered[i] # "error"
<1>1. ASSUME Inv, OrderInv, Next, ~ifWalked, ifWalked'
      PROVE  Claim
    <2>1. ~Environment
        BY <1>1 DEF Environment, MibServer, SplunkEndpoint, DeleteStatic
    <2>2. PICK w \in Workers : Step(w)
        BY <1>1, <2>1 DEF Next
    <2>3. MarkIfWalked(w) /\ worker[w].merged
        BY <1>1, <2>2 DEF Step, PollProfile, PollOid, Answer, DeviceError, NoMoreAnswers,
           _enrich_response, Translate, TranslateAgain, TranslationFails, Post,
           PostTimesOut, BuildFails, MarkIfWalked, update_mib_static_data_for, Local
    <2>4. /\ worker[w].answered \in Seq(Kinds \cup {"error"})
          /\ \E i \in 1 .. Len(worker[w].answered) : worker[w].answered[i] # "error"
        BY <1>1, <2>3 DEF Inv, LocalInv, WorkerStates, OrderInv, Story, Earned
    <2>5. DOMAIN worker[w].answered = 1 .. Len(worker[w].answered)
        BY <2>4
    <2>6. At(w, "flag")
        BY <2>3 DEF MarkIfWalked
    <2> QED
        BY <2>4, <2>5, <2>6
<1>2. ASSUME UNCHANGED vars
      PROVE  Claim
    BY <1>2 DEF vars
<1>3. Inv /\ OrderInv /\ [Next]_vars => [Claim]_vars
    BY <1>1, <1>2
<1> QED
    BY <1>3, OrderInvariance, PTL DEF Spec, FlagEarned
=============================================================================
