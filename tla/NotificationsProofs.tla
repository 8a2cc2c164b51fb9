------------------------- MODULE NotificationsProofs -------------------------
(***************************************************************************)
(* Theorems about Notifications, for any number of people, workers, hours, *)
(* requests and crashes; about SearchIndex, for any things, processes,     *)
(* versions, tries and outages; and about Mailing, for any receivers,      *)
(* texts, workers, intervals, forms and mishaps.                           *)
(***************************************************************************)
EXTENDS Notifications, Mailing, SearchIndex, FiniteSetTheorems, TLAPS

-----------------------------------------------------------------------------
(***************************************************************************)
(* Types.                                                                  *)
(***************************************************************************)

LEMMA NoPostType == NoPost \in Post
BY ParamAssumption DEF NoPost, Post, Times, Never, Classes

LEMMA MemoType ==
  ASSUME NEW kind \in Kinds \cup {"none", "add", "flag", "task", "hourly", "digest"},
         NEW by \in Users, NEW copy \in Post
  PROVE  Memo(kind, by, copy) \in Memory /\ NoMemory \in Memory
BY NoPostType, ParamAssumption DEF Memo, Memory, NoMemory

\* What a worker has in memory at which statement.
Flow(w) ==
  /\ mem[w].verb # "none" => mem[w].kind = "task" /\ w \in TaskWorkers
  /\ mem[w].kind = "task" => /\ mem[w].verb # "none"
                             /\ pc[w] \in {"cleanup", "store", "mention", "notify"}
  /\ pc[w] = "notify" => mem[w].kind = "task"
  /\ pc[w] = "idle" => mem[w] = NoMemory
  /\ pc[w] \in {"oncreate", "cleanup", "store", "count"} => Exists(mem[w].copy)

LEMMA LaterType ==
  ASSUME NEW a \in 0..Horizon, NEW b \in Times
  PROVE  Later(a, b) \in 0..Horizon
BY ParamAssumption DEF Later, Times, Never

\* The save of a copy is typed whatever its caller does next.
LEMMA SavedType ==
  ASSUME TypeOK, NEW w \in Workers, Saved(w)
  PROVE  pc' \in [Workers -> Labels] /\ mem' \in [Workers -> Memory]
<1>1. NoMemory \in Memory BY NoPostType, ParamAssumption DEF NoMemory, Memory
<1>2. CASE mem[w].kind \in DOMAIN AfterSave
  BY <1>2 DEF AfterSave, Labels, Saved, Goto, TypeOK, Memory
<1>3. CASE mem[w].kind \notin DOMAIN AfterSave BY <1>1, <1>3 DEF Saved, Done, Goto, TypeOK, Labels
<1> QED BY <1>2, <1>3

LEMMA SubmitType ==
  ASSUME TypeOK, NEW verb \in Verbs, NEW by \in Users, Submit(verb, by)
  PROVE  queue' \in [Task -> Nat]
<1> DEFINE t == [verb |-> verb, by |-> by]
<1>1. t \in Task BY DEF Task
<1>2. queue' = [queue EXCEPT ![t] = queue[t] + 1] BY DEF Submit
<1>3. queue \in [Task -> Nat] BY DEF TypeOK
<1> HIDE DEF t
<1> QED BY <1>1, <1>2, <1>3

THEOREM TypeInit == Init => TypeOK
BY NoPostType, ParamAssumption DEF NoMemory, Memory, Init, Labels, TypeOK

\* The variables an action of worker w changes, and what it leaves alone.
LEMMA BeginType ==
  ASSUME TypeOK, NEW w \in Workers, NEW label \in Labels, NEW m \in Memory,
         Begin(w, label, m)
  PROVE  pc' \in [Workers -> Labels] /\ mem' \in [Workers -> Memory]
BY DEF Begin, Goto, TypeOK

LEMMA GotoType ==
  ASSUME TypeOK, NEW w \in Workers, NEW label \in Labels, Goto(w, label)
  PROVE  pc' \in [Workers -> Labels]
BY DEF Goto, TypeOK

LEMMA DoneType ==
  ASSUME TypeOK, NEW w \in Workers, Done(w)
  PROVE  pc' \in [Workers -> Labels] /\ mem' \in [Workers -> Memory]
<1>1. NoMemory \in Memory BY NoPostType, ParamAssumption DEF NoMemory, Memory
<1> QED BY <1>1 DEF Done, Goto, TypeOK, Labels

LEMMA ArriveType ==
  ASSUME TypeOK, NEW w \in WebWorkers, Arrive(w)
  PROVE  TypeOK'
<1> w \in Workers BY DEF Workers
<1>1. CASE Add(w)
  <2>1. PICK s \in Shapes, at \in Times, a \in Audiences, m \in Mentions :
          /\ post' = [class |-> s.class, grouped |-> s.grouped, at |-> at,
                      access |-> a, mentions |-> m, last |-> Later(clock, at),
                      flag |-> FALSE]
          /\ Begin(w, "oncreate", Memo("add", Owner, post'))
    BY <1>1 DEF Add
  <2>2. Later(clock, at) \in 0..Horizon BY LaterType DEF TypeOK
  <2>3. post' \in Post BY <2>1, <2>2, ParamAssumption DEF Post
  <2>4. Memo("add", Owner, post') \in Memory BY <2>3, MemoType, ParamAssumption
  <2>5. pc' \in [Workers -> Labels] /\ mem' \in [Workers -> Memory] BY <2>1, <2>4, BeginType DEF Labels
  <2> QED BY <1>1, <2>3, <2>5 DEF Add, TypeOK
<1>2. CASE Edit(w)
  <2>1. PICK at \in Times, a \in Audiences, m \in Mentions :
          Begin(w, "cleanup", Memo("edit", Owner,
            [post EXCEPT !.at = at, !.access = a, !.mentions = m,
                         !.last = Later(@, at)]))
    BY <1>2 DEF Edit
  <2>2. Later(post.last, at) \in 0..Horizon BY LaterType DEF TypeOK, Post
  <2>3. [post EXCEPT !.at = at, !.access = a, !.mentions = m,
                     !.last = Later(@, at)] \in Post
    BY <2>2, ParamAssumption DEF TypeOK, Post
  <2>4. "edit" \in Kinds BY <1>2 DEF Edit
  <2>5. pc' \in [Workers -> Labels] /\ mem' \in [Workers -> Memory]
    BY <2>1, <2>3, <2>4, MemoType, BeginType, ParamAssumption DEF Labels
  <2> QED BY <1>2, <2>5, ParamAssumption DEF Edit, Request, TypeOK
<1>3. CASE Comment(w)
  <2>1. PICK u \in Users :
          \/ Begin(w, "cleanup", Memo("comment", u, [post EXCEPT !.last = clock]))
          \/ Begin(w, "follow", Memo("comment", u, post))
    BY <1>3 DEF Comment
  <2>2. [post EXCEPT !.last = clock] \in Post /\ post \in Post BY DEF TypeOK, Post
  <2>3. "comment" \in Kinds BY <1>3 DEF Comment
  <2>4. /\ Memo("comment", u, [post EXCEPT !.last = clock]) \in Memory
        /\ Memo("comment", u, post) \in Memory
    BY <2>2, <2>3, MemoType
  <2>5. pc' \in [Workers -> Labels] /\ mem' \in [Workers -> Memory] BY <2>1, <2>4, BeginType DEF Labels
  <2> QED BY <1>3, <2>5, ParamAssumption DEF Comment, Request, TypeOK
<1>4. CASE Follow(w)
  BY <1>4, ParamAssumption DEF Follow, TypeOK, Post, Request
<1>5. CASE LoadForDelete(w)
  <2>1. "delete" \in Kinds /\ post \in Post BY <1>5 DEF LoadForDelete, TypeOK
  <2>2. pc' \in [Workers -> Labels] /\ mem' \in [Workers -> Memory]
    BY <1>5, <2>1, MemoType, BeginType, ParamAssumption DEF LoadForDelete, Labels
  <2> QED BY <1>5, <2>2, ParamAssumption DEF LoadForDelete, Request, TypeOK
<1> QED BY <1>1, <1>2, <1>3, <1>4, <1>5 DEF Arrive

\* A task of the broker, taken by any worker.
LEMMA PickType ==
  ASSUME TypeOK, NEW w \in TaskWorkers, Pick(w)
  PROVE  TypeOK'
<1> w \in Workers BY DEF Workers
<1>1. PICK t \in Task : Take(w, t) \/ TakeForNothing(w, t) BY DEF Pick
<1>2. queue' \in [Task -> Nat] BY <1>1 DEF Take, TakeForNothing, Dequeue, TypeOK
<1>3. CASE Take(w, t)
  <2> DEFINE flags == t.verb = "created" /\ ~post.flag
             copy  == IF flags THEN [post EXCEPT !.flag = TRUE] ELSE post
             label == IF flags THEN "cleanup" ELSE "notify"
             m     == [Memo("task", t.by, copy) EXCEPT !.verb = t.verb,
                                                       !.todo = Recipients(t, post)]
  <2>1. post \in Post /\ t.verb \in Verbs /\ t.by \in Users BY DEF TypeOK, Task
  <2>2. copy \in Post /\ label \in Labels BY <2>1 DEF Post, Labels
  <2>3. Recipients(t, post) \subseteq Users BY <2>1 DEF Recipients, Post, Verbs, TypeOK
  <2>4. m \in Memory
    <3> HIDE DEF copy
    <3>1. Memo("task", t.by, copy) \in Memory BY <2>1, <2>2, MemoType
    <3> QED BY <2>1, <2>3, <3>1 DEF Memory
  <2>5. Begin(w, label, m) BY <1>3 DEF Take
  <2>6. pc' \in [Workers -> Labels] /\ mem' \in [Workers -> Memory]
    <3> HIDE DEF m, label
    <3> QED BY <2>2, <2>4, <2>5, BeginType
  <2> QED BY <1>2, <1>3, <2>6 DEF Take, TypeOK
<1>4. CASE TakeForNothing(w, t) BY <1>2, <1>4 DEF TakeForNothing, TypeOK
<1> QED BY <1>1, <1>3, <1>4

\* The start of an hourly job.
LEMMA JobType ==
  ASSUME TypeOK, NEW w \in TaskWorkers, Hourly(w) \/ Collect(w)
  PROVE  TypeOK'
<1> w \in Workers BY DEF Workers
<1>1. CASE Hourly(w)
  <2>1. post \in Post /\ [post EXCEPT !.flag = TRUE] \in Post BY DEF TypeOK, Post
  <2>2. /\ Memo("hourly", Owner, post) \in Memory
        /\ Memo("hourly", Owner, [post EXCEPT !.flag = TRUE]) \in Memory
    BY <2>1, MemoType, ParamAssumption
  <2>3. pc' \in [Workers -> Labels] /\ mem' \in [Workers -> Memory] BY <1>1, <2>2, BeginType DEF Hourly, Labels
  <2> QED BY <1>1, <2>3 DEF Hourly, TypeOK
<1>2. CASE Collect(w)
  <2>1. PICK u \in Digested :
          Begin(w, "digest", [Memo("digest", u, NoPost) EXCEPT !.made = Ids(Batch(u))])
    BY <1>2 DEF Collect
  <2>2. Ids(Batch(u)) \subseteq Nat BY DEF Ids, Batch, TypeOK, Note
  <2>3. Memo("digest", u, NoPost) \in Memory BY MemoType, NoPostType, ParamAssumption
  <2>4. [Memo("digest", u, NoPost) EXCEPT !.made = Ids(Batch(u))] \in Memory BY <2>2, <2>3 DEF Memory
  <2>5. pc' \in [Workers -> Labels] /\ mem' \in [Workers -> Memory] BY <2>1, <2>4, BeginType DEF Labels
  <2> QED BY <1>2, <2>5 DEF Collect, TypeOK
<1> QED BY <1>1, <1>2

\* A notification row stays one when its mails are counted or it is marked.
LEMMA RowType ==
  ASSUME NEW n \in Note
  PROVE  /\ [n EXCEPT !.digest = @ + 1] \in Note
         /\ [n EXCEPT !.direct = @ + 1] \in Note
         /\ [n EXCEPT !.emailed = TRUE] \in Note
<1>1. n.digest + 1 \in Nat /\ n.direct + 1 \in Nat BY DEF Note
<1>2. [n EXCEPT !.digest = @ + 1] \in Note BY <1>1 DEF Note
<1>3. [n EXCEPT !.direct = @ + 1] \in Note BY <1>1 DEF Note
<1>4. [n EXCEPT !.emailed = TRUE] \in Note BY DEF Note
<1> QED BY <1>2, <1>3, <1>4

\* A process goes on.
LEMMA ProceedType ==
  ASSUME TypeOK, NEW w \in Workers, Flow(w), Proceed(w)
  PROVE  TypeOK'
<1>0. mem[w] \in Memory /\ mem[w].copy \in Post /\ mem[w].by \in Users BY DEF TypeOK, Memory
<1>1. CASE OnCreate(w)
  <2>1. queue' \in [Task -> Nat] BY <1>1, SubmitType, ParamAssumption DEF OnCreate, TypeOK, Verbs
  <2>2. CASE Announced(mem[w].copy) BY <1>1, <2>1, <2>2, GotoType DEF OnCreate, TypeOK, Labels
  <2>3. CASE ~Announced(mem[w].copy)
    <3>1. [mem[w] EXCEPT !.copy.flag = TRUE, !.kind = "flag"] \in Memory BY <1>0 DEF Memory, Post
    <3>2. mem' = [mem EXCEPT ![w] = [mem[w] EXCEPT !.copy.flag = TRUE, !.kind = "flag"]]
      BY <1>1, <2>3 DEF OnCreate, TypeOK
    <3>3. mem' \in [Workers -> Memory] BY <3>1, <3>2 DEF TypeOK
    <3> QED BY <1>1, <2>1, <2>3, <3>3, GotoType DEF OnCreate, TypeOK, Labels
  <2> QED BY <2>2, <2>3
<1>2. CASE Cleanup(w)
  BY <1>2, GotoType DEF Cleanup, TypeOK, Labels
<1>3. CASE Store(w)
  BY <1>3, SavedType, GotoType, <1>0 DEF Store, TypeOK, Labels
<1>4. CASE Mention(w)
  BY <1>4, SubmitType, ParamAssumption, SavedType DEF Mention, TypeOK, Verbs
<1>5. CASE AddFollow(w)
  BY <1>0, <1>5, DoneType, GotoType DEF AddFollow, TypeOK, Labels
<1>6. CASE Tell(w)
  BY <1>0, <1>6, SubmitType, DoneType DEF Tell, Verbs, TypeOK
<1>7. CASE Delete(w)
  BY NoPostType, <1>7, DoneType DEF Post, Delete, TypeOK
<1>8. CASE Notify(w)
  <2>1. PICK u \in mem[w].todo :
          /\ serial' = serial + 1
          /\ notes'  = notes \cup {[id |-> serial', to |-> u, verb |-> mem[w].verb,
                                    at |-> clock, emailed |-> FALSE,
                                    direct |-> 0, digest |-> 0]}
          /\ mem' = [mem EXCEPT ![w].todo = @ \ {u}, ![w].made = @ \cup {serial'}]
    BY <1>8 DEF Notify
  <2>2. serial' \in Nat BY <2>1 DEF TypeOK
  <2>3. mem[w].verb \in Verbs BY <1>0, <1>8 DEF Notify, Flow, Memory
  <2>4. u \in Users BY <1>0, <2>1 DEF Memory
  <2>5. [id |-> serial', to |-> u, verb |-> mem[w].verb, at |-> clock,
         emailed |-> FALSE, direct |-> 0, digest |-> 0] \in Note
    BY <2>2, <2>3, <2>4 DEF TypeOK, Note
  <2>9. notes' \subseteq Note BY <2>1, <2>5 DEF TypeOK
  <2>6. [mem[w] EXCEPT !.todo = @ \ {u}, !.made = @ \cup {serial'}] \in Memory BY <1>0, <2>2 DEF Memory
  <2>7. mem' = [mem EXCEPT ![w] =
                  [mem[w] EXCEPT !.todo = @ \ {u}, !.made = @ \cup {serial'}]]
    BY <2>1 DEF TypeOK
  <2>8. mem' \in [Workers -> Memory] BY <2>6, <2>7 DEF TypeOK
  <2> QED BY <1>8, <2>2, <2>9, <2>8 DEF Notify, TypeOK
<1>9. CASE DirectMail(w)
  BY <1>9, RowType, DoneType DEF DirectMail, TypeOK
<1>10. CASE Count(w)
  <2>1. [mem[w] EXCEPT !.copy.flag = TRUE] \in Memory BY <1>0 DEF Memory, Post
  <2>2. mem' = [mem EXCEPT ![w] = [mem[w] EXCEPT !.copy.flag = TRUE]] \/ mem' = mem BY <1>10 DEF Count, TypeOK
  <2>3. mem' \in [Workers -> Memory] BY <2>1, <2>2 DEF TypeOK
  <2>4. pc' \in [Workers -> Labels] BY <1>10, GotoType DEF Count, Labels
  <2> QED BY <1>10, <2>3, <2>4 DEF Count, TypeOK
<1>11. CASE SubmitCreated(w)
  BY <1>11, SubmitType, ParamAssumption, DoneType DEF SubmitCreated, Verbs, TypeOK
<1>12. CASE Digest(w)
  BY <1>12, RowType, GotoType DEF Digest, TypeOK, Labels
<1>13. CASE Mark(w)
  BY <1>13, RowType, DoneType DEF Mark, TypeOK
<1> QED BY <1>1, <1>2, <1>3, <1>4, <1>5, <1>6, <1>7, <1>8, <1>9, <1>10, <1>11, <1>12,
     <1>13 DEF Proceed

LEMMA TypeStep ==
  ASSUME TypeOK, \A w \in Workers : Flow(w), [Next]_vars
  PROVE  TypeOK'
<1>1. CASE \E w \in WebWorkers : Arrive(w) BY <1>1, ArriveType
<1>2. CASE \E w \in TaskWorkers : Pick(w) \/ Hourly(w) \/ Collect(w) BY <1>2, PickType, JobType
<1>3. CASE \E w \in Workers : Proceed(w) BY <1>3, ProceedType
<1>4. CASE \E w \in Workers : Die(w)
  BY <1>4, ParamAssumption, DoneType DEF Die, TypeOK
<1>5. CASE Tick
  BY <1>5, ParamAssumption DEF Tick, TypeOK
<1>6. CASE UNCHANGED vars BY <1>6 DEF vars, TypeOK
<1> QED BY <1>1, <1>2, <1>3, <1>4, <1>5, <1>6 DEF Next

-----------------------------------------------------------------------------
(***************************************************************************)
(* Memory and statement of every worker agree.                             *)
(***************************************************************************)

Flows == \A w \in Workers : Flow(w)

LEMMA FlowFrame ==
  ASSUME Flows, NEW w \in Workers, Flow(w)',
         \A v \in Workers \ {w} : pc'[v] = pc[v] /\ mem'[v] = mem[v]
  PROVE  Flows'
BY DEF Flows, Flow, Exists

LEMMA FlowDone ==
  ASSUME TypeOK, Flows, NEW w \in Workers, Done(w)
  PROVE  Flows'
BY FlowFrame DEF Done, Goto, TypeOK, Flow, NoMemory

LEMMA FlowGoto ==
  ASSUME TypeOK, Flows, NEW w \in Workers, NEW label \in Labels,
         Goto(w, label), UNCHANGED mem,
         label \notin {"idle", "notify", "oncreate", "count"}, pc[w] # "idle",
         mem[w].kind = "task" => label \in {"store", "mention"},
         label \in {"cleanup", "store"} => Exists(mem[w].copy)
  PROVE  Flows'
BY FlowFrame DEF Goto, TypeOK, Flow, Flows, Exists

LEMMA FlowBegin ==
  ASSUME TypeOK, Flows, NEW w \in Workers, NEW label \in Labels, NEW m,
         Begin(w, label, m), label # "idle",
         m.verb # "none" => m.kind = "task" /\ w \in TaskWorkers,
         m.kind = "task" => m.verb # "none" /\ label \in {"cleanup", "notify"},
         label = "notify" => m.kind = "task",
         label \in {"oncreate", "cleanup", "store", "count"} => Exists(m.copy)
  PROVE  Flows'
BY FlowFrame DEF Begin, Goto, TypeOK, Flow, Exists

LEMMA FlowSaved ==
  ASSUME TypeOK, Flows, NEW w \in Workers, Saved(w), pc[w] # "idle"
  PROVE  Flows'
<1>1. CASE mem[w].kind \in DOMAIN AfterSave
  <2>1. \A v \in Workers \ {w} : pc'[v] = pc[v] /\ mem'[v] = mem[v] BY <1>1 DEF Saved, Goto, TypeOK
  <2>2. pc'[w] = AfterSave[mem[w].kind] BY <1>1 DEF Saved, Goto, TypeOK
  <2>3. mem[w] \in Memory BY DEF TypeOK
  <2>4. CASE mem[w].kind = "flag"
    <3>1. mem'[w] = [mem[w] EXCEPT !.kind = "add"] /\ pc'[w] = "mention"
      BY <1>1, <2>2, <2>4 DEF Saved, TypeOK, AfterSave
    <3>2. mem'[w].kind = "add" /\ mem'[w].verb = mem[w].verb BY <2>3, <3>1 DEF Memory
    <3>3. Flow(w)' BY <2>4, <3>1, <3>2 DEF Flow, Flows
    <3> QED BY <2>1, <3>3, FlowFrame
  <2>5. CASE mem[w].kind # "flag"
    <3>1. mem'[w] = mem[w] BY <1>1, <2>5 DEF Saved
    <3>2. \/ mem[w].kind = "task" /\ pc'[w] = "notify"
          \/ mem[w].kind \in {"add", "comment"} /\ pc'[w] = "follow"
      BY <1>1, <2>2, <2>5 DEF AfterSave
    <3>3. Flow(w)' BY <3>1, <3>2 DEF Flow, Flows
    <3> QED BY <2>1, <3>3, FlowFrame
  <2> QED BY <2>4, <2>5
<1>2. CASE mem[w].kind \notin DOMAIN AfterSave BY <1>2, FlowDone DEF Saved
<1> QED BY <1>1, <1>2

LEMMA FlowStart ==
  ASSUME TypeOK, Flows, NEW w \in Workers,
         \/ w \in WebWorkers /\ Arrive(w)
         \/ w \in TaskWorkers /\ (Pick(w) \/ Hourly(w) \/ Collect(w))
  PROVE  Flows'
<1>1. CASE Add(w)
  <2>1. PICK s \in Shapes, at \in Times, a \in Audiences, m \in Mentions :
          /\ post' = [class |-> s.class, grouped |-> s.grouped, at |-> at,
                      access |-> a, mentions |-> m, last |-> Later(clock, at),
                      flag |-> FALSE]
          /\ Begin(w, "oncreate", Memo("add", Owner, post'))
    BY <1>1 DEF Add
  <2>2. Exists(post') BY <2>1, ParamAssumption DEF Exists
  <2>3. /\ Memo("add", Owner, post').verb = "none"
        /\ Memo("add", Owner, post').kind = "add"
        /\ Memo("add", Owner, post').copy = post'
    BY DEF Memo, NoMemory
  <2> QED BY <2>1, <2>2, <2>3, FlowBegin DEF Labels
<1>2. CASE Edit(w)
  <2>1. PICK at \in Times, a \in Audiences, m \in Mentions :
          Begin(w, "cleanup", Memo("edit", Owner,
            [post EXCEPT !.at = at, !.access = a, !.mentions = m,
                         !.last = Later(@, at)]))
    BY <1>2 DEF Edit
  <2> DEFINE copy == [post EXCEPT !.at = at, !.access = a, !.mentions = m,
                                  !.last = Later(@, at)]
  <2>2. Exists(copy) BY <1>2 DEF Edit, Exists, TypeOK, Post
  <2>3. /\ Memo("edit", Owner, copy).verb = "none"
        /\ Memo("edit", Owner, copy).kind = "edit"
        /\ Memo("edit", Owner, copy).copy = copy
    BY DEF Memo, NoMemory
  <2>4. Begin(w, "cleanup", Memo("edit", Owner, copy)) BY <2>1
  <2> HIDE DEF copy
  <2> QED BY <2>2, <2>3, <2>4, FlowBegin DEF Labels
<1>3. CASE Comment(w)
  <2>1. PICK u \in Users :
          \/ Begin(w, "cleanup", Memo("comment", u, [post EXCEPT !.last = clock]))
          \/ Begin(w, "follow", Memo("comment", u, post))
    BY <1>3 DEF Comment
  <2> DEFINE copy == [post EXCEPT !.last = clock]
  <2>2. Exists(copy) BY <1>3 DEF Comment, Exists, TypeOK, Post
  <2>3. \A c : /\ Memo("comment", u, c).verb = "none"
               /\ Memo("comment", u, c).kind = "comment"
               /\ Memo("comment", u, c).copy = c
    BY DEF Memo, NoMemory
  <2>4. \/ Begin(w, "cleanup", Memo("comment", u, copy))
        \/ Begin(w, "follow", Memo("comment", u, post))
    BY <2>1
  <2> HIDE DEF copy
  <2>5. CASE Begin(w, "cleanup", Memo("comment", u, copy)) BY <2>2, <2>3, <2>5, FlowBegin DEF Labels
  <2>6. CASE Begin(w, "follow", Memo("comment", u, post)) BY <2>3, <2>6, FlowBegin DEF Labels
  <2> QED BY <2>4, <2>5, <2>6
<1>4. CASE Follow(w) BY <1>4 DEF Follow, Flows, Flow
<1>5. CASE LoadForDelete(w)
  BY <1>5, FlowBegin DEF Memo, NoMemory, LoadForDelete, Labels
<1>6. CASE w \in TaskWorkers /\ Pick(w)
  <2>1. PICK t \in Task : Take(w, t) \/ TakeForNothing(w, t) BY <1>6 DEF Pick
  <2>2. CASE Take(w, t)
    <3> DEFINE flags == t.verb = "created" /\ ~post.flag
               copy  == IF flags THEN [post EXCEPT !.flag = TRUE] ELSE post
               label == IF flags THEN "cleanup" ELSE "notify"
               m     == [Memo("task", t.by, copy) EXCEPT !.verb = t.verb,
                                                         !.todo = Recipients(t, post)]
    <3>1. Begin(w, label, m) BY <2>2 DEF Take
    <3>2. Exists(copy) BY <2>2 DEF Take, Exists, TypeOK, Post
    <3>3. m.verb = t.verb /\ m.kind = "task" /\ m.copy = copy BY DEF Memo, NoMemory
    <3>4. t.verb # "none" BY DEF Task, Verbs
    <3>5. label \in Labels /\ label \in {"cleanup", "notify"} BY DEF Labels
    <3> HIDE DEF m, label, copy
    <3> QED BY <1>6, <3>1, <3>2, <3>3, <3>4, <3>5, FlowBegin
  <2>3. CASE TakeForNothing(w, t) BY <2>3 DEF TakeForNothing, Flows, Flow
  <2> QED BY <2>1, <2>2, <2>3
<1>7. CASE Hourly(w)
  <2> DEFINE copy == [post EXCEPT !.flag = TRUE]
  <2>1. \/ Begin(w, "count", Memo("hourly", Owner, post))
        \/ Begin(w, "cleanup", Memo("hourly", Owner, copy))
    BY <1>7 DEF Hourly
  <2>2. Exists(post) /\ Exists(copy) BY <1>7 DEF Hourly, Due, Exists, TypeOK, Post
  <2>3. \A c : /\ Memo("hourly", Owner, c).verb = "none"
               /\ Memo("hourly", Owner, c).kind = "hourly"
               /\ Memo("hourly", Owner, c).copy = c
    BY DEF Memo, NoMemory
  <2> HIDE DEF copy
  <2>4. CASE Begin(w, "count", Memo("hourly", Owner, post)) BY <2>2, <2>3, <2>4, FlowBegin DEF Labels
  <2>5. CASE Begin(w, "cleanup", Memo("hourly", Owner, copy)) BY <2>2, <2>3, <2>5, FlowBegin DEF Labels
  <2> QED BY <2>1, <2>4, <2>5
<1>8. CASE Collect(w)
  <2>1. PICK u \in Digested :
          Begin(w, "digest", [Memo("digest", u, NoPost) EXCEPT !.made = Ids(Batch(u))])
    BY <1>8 DEF Collect
  <2> DEFINE m == [Memo("digest", u, NoPost) EXCEPT !.made = Ids(Batch(u))]
  <2>2. m.verb = "none" /\ m.kind = "digest" BY DEF Memo, NoMemory
  <2>3. Begin(w, "digest", m) BY <2>1
  <2> HIDE DEF m
  <2> QED BY <2>2, <2>3, FlowBegin DEF Labels
<1> QED BY <1>1, <1>2, <1>3, <1>4, <1>5, <1>6, <1>7, <1>8 DEF Arrive

\* A record of memory changes in fields the flow does not look at.
LEMMA FlowKeep ==
  ASSUME Flows, NEW w \in Workers,
         pc'[w] = pc[w], mem'[w].verb = mem[w].verb, mem'[w].kind = mem[w].kind,
         pc[w] # "idle", mem'[w].copy = mem[w].copy,
         \A v \in Workers \ {w} : pc'[v] = pc[v] /\ mem'[v] = mem[v]
  PROVE  Flows'
<1>1. Flow(w)' BY DEF Flow, Flows, Exists
<1> QED BY <1>1, FlowFrame

LEMMA FlowProceed ==
  ASSUME TypeOK, Flows, NEW w \in Workers, Proceed(w)
  PROVE  Flows'
<1>0. Flow(w) /\ mem[w] \in Memory /\ mem[w].copy \in Post BY DEF TypeOK, Memory, Flows
<1>1. CASE OnCreate(w)
  <2>1. mem[w].kind # "task" /\ mem[w].verb = "none" /\ Exists(mem[w].copy) BY <1>0, <1>1 DEF OnCreate, Flow
  <2>2. CASE Announced(mem[w].copy) BY <1>1, <2>1, <2>2, FlowGoto DEF OnCreate, Labels
  <2>3. CASE ~Announced(mem[w].copy)
    <3>1. mem' = [mem EXCEPT ![w] = [mem[w] EXCEPT !.copy.flag = TRUE, !.kind = "flag"]]
      BY <1>1, <2>3 DEF OnCreate, TypeOK
    <3>2. /\ mem'[w].kind = "flag" /\ mem'[w].verb = "none"
          /\ mem'[w].copy.class = mem[w].copy.class
      BY <1>0, <2>1, <3>1 DEF TypeOK, Memory, Post
    <3>3. pc'[w] = "cleanup" BY <1>1, <2>3 DEF OnCreate, Goto, TypeOK
    <3>4. \A v \in Workers \ {w} : pc'[v] = pc[v] /\ mem'[v] = mem[v] BY <1>1, <2>3, <3>1 DEF OnCreate, Goto, TypeOK
    <3>5. Flow(w)' BY <2>1, <3>2, <3>3 DEF Flow, Exists
    <3> QED BY <3>4, <3>5, FlowFrame
  <2> QED BY <2>2, <2>3
<1>2. CASE Cleanup(w) BY <1>0, <1>2, FlowGoto DEF Cleanup, Flow, Labels
<1>3. CASE Store(w) BY <1>0, <1>3, FlowGoto, FlowSaved DEF Store, Labels
<1>4. CASE Mention(w) BY <1>4, FlowSaved DEF Mention
<1>5. CASE AddFollow(w) BY <1>0, <1>5, FlowGoto, FlowDone DEF AddFollow, Flow, Labels
<1>6. CASE Notify(w)
  BY <1>6, <1>0, FlowKeep DEF Notify, TypeOK, Memory
<1>7. CASE Count(w)
  <2>1. mem[w].kind # "task" /\ mem[w].verb = "none" /\ Exists(mem[w].copy) BY <1>0, <1>7 DEF Count, Flow
  <2>2. CASE notes = {} BY <1>7, <2>1, <2>2, FlowGoto DEF Count, Labels
  <2>3. CASE notes # {}
    <3>1. mem' = [mem EXCEPT ![w] = [mem[w] EXCEPT !.copy.flag = TRUE]] BY <1>7, <2>3 DEF Count, TypeOK
    <3>2. /\ mem'[w].kind = mem[w].kind /\ mem'[w].verb = "none"
          /\ mem'[w].copy.class = mem[w].copy.class
      BY <1>0, <2>1, <3>1 DEF TypeOK, Memory, Post
    <3>3. pc'[w] = "cleanup" BY <1>7, <2>3 DEF Count, Goto, TypeOK
    <3>4. \A v \in Workers \ {w} : pc'[v] = pc[v] /\ mem'[v] = mem[v] BY <1>7, <2>3, <3>1 DEF Count, Goto, TypeOK
    <3>5. Flow(w)' BY <2>1, <3>2, <3>3 DEF Flow, Exists
    <3> QED BY <3>4, <3>5, FlowFrame
  <2> QED BY <2>2, <2>3
<1>8. CASE Digest(w)
  BY <1>8, <1>0, FlowFrame DEF Digest, Goto, TypeOK, Flow
<1>9. CASE Tell(w) \/ Delete(w) \/ DirectMail(w) \/ SubmitCreated(w) \/ Mark(w)
  BY <1>9, FlowDone DEF Tell, Delete, DirectMail, SubmitCreated, Mark
<1> QED BY <1>1, <1>2, <1>3, <1>4, <1>5, <1>6, <1>7, <1>8, <1>9 DEF Proceed

LEMMA FlowInit == Init => Flows
BY DEF Init, Flows, Flow, NoMemory

LEMMA FlowStep ==
  ASSUME TypeOK, Flows, [Next]_vars
  PROVE  Flows'
<1>1. CASE \E w \in WebWorkers : Arrive(w) BY <1>1, FlowStart DEF Workers
<1>2. CASE \E w \in TaskWorkers : Pick(w) \/ Hourly(w) \/ Collect(w) BY <1>2, FlowStart DEF Workers
<1>3. CASE \E w \in Workers : Proceed(w) BY <1>3, FlowProceed
<1>4. CASE \E w \in Workers : Die(w) BY <1>4, FlowDone DEF Die
<1>5. CASE Tick BY <1>5 DEF Tick, Flows, Flow
<1>6. CASE UNCHANGED vars BY <1>6 DEF vars, Flows, Flow
<1> QED BY <1>1, <1>2, <1>3, <1>4, <1>5, <1>6 DEF Next

\* Every variable keeps its type.  Notify is typed only because a worker that
\* notifies has a task, which is what Flows says.
THEOREM TypeCorrect == Spec => []TypeOK
<1>1. Init => TypeOK /\ Flows BY TypeInit, FlowInit
<1>2. TypeOK /\ Flows /\ [Next]_vars => TypeOK' /\ Flows' BY TypeStep, FlowStep DEF Flows
<1> QED BY <1>1, <1>2, PTL DEF Spec

-----------------------------------------------------------------------------
(***************************************************************************)
(* What a step does to the rows, to the memory of a worker and to the      *)
(* "created" tasks.                                                        *)
(***************************************************************************)

\* Every two rows come from two rows to the same people, with the same verbs.
Traced ==
  \A x, y \in notes' : \E m, n \in notes :
    /\ m.to = x.to /\ m.verb = x.verb
    /\ n.to = y.to /\ n.verb = y.verb
    /\ m = n => x = y

LEMMA ProceedTraced ==
  ASSUME TypeOK, NEW w \in Workers, Proceed(w), ~Notify(w)
  PROVE  Traced
<1>1. ASSUME notes' \subseteq notes
      PROVE  Traced
  BY <1>1 DEF Traced
<1>2. CASE Cleanup(w) \/ Delete(w)
  <2>1. notes' \subseteq notes BY <1>2 DEF Cleanup, Delete
  <2> QED BY <1>1, <2>1
<1>3. CASE DirectMail(w)
  <2> SUFFICES ASSUME NEW x \in notes', NEW y \in notes'
               PROVE  \E m, n \in notes : /\ m.to = x.to /\ m.verb = x.verb
                                          /\ n.to = y.to /\ n.verb = y.verb
                                          /\ m = n => x = y
    BY DEF Traced
  <2> DEFINE F(n) == IF n.id \in mem[w].made /\ n.to \in Direct
                       THEN [n EXCEPT !.direct = @ + 1] ELSE n
  <2>1. PICK m \in notes : x = F(m) BY <1>3 DEF DirectMail
  <2>2. PICK n \in notes : y = F(n) BY <1>3 DEF DirectMail
  <2>3. \A r \in Note : F(r).to = r.to /\ F(r).verb = r.verb BY DEF Note
  <2>4. m \in Note /\ n \in Note /\ (m = n => x = y) BY <2>1, <2>2 DEF TypeOK
  <2> HIDE DEF F
  <2> QED BY <2>1, <2>2, <2>3, <2>4
<1>4. CASE Digest(w)
  <2> SUFFICES ASSUME NEW x \in notes', NEW y \in notes'
               PROVE  \E m, n \in notes : /\ m.to = x.to /\ m.verb = x.verb
                                          /\ n.to = y.to /\ n.verb = y.verb
                                          /\ m = n => x = y
    BY DEF Traced
  <2> DEFINE F(n) == IF n.id \in mem[w].made THEN [n EXCEPT !.digest = @ + 1] ELSE n
  <2>1. PICK m \in notes : x = F(m) BY <1>4 DEF Digest
  <2>2. PICK n \in notes : y = F(n) BY <1>4 DEF Digest
  <2>3. \A r \in Note : F(r).to = r.to /\ F(r).verb = r.verb BY DEF Note
  <2>4. m \in Note /\ n \in Note /\ (m = n => x = y) BY <2>1, <2>2 DEF TypeOK
  <2> HIDE DEF F
  <2> QED BY <2>1, <2>2, <2>3, <2>4
<1>5. CASE Mark(w)
  <2> SUFFICES ASSUME NEW x \in notes', NEW y \in notes'
               PROVE  \E m, n \in notes : /\ m.to = x.to /\ m.verb = x.verb
                                          /\ n.to = y.to /\ n.verb = y.verb
                                          /\ m = n => x = y
    BY DEF Traced
  <2> DEFINE F(n) == IF n \in Batch(mem[w].by) THEN [n EXCEPT !.emailed = TRUE] ELSE n
  <2>1. PICK m \in notes : x = F(m) BY <1>5 DEF Mark
  <2>2. PICK n \in notes : y = F(n) BY <1>5 DEF Mark
  <2>3. \A r \in Note : F(r).to = r.to /\ F(r).verb = r.verb BY DEF Note
  <2>4. m \in Note /\ n \in Note /\ (m = n => x = y) BY <2>1, <2>2 DEF TypeOK
  <2> HIDE DEF F
  <2> QED BY <2>1, <2>2, <2>3, <2>4
<1>6. CASE \/ OnCreate(w) \/ Store(w) \/ Mention(w) \/ AddFollow(w) \/ Tell(w)
           \/ Count(w) \/ SubmitCreated(w)
  <2>1. notes' = notes BY <1>6 DEF OnCreate, Store, Mention, AddFollow, Tell, Count, SubmitCreated
  <2> QED BY <1>1, <2>1
<1> QED BY <1>2, <1>3, <1>4, <1>5, <1>6 DEF Proceed

\* A step of one worker leaves the others what they have in memory.
LEMMA Local ==
  ASSUME TypeOK, NEW w \in Workers,
         Arrive(w) \/ Pick(w) \/ Hourly(w) \/ Collect(w) \/ Proceed(w) \/ Die(w)
  PROVE  \A v \in Workers \ {w} : pc'[v] = pc[v] /\ mem'[v] = mem[v]
<1>1. CASE Arrive(w) BY <1>1 DEF Arrive, Add, Edit, Comment, Follow, LoadForDelete, Begin, Goto, TypeOK
<1>2. CASE Pick(w)
  BY <1>2 DEF Pick, Take, TakeForNothing, Begin, Goto, TypeOK
<1>3. CASE Hourly(w) \/ Collect(w)
  BY <1>3 DEF Hourly, Collect, Begin, Goto, TypeOK
<1>4. CASE Die(w) BY <1>4 DEF Die, Done, Goto, TypeOK
<1>5. CASE OnCreate(w) \/ Cleanup(w) \/ Notify(w) \/ Count(w) \/ Digest(w)
  BY <1>5 DEF OnCreate, Cleanup, Notify, Count, Digest, Goto, TypeOK
<1>6. CASE \/ Tell(w) \/ Delete(w) \/ DirectMail(w) \/ SubmitCreated(w) \/ Mark(w)
  BY <1>6 DEF Tell, Delete, DirectMail, SubmitCreated, Mark, Done, Goto, TypeOK
<1>7. CASE Store(w) \/ Mention(w) \/ AddFollow(w) BY <1>7 DEF Store, Mention, AddFollow, Saved, Done, Goto, TypeOK
<1> QED BY <1>1, <1>2, <1>3, <1>4, <1>5, <1>6, <1>7 DEF Proceed

\* Only Take gives a worker a task, and only Notify takes people off its list.
LEMMA StartMem ==
  ASSUME TypeOK, Flows, NEW w \in Workers, Arrive(w) \/ Hourly(w) \/ Collect(w)
  PROVE  mem'[w].verb = "none"
<1>1. \A kind, by, copy : Memo(kind, by, copy).verb = "none" BY DEF Memo, NoMemory
<1>2. CASE Follow(w) BY <1>2 DEF Follow, Flows, Flow, NoMemory
<1>3. CASE Add(w) \/ Edit(w) \/ Comment(w) \/ LoadForDelete(w) \/ Hourly(w)
  <2>1. \E label, kind, by, copy : Begin(w, label, Memo(kind, by, copy))
    BY <1>3 DEF Add, Edit, Comment, LoadForDelete, Hourly
  <2> QED BY <1>1, <2>1 DEF Begin, TypeOK
<1>4. CASE Collect(w)
  BY <1>4 DEF Collect, Memo, NoMemory, Begin, TypeOK
<1> QED BY <1>2, <1>3, <1>4 DEF Arrive

LEMMA ProceedMem ==
  ASSUME TypeOK, NEW w \in Workers, Proceed(w) \/ Die(w), ~Notify(w)
  PROVE  \/ mem'[w].verb = "none"
         \/ mem'[w].verb = mem[w].verb /\ mem'[w].todo = mem[w].todo
<1>0. mem[w] \in Memory /\ NoMemory.verb = "none" BY DEF TypeOK, NoMemory
<1>1. CASE Done(w) BY <1>0, <1>1 DEF Done, TypeOK
<1>2. CASE mem' = mem BY <1>2
<1>3. CASE Saved(w)
  BY <1>3, <1>0, <1>1 DEF Saved, AfterSave, TypeOK, Memory
<1>4. CASE OnCreate(w)
  BY <1>4, <1>0 DEF OnCreate, TypeOK, Memory
<1>5. CASE Count(w)
  BY <1>5, <1>0 DEF Count, TypeOK, Memory
<1> QED
  BY <1>1, <1>2, <1>3, <1>4, <1>5 DEF Proceed, Die, Cleanup, Store, Mention, AddFollow,
     Tell, Delete, DirectMail, SubmitCreated, Digest, Mark

-----------------------------------------------------------------------------
(***************************************************************************)
(* Mentions, with one task worker.                                         *)
(***************************************************************************)

\* Whoever is still to be told of a mention has no notification of one.
Unspoken ==
  \A w \in Workers : mem[w].verb = "mentioned" =>
    \A n \in notes : n.verb = "mentioned" => n.to \notin mem[w].todo

LEMMA UnspokenInit == Init => Unspoken /\ MentionedOnce
BY DEF Init, Unspoken, MentionedOnce

\* A step that takes no task and notifies nobody.
LEMMA UnspokenCalm ==
  ASSUME Unspoken, MentionedOnce, Traced,
         \A w \in Workers : \/ mem'[w].verb = "none"
                            \/ mem'[w].verb = mem[w].verb /\ mem'[w].todo = mem[w].todo
  PROVE  Unspoken' /\ MentionedOnce'
BY DEF Unspoken, Traced, MentionedOnce

LEMMA UnspokenStep ==
  ASSUME TypeOK, Flows, Unspoken, MentionedOnce, [Next]_vars,
         \A v, w \in TaskWorkers : v = w
  PROVE  Unspoken' /\ MentionedOnce'
<1> DEFINE Kept(v) == \/ mem'[v].verb = "none"
                      \/ mem'[v].verb = mem[v].verb /\ mem'[v].todo = mem[v].todo
<1>0. ASSUME notes' = notes PROVE Traced BY <1>0 DEF Traced
<1>1. ASSUME NEW w \in WebWorkers, Arrive(w)
      PROVE  Unspoken' /\ MentionedOnce'
  <2>1. w \in Workers /\ notes' = notes BY <1>1 DEF Workers, Arrive, Add, Edit, Comment, Follow, LoadForDelete
  <2>2. \A v \in Workers : Kept(v) BY <1>1, <2>1, StartMem, Local
  <2> QED BY <1>0, <2>1, <2>2, UnspokenCalm
<1>2. ASSUME NEW w \in TaskWorkers, Hourly(w) \/ Collect(w)
      PROVE  Unspoken' /\ MentionedOnce'
  <2>1. w \in Workers /\ notes' = notes BY <1>2 DEF Workers, Hourly, Collect
  <2>2. \A v \in Workers : Kept(v) BY <1>2, <2>1, StartMem, Local
  <2> QED BY <1>0, <2>1, <2>2, UnspokenCalm
<1>3. ASSUME NEW w \in TaskWorkers, NEW t \in Task, Take(w, t)
      PROVE  Unspoken' /\ MentionedOnce'
  <2>1. w \in Workers /\ notes' = notes BY <1>3 DEF Workers, Take
  <2>2. \A v \in Workers \ {w} : mem'[v] = mem[v] BY <1>3, <2>1, Local DEF Pick
  <2>3. mem'[w].verb = t.verb /\ mem'[w].todo = Recipients(t, post)
    <3> DEFINE copy == IF t.verb = "created" /\ ~post.flag
                         THEN [post EXCEPT !.flag = TRUE] ELSE post
               label == IF t.verb = "created" /\ ~post.flag THEN "cleanup" ELSE "notify"
               m == [Memo("task", t.by, copy) EXCEPT !.verb = t.verb,
                                                     !.todo = Recipients(t, post)]
    <3>1. Begin(w, label, m) BY <1>3 DEF Take
    <3>2. m.verb = t.verb /\ m.todo = Recipients(t, post) BY DEF Memo, NoMemory
    <3> HIDE DEF m, label
    <3> QED BY <2>1, <3>1, <3>2 DEF Begin, TypeOK
  <2>4. t.verb = "mentioned" =>
          \A n \in notes : n.verb = "mentioned" => n.to \notin Recipients(t, post)
    BY DEF Recipients, Unmentioned
  <2>5. Unspoken' BY <2>1, <2>2, <2>3, <2>4 DEF Unspoken
  <2> QED BY <2>1, <2>5 DEF MentionedOnce
<1>4. ASSUME NEW w \in TaskWorkers, NEW t \in Task, TakeForNothing(w, t)
      PROVE  Unspoken' /\ MentionedOnce'
  BY <1>4 DEF TakeForNothing, Unspoken, MentionedOnce
<1>5. ASSUME NEW w \in Workers, Proceed(w) \/ Die(w), ~Notify(w)
      PROVE  Unspoken' /\ MentionedOnce'
  BY <1>0, <1>5, ProceedTraced, ProceedMem, Local, UnspokenCalm DEF Die
<1>6. ASSUME NEW w \in Workers, Notify(w)
      PROVE  Unspoken' /\ MentionedOnce'
  <2>1. PICK u \in mem[w].todo :
          /\ notes'  = notes \cup {[id |-> serial', to |-> u, verb |-> mem[w].verb,
                                    at |-> clock, emailed |-> FALSE,
                                    direct |-> 0, digest |-> 0]}
          /\ mem' = [mem EXCEPT ![w].todo = @ \ {u}, ![w].made = @ \cup {serial'}]
    BY <1>6 DEF Notify
  <2> DEFINE row == [id |-> serial', to |-> u, verb |-> mem[w].verb, at |-> clock,
                     emailed |-> FALSE, direct |-> 0, digest |-> 0]
  <2>2. mem[w] \in Memory BY DEF TypeOK
  <2>3. mem' = [mem EXCEPT ![w] =
                  [mem[w] EXCEPT !.todo = @ \ {u}, !.made = @ \cup {serial'}]]
    BY <2>1 DEF TypeOK
  <2>4. mem'[w].verb = mem[w].verb /\ mem'[w].todo = mem[w].todo \ {u} BY <2>2, <2>3 DEF TypeOK, Memory
  <2>5. \A v \in Workers \ {w} : mem'[v] = mem[v] BY <2>3 DEF TypeOK
  <2>6. \A v \in Workers : mem[v].verb # "none" => v = w BY <1>6 DEF Flows, Flow, Notify
  <2>7. notes' = notes \cup {row} /\ row.to = u /\ row.verb = mem[w].verb BY <2>1
  <2> HIDE DEF row
  <2>8. Unspoken' BY <2>4, <2>5, <2>6, <2>7 DEF Unspoken
  <2>9. MentionedOnce' BY <2>7 DEF Unspoken, MentionedOnce
  <2> QED BY <2>8, <2>9
<1>7. CASE Tick \/ UNCHANGED vars BY <1>7 DEF Tick, vars, Unspoken, MentionedOnce
<1> QED BY <1>1, <1>2, <1>3, <1>4, <1>5, <1>6, <1>7 DEF Next, Pick, Proceed

\* With one task worker nobody is told twice of a mention in the post, however
\* often the web processes save it: the task asks who has no notification yet,
\* and nothing comes between the question and the last notification.
THEOREM MentionedOnceAlone ==
  ASSUME \A v, w \in TaskWorkers : v = w
  PROVE  Spec => []MentionedOnce
<1>1. Init => TypeOK /\ Flows /\ Unspoken /\ MentionedOnce BY TypeInit, FlowInit, UnspokenInit
<1>2. TypeOK /\ Flows /\ Unspoken /\ MentionedOnce /\ [Next]_vars
        => TypeOK' /\ Flows' /\ Unspoken' /\ MentionedOnce'
  BY TypeStep, FlowStep, UnspokenStep DEF Flows
<1> QED BY <1>1, <1>2, PTL DEF Spec

-----------------------------------------------------------------------------
(***************************************************************************)
(* The announcement.  There is at most one token: a "created" task in the  *)
(* broker, or one worker that runs it or is about to submit it.            *)
(***************************************************************************)

Waiting(u) == queue[[verb |-> "created", by |-> u]]
Busy(w)    == \/ pc[w] \in {"oncreate", "count", "submit"}
              \/ mem[w].verb = "created"

\* Before the post there is nothing.
Before ==
  post.class = "none" => /\ notes = {}
                         /\ \A w \in Workers : pc[w] = "idle"
                         /\ \A t \in Task : queue[t] = 0

OneToken ==
  /\ \A v, w \in Workers : Busy(v) /\ Busy(w) => v = w
  /\ \A u \in Users : Waiting(u) > 0 =>
       Waiting(u) = 1 /\ u = Owner /\ \A w \in Workers : ~Busy(w)

\* While the task is only promised nobody was told; whoever is on the list of
\* the running task was not told.
Untold ==
  /\ \A n \in notes : n.verb = "created" =>
       /\ Waiting(Owner) = 0
       /\ \A w \in Workers : pc[w] \notin {"oncreate", "submit"}
  /\ \A w \in Workers : mem[w].verb = "created" =>
       \A n \in notes : n.verb = "created" => n.to \notin mem[w].todo

Announcing == Before /\ OneToken /\ Untold /\ CreatedOnce

LEMMA WaitingType ==
  ASSUME TypeOK
  PROVE  \A u \in Users : Waiting(u) \in Nat /\ [verb |-> "created", by |-> u] \in Task
BY DEF Task, Verbs, Waiting, TypeOK

LEMMA AnnouncingInit == Init => Announcing
<1> SUFFICES ASSUME Init PROVE Announcing OBVIOUS
<1>1. \A w \in Workers : pc[w] = "idle" /\ mem[w].verb = "none" BY DEF Init, NoMemory
<1>2. notes = {} /\ \A t \in Task : queue[t] = 0 BY DEF Init
<1>3. \A u \in Users : Waiting(u) = 0 BY <1>2 DEF Waiting, Task, Verbs
<1>4. OneToken BY <1>1, <1>3 DEF OneToken, Busy
<1> QED BY <1>1, <1>2, <1>4 DEF Announcing, Before, Untold, CreatedOnce

\* A post that was there does not become one that never was.
LEMMA ClassKept ==
  ASSUME TypeOK, Flows, [Next]_vars, post.class # "none"
  PROVE  post'.class # "none"
<1>1. CASE \E w \in Workers : Add(w) BY <1>1 DEF Add
<1>2. CASE \E w \in Workers : Store(w) BY <1>2 DEF Store, Flows, Flow, Exists, Classes
<1>3. CASE \E w \in Workers : Delete(w) BY <1>3 DEF Delete, NoPost
<1>4. CASE post' = post BY <1>4
<1>5. WebWorkers \subseteq Workers /\ TaskWorkers \subseteq Workers BY DEF Workers
<1>6. \A w : Proceed(w) => Store(w) \/ Delete(w) \/ post' = post
  BY DEF Proceed, OnCreate, Cleanup, Mention, AddFollow, Tell, Notify, DirectMail,
         Count, SubmitCreated, Digest, Mark
<1>7. \A w : Arrive(w) => Add(w) \/ post' = post BY DEF Arrive, Edit, Comment, Follow, LoadForDelete
<1>8. \A w : Pick(w) \/ Hourly(w) \/ Collect(w) \/ Die(w) => post' = post
  BY DEF Pick, Take, TakeForNothing, Hourly, Collect, Die
<1> QED BY <1>1, <1>2, <1>3, <1>4, <1>5, <1>6, <1>7, <1>8 DEF Next, Tick, vars

LEMMA BeforeStep ==
  ASSUME TypeOK, Flows, Before, [Next]_vars
  PROVE  Before'
<1>1. CASE post.class # "none" BY <1>1, ClassKept DEF Before
<1>2. CASE post.class = "none"
  <2>0. /\ notes = {}
        /\ \A w \in Workers : pc[w] = "idle"
        /\ \A t \in Task : queue[t] = 0
        /\ ~Exists(post)
    BY <1>2 DEF Before, Exists, Classes
  <2>1. ASSUME NEW w \in WebWorkers, Arrive(w) PROVE Before'
    <3>1. CASE Add(w) BY <3>1, ParamAssumption DEF Add, Before, Classes
    <3> QED BY <2>0, <2>1, <3>1 DEF Arrive, Edit, Comment, Follow, LoadForDelete
  <2>2. ASSUME NEW w \in TaskWorkers PROVE ~Pick(w) /\ ~Hourly(w) /\ ~Collect(w)
    <3>0. \A t \in Task : ~(queue[t] > 0) BY <2>0
    <3>1. ~Pick(w) BY <3>0 DEF Pick, Take, TakeForNothing, Dequeue
    <3>2. ~Hourly(w) BY <2>0 DEF Hourly, Due
    <3>3. ~Collect(w) BY <2>0 DEF Collect, Batch
    <3> QED BY <3>1, <3>2, <3>3
  <2>3. ASSUME NEW w \in Workers PROVE ~Proceed(w) /\ ~Die(w)
    BY <2>0 DEF Proceed, Die, OnCreate, Cleanup, Store, Mention, AddFollow, Tell,
                Delete, Notify, DirectMail, Count, SubmitCreated, Digest, Mark
  <2>4. CASE Tick \/ UNCHANGED vars BY <2>0, <2>4 DEF Tick, vars, Before
  <2> QED BY <2>1, <2>2, <2>3, <2>4 DEF Next
<1> QED BY <1>1, <1>2

\* A step that makes no token, takes none from the broker to run it, and
\* announces nothing.
Calm ==
  /\ Traced
  /\ \A w \in Workers : Busy(w)' => Busy(w)
  /\ \A u \in Users : Waiting(u)' <= Waiting(u)
  /\ \A w \in Workers : pc'[w] \in {"oncreate", "submit"} =>
       pc[w] \in {"oncreate", "submit"} \/ notes = {}
  /\ \A w \in Workers : mem'[w].verb = "created" =>
       mem[w].verb = "created" /\ mem'[w].todo = mem[w].todo

LEMMA CalmStep ==
  ASSUME TypeOK, TypeOK', OneToken, Untold, CreatedOnce, Calm
  PROVE  OneToken' /\ Untold' /\ CreatedOnce'
<1>0. \A u \in Users : Waiting(u) \in Nat /\ Waiting(u)' \in Nat BY WaitingType DEF Waiting, TypeOK, Task, Verbs
<1>1. OneToken'
  BY <1>0 DEF Calm, OneToken
<1>2. Untold'
  BY <1>0, ParamAssumption DEF Calm, Traced, Untold
<1>3. CreatedOnce' BY DEF CreatedOnce, Calm, Traced
<1> QED BY <1>1, <1>2, <1>3

\* The submission of another task leaves the "created" tasks alone.
LEMMA OtherTask ==
  ASSUME TypeOK, NEW verb \in Verbs \ {"created"}, NEW by \in Users, Submit(verb, by)
  PROVE  \A u \in Users : Waiting(u)' = Waiting(u)
<1>1. \A u \in Users : [verb |-> "created", by |-> u] # [verb |-> verb, by |-> by] OBVIOUS
<1>2. \A u \in Users : [verb |-> "created", by |-> u] \in Task BY DEF Task, Verbs
<1> DEFINE t == [verb |-> verb, by |-> by]
<1>3. queue' = [queue EXCEPT ![t] = queue[t] + 1] BY DEF Submit
<1>4. queue \in [Task -> Nat] BY DEF TypeOK
<1>5. \A u \in Users : t # [verb |-> "created", by |-> u] BY <1>1
<1> HIDE DEF t
<1> QED BY <1>2, <1>3, <1>4, <1>5 DEF Waiting

\* The worker submits the task it is about to submit: the token is passed on.
LEMMA Handover ==
  ASSUME TypeOK, TypeOK', OneToken, Untold, CreatedOnce, NEW w \in Workers,
         pc[w] \in {"oncreate", "submit"}, Submit("created", Owner), ~Busy(w)',
         UNCHANGED notes, mem'[w].verb # "created",
         \A v \in Workers \ {w} : pc'[v] = pc[v] /\ mem'[v] = mem[v]
  PROVE  OneToken' /\ Untold' /\ CreatedOnce'
<1>0. \A v \in Workers : Busy(v) => v = w BY DEF OneToken, Busy
<1>1. \A v \in Workers : ~Busy(v)' BY <1>0 DEF Busy
<1>2. ASSUME NEW u \in Users PROVE Waiting(u) = 0
  <2>1. ~(Waiting(u) > 0) BY DEF OneToken, Busy
  <2>2. Waiting(u) \in Nat BY WaitingType
  <2> QED BY <2>1, <2>2
<1>3. Waiting(Owner)' = 1 /\ \A u \in Users \ {Owner} : Waiting(u)' = 0
  <2> DEFINE t(u) == [verb |-> "created", by |-> u]
  <2>1. queue' = [queue EXCEPT ![t(Owner)] = queue[t(Owner)] + 1] BY DEF Submit
  <2>2. \A u \in Users : t(u) \in Task /\ queue[t(u)] = 0 BY <1>2 DEF Task, Verbs, Waiting
  <2>3. \A u \in Users \ {Owner} : t(u) # t(Owner) OBVIOUS
  <2>4. queue \in [Task -> Nat] /\ Owner \in Users BY ParamAssumption DEF TypeOK
  <2>5. \A u \in Users : Waiting(u)' = queue'[t(u)] BY DEF Waiting
  <2> HIDE DEF t
  <2> QED BY <2>1, <2>2, <2>3, <2>4, <2>5
<1>4. OneToken' BY <1>1, <1>3 DEF OneToken
<1>5. ~\E n \in notes' : n.verb = "created" BY DEF Untold
<1>6. Untold' /\ CreatedOnce' BY <1>5 DEF Untold, CreatedOnce
<1> QED BY <1>4, <1>6

\* A calm step of one worker.
LEMMA CalmWorker ==
  ASSUME TypeOK, NEW w \in Workers, Traced,
         \A v \in Workers \ {w} : pc'[v] = pc[v] /\ mem'[v] = mem[v],
         \A u \in Users : Waiting(u)' <= Waiting(u),
         pc'[w] \in {"oncreate", "count", "submit"} =>
           Busy(w) /\ (pc[w] \in {"oncreate", "submit"} \/ notes = {}),
         \/ mem'[w].verb # "created"
         \/ mem'[w].verb = mem[w].verb /\ mem'[w].todo = mem[w].todo
  PROVE  Calm
BY DEF Busy, Calm

LEMMA SameTasks ==
  ASSUME TypeOK, UNCHANGED queue
  PROVE  \A u \in Users : Waiting(u)' <= Waiting(u)
<1>1. \A u \in Users : Waiting(u)' = Waiting(u) /\ Waiting(u) \in Nat BY WaitingType DEF Waiting
<1> QED BY <1>1

LEMMA SameRows ==
  ASSUME UNCHANGED notes
  PROVE  Traced
BY DEF Traced

\* A worker starts something, while no token is elsewhere.
LEMMA Fresher ==
  ASSUME TypeOK, NEW w \in Workers, CreatedOnce, UNCHANGED notes,
         \A u \in Users : Waiting(u)' = 0,
         \A v \in Workers \ {w} : ~Busy(v)',
         \A n \in notes : n.verb = "created" =>
           mem'[w].verb # "created" /\ pc'[w] \notin {"oncreate", "submit"}
  PROVE  OneToken' /\ Untold' /\ CreatedOnce'
BY ParamAssumption DEF OneToken, Untold, Busy, CreatedOnce

LEMMA CreatedArrive ==
  ASSUME TypeOK, TypeOK', Flows, Announcing, NEW w \in WebWorkers, Arrive(w)
  PROVE  OneToken' /\ Untold' /\ CreatedOnce'
<1> w \in Workers BY DEF Workers
<1>1. /\ mem'[w].verb = "none" /\ UNCHANGED <<queue, notes>>
      /\ \A v \in Workers \ {w} : pc'[v] = pc[v] /\ mem'[v] = mem[v]
  BY StartMem, Local DEF Arrive, Add, Edit, Comment, Follow, LoadForDelete
<1>2. CASE Add(w)
  <2>1. /\ notes = {} /\ \A v \in Workers : pc[v] = "idle"
        /\ \A t \in Task : queue[t] = 0
    BY <1>2 DEF Add, Announcing, Before
  <2>2. \A v \in Workers \ {w} : ~Busy(v)' BY <1>1, <2>1 DEF Flows, Flow, Busy, NoMemory
  <2>3. \A u \in Users : Waiting(u)' = 0 BY <1>1, <2>1, WaitingType DEF Waiting
  <2> QED BY <1>1, <2>1, <2>2, <2>3, Fresher DEF Announcing
<1>3. CASE ~Add(w)
  <2>1. pc'[w] \notin {"oncreate", "count", "submit"} \/ pc'[w] = pc[w]
    BY <1>3 DEF Arrive, Edit, Comment, Follow, LoadForDelete, Begin, Goto, TypeOK
  <2>2. pc[w] = "idle" BY <1>3 DEF Arrive, Edit, Comment, Follow, LoadForDelete, Begin
  <2>3. Calm BY <1>1, <2>1, <2>2, CalmWorker, SameTasks, SameRows
  <2> QED BY <2>3, CalmStep DEF Announcing
<1> QED BY <1>2, <1>3

LEMMA CreatedJob ==
  ASSUME TypeOK, TypeOK', Flows, Announcing, NEW w \in TaskWorkers,
         Hourly(w) \/ Collect(w)
  PROVE  OneToken' /\ Untold' /\ CreatedOnce'
<1> w \in Workers BY DEF Workers
<1>1. /\ mem'[w].verb = "none" /\ UNCHANGED <<queue, notes>>
      /\ \A v \in Workers \ {w} : pc'[v] = pc[v] /\ mem'[v] = mem[v]
  BY StartMem, Local DEF Hourly, Collect
<1>2. CASE Hourly(w)
  <2>1. \A u \in Users : Waiting(u)' = 0 BY <1>1, <1>2 DEF Hourly, Prompt, Waiting
  <2>2. \A v \in Workers \ {w} : ~Busy(v)' BY <1>1, <1>2 DEF Hourly, Prompt, Busy
  <2>3. pc'[w] \in {"count", "cleanup"} BY <1>2 DEF Hourly, Begin, Goto, TypeOK
  <2> QED BY <1>1, <2>1, <2>2, <2>3, Fresher DEF Announcing
<1>3. CASE Collect(w)
  <2>1. pc'[w] = "digest" BY <1>3 DEF Collect, Begin, Goto, TypeOK
  <2>2. Calm BY <1>1, <2>1, CalmWorker, SameTasks, SameRows
  <2> QED BY <2>2, CalmStep DEF Announcing
<1> QED BY <1>2, <1>3

\* What a task worker has when it has taken a task.
LEMMA TakeMem ==
  ASSUME TypeOK, NEW w \in Workers, NEW t \in Task, Take(w, t)
  PROVE  /\ mem'[w].verb = t.verb /\ mem'[w].todo = Recipients(t, post)
         /\ pc'[w] \in {"cleanup", "notify"}
<1> DEFINE copy == IF t.verb = "created" /\ ~post.flag
                     THEN [post EXCEPT !.flag = TRUE] ELSE post
           label == IF t.verb = "created" /\ ~post.flag THEN "cleanup" ELSE "notify"
           m == [Memo("task", t.by, copy) EXCEPT !.verb = t.verb,
                                                 !.todo = Recipients(t, post)]
<1>1. Begin(w, label, m) BY DEF Take
<1>2. m.verb = t.verb /\ m.todo = Recipients(t, post) BY DEF Memo, NoMemory
<1>3. label \in {"cleanup", "notify"} OBVIOUS
<1> HIDE DEF m, label
<1> QED BY <1>1, <1>2, <1>3 DEF Begin, Goto, TypeOK

\* The tasks left when one is taken.
LEMMA DequeueTasks ==
  ASSUME TypeOK, NEW t \in Task, Dequeue(t)
  PROVE  \A u \in Users :
           IF t = [verb |-> "created", by |-> u]
             THEN Waiting(u) > 0 /\ Waiting(u)' = Waiting(u) - 1
             ELSE Waiting(u)' = Waiting(u)
BY DEF Task, Verbs, Dequeue, TypeOK, Waiting

LEMMA CreatedPick ==
  ASSUME TypeOK, TypeOK', Flows, Announcing, NEW w \in TaskWorkers, Pick(w)
  PROVE  OneToken' /\ Untold' /\ CreatedOnce'
<1> w \in Workers BY DEF Workers
<1>1. PICK t \in Task : Take(w, t) \/ TakeForNothing(w, t) BY DEF Pick
<1>2. /\ Dequeue(t) /\ UNCHANGED notes
      /\ \A v \in Workers \ {w} : pc'[v] = pc[v] /\ mem'[v] = mem[v]
  BY <1>1, Local DEF Take, TakeForNothing
<1>3. \A u \in Users : Waiting(u) \in Nat BY WaitingType
<1>4. \A u \in Users : Waiting(u)' <= Waiting(u)
  BY <1>2, DequeueTasks, <1>3
<1>5. CASE Take(w, t) /\ t.verb = "created"
  <2>1. t = [verb |-> "created", by |-> t.by] /\ t.by \in Users BY <1>5 DEF Task
  <2>2. Waiting(t.by) > 0 /\ Waiting(t.by)' = Waiting(t.by) - 1 BY <1>2, <2>1, DequeueTasks
  <2>3. Waiting(t.by) = 1 /\ t.by = Owner /\ \A v \in Workers : ~Busy(v) BY <2>1, <2>2 DEF Announcing, OneToken
  <2>4. ASSUME NEW u \in Users PROVE Waiting(u)' = 0
    <3>1. CASE u = Owner BY <2>2, <2>3, <3>1
    <3>2. CASE u # Owner
      <4>1. ~(Waiting(u) > 0) BY <3>2 DEF Announcing, OneToken
      <4>2. Waiting(u)' = Waiting(u) BY <1>2, <2>1, <2>3, <3>2, DequeueTasks
      <4> QED BY <1>3, <4>1, <4>2
    <3> QED BY <3>1, <3>2
  <2>5. ~\E n \in notes : n.verb = "created" BY <2>3 DEF Announcing, Untold
  <2>6. \A v \in Workers \ {w} : ~Busy(v)' BY <1>2, <2>3 DEF Busy
  <2> QED BY <1>2, <2>4, <2>5, <2>6, Fresher DEF Announcing
<1>6. CASE Take(w, t) /\ t.verb # "created"
  <2>1. Calm BY <1>2, <1>4, <1>6, TakeMem, CalmWorker, SameRows
  <2> QED BY <2>1, CalmStep DEF Announcing
<1>7. CASE TakeForNothing(w, t)
  <2>1. UNCHANGED <<pc, mem>> /\ pc[w] = "idle" BY <1>7 DEF TakeForNothing
  <2>2. Calm BY <1>2, <1>4, <2>1, CalmWorker, SameRows
  <2> QED BY <2>2, CalmStep DEF Announcing
<1> QED BY <1>1, <1>5, <1>6, <1>7

\* One row is added, for somebody on the list of the running task.
LEMMA CreatedNotify ==
  ASSUME TypeOK, TypeOK', Flows, Announcing, NEW w \in Workers, Notify(w)
  PROVE  OneToken' /\ Untold' /\ CreatedOnce'
<1>1. PICK u \in mem[w].todo :
        /\ notes'  = notes \cup {[id |-> serial', to |-> u, verb |-> mem[w].verb,
                                  at |-> clock, emailed |-> FALSE,
                                  direct |-> 0, digest |-> 0]}
        /\ mem' = [mem EXCEPT ![w].todo = @ \ {u}, ![w].made = @ \cup {serial'}]
  BY DEF Notify
<1> DEFINE row == [id |-> serial', to |-> u, verb |-> mem[w].verb, at |-> clock,
                   emailed |-> FALSE, direct |-> 0, digest |-> 0]
<1>2. mem[w] \in Memory BY DEF TypeOK
<1>3. mem' = [mem EXCEPT ![w] =
                [mem[w] EXCEPT !.todo = @ \ {u}, !.made = @ \cup {serial'}]]
  BY <1>1 DEF TypeOK
<1>4. mem'[w].verb = mem[w].verb /\ mem'[w].todo = mem[w].todo \ {u} BY <1>2, <1>3 DEF TypeOK, Memory
<1>5. \A v \in Workers \ {w} : mem'[v] = mem[v] BY <1>3 DEF TypeOK
<1>6. notes' = notes \cup {row} /\ row.to = u /\ row.verb = mem[w].verb BY <1>1
<1> HIDE DEF row
<1>7. /\ UNCHANGED pc /\ \A v \in Users : Waiting(v)' = Waiting(v)
      /\ \A v \in Workers : Busy(v)' = Busy(v)
  BY <1>4, <1>5 DEF Notify, Waiting, Busy
<1>8. OneToken' BY <1>7 DEF OneToken, Announcing
<1>9. CASE mem[w].verb = "created"
  <2>1. /\ Busy(w) /\ pc[w] = "notify"
        /\ \A v \in Workers : Busy(v) => v = w
        /\ ~(Waiting(Owner) > 0)
    BY <1>9, ParamAssumption DEF Announcing, OneToken, Busy, Notify
  <2>2. Waiting(Owner)' = 0
    <3>1. Waiting(Owner) \in Nat /\ Waiting(Owner)' = Waiting(Owner) BY <1>7, WaitingType, ParamAssumption
    <3> QED BY <2>1, <3>1
  <2>3. \A v \in Workers : pc'[v] \notin {"oncreate", "submit"} BY <1>7, <2>1 DEF Busy
  <2>4. \A v \in Workers : mem'[v].verb = "created" => v = w BY <1>7, <2>1 DEF Busy
  <2>5. Untold' BY <1>4, <1>6, <1>9, <2>2, <2>3, <2>4 DEF Untold, Announcing
  <2>6. CreatedOnce' BY <1>6, <1>9 DEF CreatedOnce, Untold, Announcing
  <2> QED BY <1>8, <2>5, <2>6
<1>10. CASE mem[w].verb # "created"
  <2>1. ASSUME NEW n \in notes', n.verb = "created" PROVE n \in notes BY <1>6, <1>10, <2>1
  <2>2. Untold' BY <1>4, <1>5, <1>7, <1>10, <2>1, ParamAssumption DEF Untold, Announcing
  <2>3. CreatedOnce' BY <2>1 DEF CreatedOnce, Announcing
  <2> QED BY <1>8, <2>2, <2>3
<1> QED BY <1>9, <1>10

LEMMA CreatedProceed ==
  ASSUME TypeOK, TypeOK', Flows, Announcing, NEW w \in Workers,
         Proceed(w) \/ Die(w), ~Notify(w)
  PROVE  OneToken' /\ Untold' /\ CreatedOnce'
<1>1. \A v \in Workers \ {w} : pc'[v] = pc[v] /\ mem'[v] = mem[v] BY Local
<1>2. Traced BY ProceedTraced, SameRows DEF Die
<1>3. \/ mem'[w].verb = "none"
      \/ mem'[w].verb = mem[w].verb /\ mem'[w].todo = mem[w].todo
  BY ProceedMem
<1>4. \A u \in Users : Waiting(u) \in Nat BY WaitingType
<1>5. ASSUME \A u \in Users : Waiting(u)' <= Waiting(u),
             pc'[w] \notin {"oncreate", "count", "submit"}
      PROVE  OneToken' /\ Untold' /\ CreatedOnce'
  <2>1. Calm BY <1>1, <1>2, <1>3, <1>5, CalmWorker
  <2> QED BY <2>1, CalmStep DEF Announcing
<1>6. ASSUME Saved(w)
      PROVE  pc'[w] \notin {"oncreate", "count", "submit"}
  BY <1>6 DEF Saved, AfterSave, Done, Goto, TypeOK
<1>7. CASE OnCreate(w)
  <2>1. pc'[w] \in {"mention", "cleanup"} /\ UNCHANGED notes BY <1>7 DEF OnCreate, Goto, TypeOK
  <2>2. mem[w].verb = "none" BY <1>7 DEF OnCreate, Flows, Flow
  <2>3. CASE Submit("created", Owner) BY <1>1, <1>3, <1>7, <2>1, <2>2, <2>3, Handover DEF Announcing, OnCreate, Busy
  <2>4. CASE UNCHANGED queue BY <1>5, <2>1, <2>4, SameTasks
  <2> QED BY <1>7, <2>3, <2>4 DEF OnCreate
<1>8. CASE SubmitCreated(w)
  <2>1. pc'[w] = "idle" /\ mem'[w] = NoMemory BY <1>8 DEF SubmitCreated, Done, Goto, TypeOK
  <2> QED BY <1>1, <1>8, <2>1, Handover DEF Announcing, SubmitCreated, Busy, NoMemory
<1>9. CASE Count(w)
  <2>1. \/ pc'[w] = "cleanup"
        \/ pc'[w] = "submit" /\ notes = {}
    BY <1>9 DEF Count, Goto, TypeOK
  <2>2. Busy(w) BY <1>9 DEF Count, Busy
  <2>3. Calm BY <1>1, <1>2, <1>3, <1>9, <2>1, <2>2, CalmWorker, SameTasks DEF Count
  <2> QED BY <2>3, CalmStep DEF Announcing
<1>10. CASE Mention(w)
  <2>1. \A u \in Users : Waiting(u)' <= Waiting(u)
    BY <1>4, OtherTask, ParamAssumption, SameTasks, <1>10 DEF Verbs, Mention
  <2> QED BY <1>5, <1>6, <1>10, <2>1 DEF Mention
<1>11. CASE Tell(w)
  <2>1. mem[w].by \in Users BY DEF TypeOK, Memory
  <2>2. \A u \in Users : Waiting(u)' <= Waiting(u) BY <1>4, <1>11, <2>1, OtherTask DEF Tell, Verbs
  <2> QED BY <1>5, <1>11, <2>2 DEF Tell, Done, Goto, TypeOK
<1>12. CASE Store(w)
  BY <1>6, <1>12, <1>5, SameTasks DEF Store, Goto, TypeOK
<1>13. CASE \/ Cleanup(w) \/ AddFollow(w) \/ Delete(w) \/ DirectMail(w)
            \/ Digest(w) \/ Mark(w) \/ Die(w)
  <2>1. UNCHANGED queue BY <1>13 DEF Cleanup, AddFollow, Delete, DirectMail, Digest, Mark, Die
  <2>2. pc'[w] \in {"store", "tell", "mark", "idle"}
    BY <1>13 DEF Cleanup, AddFollow, Delete, DirectMail, Digest, Mark, Die,
                 Done, Goto, TypeOK
  <2> QED BY <1>5, <2>1, <2>2, SameTasks
<1> QED BY <1>7, <1>8, <1>9, <1>10, <1>11, <1>12, <1>13 DEF Proceed

LEMMA AnnouncingStep ==
  ASSUME TypeOK, Flows, Announcing, [Next]_vars
  PROVE  Announcing'
<1>1. TypeOK' /\ Before' BY TypeStep, BeforeStep DEF Flows, Announcing
<1>2. CASE \E w \in WebWorkers : Arrive(w) BY <1>1, <1>2, CreatedArrive DEF Announcing
<1>3. CASE \E w \in TaskWorkers : Pick(w) \/ Hourly(w) \/ Collect(w)
  BY <1>1, <1>3, CreatedPick, CreatedJob DEF Announcing
<1>4. CASE \E w \in Workers : Proceed(w) \/ Die(w) BY <1>1, <1>4, CreatedProceed, CreatedNotify DEF Announcing
<1>5. CASE Tick \/ UNCHANGED vars
  <2>1. UNCHANGED <<queue, notes, pc, mem>> BY <1>5 DEF Tick, vars
  <2>2. Calm BY <2>1, SameTasks, SameRows DEF Calm, Busy
  <2> QED BY <1>1, <2>2, CalmStep DEF Announcing
<1> QED BY <1>2, <1>3, <1>4, <1>5 DEF Next

\* Nobody is told twice that the post was created, with any number of web
\* processes and task workers, any of which may die, and however often
\* notifications_created is put back.
THEOREM CreatedOnceHolds == Spec => []CreatedOnce
<1>1. Init => TypeOK /\ Flows /\ Announcing BY TypeInit, FlowInit, AnnouncingInit
<1>2. TypeOK /\ Flows /\ Announcing /\ [Next]_vars => TypeOK' /\ Flows' /\ Announcing'
  BY TypeStep, FlowStep, AnnouncingStep DEF Flows
<1>3. Announcing => CreatedOnce BY DEF Announcing
<1> QED BY <1>1, <1>2, <1>3, PTL DEF Spec
-----------------------------------------------------------------------------
(***************************************************************************)
(* The collected mail, with one task worker.  Between the query and the    *)
(* mark rows may go and age, and none comes: whoever was in the batch and  *)
(* is still fresh is in the batch that is marked.                          *)
(***************************************************************************)

InMail(w) == pc[w] \in {"digest", "mark"}
\* What the collected mail still looks at.
Open(n)   == ~n.emailed /\ Fresh(n)
\* The open rows of the same person that come before n in a batch.
Newer(n)  == {o \in notes : o.to = n.to /\ Open(o) /\ o.id > n.id}

Numbered ==
  /\ \A n \in notes : n.id <= serial
  /\ \A m, n \in notes : m.id = n.id => m = n

Collecting ==
  /\ Numbered
  /\ \A w \in Workers : InMail(w) => w \in TaskWorkers
  /\ \A w \in Workers, n \in notes :
       InMail(w) /\ n.id \in mem[w].made =>
         /\ n.to = mem[w].by
         /\ Open(n) => Cardinality(Newer(n)) < DigestSize
         /\ pc[w] = "digest" => n.digest <= crashes
  /\ \A n \in notes :
       Open(n) /\ n.digest > crashes =>
         \E w \in Workers : pc[w] = "mark" /\ n.id \in mem[w].made
  /\ CollectedOnce

LEMMA CollectingInit == Init => Collecting
BY DEF Init, InMail, Collecting, Numbered, CollectedOnce

LEMMA NotesFinite ==
  ASSUME TypeOK, Numbered, NEW S \in SUBSET notes
  PROVE  IsFiniteSet(S) /\ Cardinality(S) \in Nat
<1> DEFINE f == [n \in notes |-> n.id]
<1>1. f \in Injection(notes, 0..serial) BY DEF Injection, IsInjective, Numbered, TypeOK, Note
<1>2. IsFiniteSet(0..serial) BY FS_Interval DEF TypeOK
<1>3. IsFiniteSet(notes) BY <1>1, <1>2, FS_Injection
<1> QED BY <1>3, FS_Subset, FS_CardinalityType

\* x is the row n, perhaps marked since.
Kin(x, n) == x.id = n.id /\ x.to = n.to /\ x.at = n.at /\ (n.emailed => x.emailed)

\* Every row was there before; perhaps hours have passed.
Fading ==
  /\ \A x, y \in notes' : \E m, n \in notes :
       /\ Kin(x, m) /\ Kin(y, n)
       /\ m = n => x = y
  /\ clock <= clock' /\ clock' \in Nat
  /\ serial <= serial' /\ serial' \in Nat

LEMMA FadingNumbered ==
  ASSUME TypeOK, Numbered, Fading
  PROVE  Numbered'
BY DEF Fading, Kin, TypeOK, Note, Numbered

LEMMA FadingOpen ==
  ASSUME TypeOK, Fading, NEW x \in notes', NEW n \in notes, Kin(x, n), Open(x)'
  PROVE  Open(n)
BY ParamAssumption DEF Kin, Open, Fresh, TypeOK, Note, Fading

\* No row moves back in its batch.
LEMMA FadingNewer ==
  ASSUME TypeOK, TypeOK', Numbered, Fading, NEW x \in notes', NEW n \in notes, Kin(x, n)
  PROVE  Cardinality(Newer(x)') <= Cardinality(Newer(n)) /\ Cardinality(Newer(x)') \in Nat
<1> DEFINE S == Newer(x)'
           T == Newer(n)
           f == [y \in S |-> CHOOSE o \in T : o.id = y.id]
<1>1. Numbered' BY FadingNumbered
<1>2. ASSUME NEW y \in S PROVE \E o \in T : o.id = y.id
  BY FadingOpen DEF Newer, Fading, Kin
<1>3. f \in [S -> T] /\ \A y \in S : f[y].id = y.id BY <1>2
<1>4. \A y, z \in S : y.id = z.id => y = z BY <1>1 DEF Newer, Numbered
<1>5. f \in Injection(S, T) BY <1>3, <1>4 DEF Injection, IsInjective
<1>6. IsFiniteSet(T) BY NotesFinite DEF Newer
<1> HIDE DEF S, T, f
<1>7. IsFiniteSet(S) /\ Cardinality(S) <= Cardinality(T) BY <1>5, <1>6, FS_Injection
<1> QED BY <1>7, FS_CardinalityType DEF S, T

\* Steps that send no collected mail and add no row.
LEMMA CollectingCalm ==
  ASSUME TypeOK, TypeOK', Collecting, Fading, crashes' = crashes,
         \A x \in notes' : \E n \in notes : Kin(x, n) /\ x.digest = n.digest,
         \A w \in Workers : InMail(w) \/ InMail(w)' => pc'[w] = pc[w] /\ mem'[w] = mem[w]
  PROVE  Collecting'
<1>0. \A w \in Workers : InMail(w)' <=> InMail(w) BY DEF InMail
<1>1. Numbered' /\ \A w \in Workers : InMail(w)' => w \in TaskWorkers BY <1>0, FadingNumbered DEF Collecting
<1>2. ASSUME NEW w \in Workers, NEW x \in notes', InMail(w)', x.id \in mem'[w].made
      PROVE  /\ x.to = mem'[w].by
             /\ Open(x)' => Cardinality(Newer(x)') < DigestSize
             /\ pc'[w] = "digest" => x.digest <= crashes'
  <2>1. PICK n \in notes : Kin(x, n) /\ x.digest = n.digest OBVIOUS
  <2>2. InMail(w) /\ pc'[w] = pc[w] /\ mem'[w] = mem[w] /\ n.id \in mem[w].made BY <1>0, <1>2, <2>1 DEF Kin
  <2>3. /\ n.to = mem[w].by
        /\ Open(n) => Cardinality(Newer(n)) < DigestSize
        /\ pc[w] = "digest" => n.digest <= crashes
    BY <2>2 DEF Collecting
  <2>4. Open(x)' => Cardinality(Newer(x)') < DigestSize
    <3> HAVE Open(x)'
    <3>1. Cardinality(Newer(n)) < DigestSize BY <2>1, <2>3, FadingOpen
    <3>2. Cardinality(Newer(x)') <= Cardinality(Newer(n)) /\ Cardinality(Newer(x)') \in Nat
      BY <2>1, FadingNewer DEF Collecting
    <3>3. Cardinality(Newer(n)) \in Nat BY NotesFinite DEF Newer, Collecting
    <3> QED BY <3>1, <3>2, <3>3, ParamAssumption
  <2> QED BY <2>1, <2>2, <2>3, <2>4 DEF Kin
<1>3. ASSUME NEW x \in notes', Open(x)', x.digest > crashes'
      PROVE  \E w \in Workers : pc'[w] = "mark" /\ x.id \in mem'[w].made
  BY <1>3, FadingOpen DEF Collecting, InMail, Kin
<1>4. CollectedOnce' BY DEF CollectedOnce, Collecting
<1> QED BY <1>1, <1>2, <1>3, <1>4 DEF Collecting

LEMMA SameFading ==
  ASSUME TypeOK, TypeOK', notes' \subseteq notes, serial' = serial, clock <= clock'
  PROVE  Fading /\ \A x \in notes' : \E n \in notes : Kin(x, n) /\ x.digest = n.digest
BY DEF Fading, Kin, TypeOK

LEMMA CollectStep ==
  ASSUME TypeOK, TypeOK', Collecting, NEW w \in TaskWorkers, Collect(w),
         \A v, u \in TaskWorkers : v = u
  PROVE  Collecting'
<1> w \in Workers BY DEF Workers
<1>1. PICK u \in Digested :
        Begin(w, "digest", [Memo("digest", u, NoPost) EXCEPT !.made = Ids(Batch(u))])
  BY DEF Collect
<1>2. /\ pc[w] = "idle" /\ pc'[w] = "digest"
      /\ mem'[w].made = Ids(Batch(u)) /\ mem'[w].by = u
  BY <1>1 DEF Begin, Goto, TypeOK, Memo, NoMemory
<1>3. UNCHANGED <<notes, clock, serial, crashes>> BY DEF Collect
<1>4. \A v \in Workers : ~InMail(v) BY <1>2 DEF Collecting, InMail
<1>5. \A v \in Workers \ {w} : pc'[v] = pc[v] BY <1>1 DEF Begin, Goto, TypeOK
<1>6. \A v \in Workers : InMail(v)' => v = w BY <1>4, <1>5 DEF InMail
<1>7. \A n \in notes : Open(n) => n.digest <= crashes
  BY <1>4 DEF Collecting, InMail, TypeOK, Note
<1>8. ASSUME NEW n \in notes, n.id \in Ids(Batch(u))
      PROVE  n.to = u /\ Open(n) /\ Cardinality(Newer(n)) < DigestSize
  <2>1. PICK b \in Batch(u) : b.id = n.id BY <1>8 DEF Ids
  <2>2. b = n BY <2>1 DEF Batch, Collecting, Numbered
  <2> DEFINE unsent == {o \in notes : o.to = u /\ ~o.emailed /\ Fresh(o)}
  <2>3. n \in unsent /\ Cardinality({o \in unsent : o.id > n.id}) < DigestSize BY <2>1, <2>2 DEF Batch
  <2>4. {o \in unsent : o.id > n.id} = Newer(n) BY <2>3 DEF Newer, Open
  <2> QED BY <2>3, <2>4 DEF Open
<1>9. \A n \in notes : /\ Open(n)' <=> Open(n)
                       /\ Newer(n)' = Newer(n)
  BY <1>3 DEF Open, Fresh, Newer
<1>10. \A n \in notes' : Open(n)' => ~(n.digest > crashes')
  BY <1>3, <1>9, <1>7, ParamAssumption DEF TypeOK, Note
<1>11. \A v \in Workers, n \in notes' :
         InMail(v)' /\ n.id \in mem'[v].made =>
           /\ n.to = mem'[v].by
           /\ Open(n)' => Cardinality(Newer(n)') < DigestSize
           /\ pc'[v] = "digest" => n.digest <= crashes'
  BY <1>2, <1>3, <1>6, <1>7, <1>8, <1>9
<1>12. Numbered' /\ CollectedOnce' BY <1>3 DEF Collecting, Numbered, CollectedOnce
<1> QED BY <1>6, <1>10, <1>11, <1>12 DEF Collecting

LEMMA DigestStep ==
  ASSUME TypeOK, TypeOK', Collecting, NEW w \in Workers, Digest(w),
         \A v, u \in TaskWorkers : v = u
  PROVE  Collecting'
<1> DEFINE F(n) == IF n.id \in mem[w].made THEN [n EXCEPT !.digest = @ + 1] ELSE n
<1>1. notes' = {F(n) : n \in notes} /\ UNCHANGED <<clock, serial, crashes, mem>> BY DEF Digest
<1>2. pc[w] = "digest" /\ pc'[w] = "mark" /\ \A v \in Workers \ {w} : pc'[v] = pc[v] BY DEF Digest, Goto, TypeOK
<1>3. \A v \in Workers : InMail(v) => v = w BY <1>2 DEF Collecting, InMail
<1>4. \A v \in Workers : InMail(v)' <=> v = w BY <1>2, <1>3 DEF InMail
<1>5. \A n \in notes : /\ Kin(F(n), n) /\ F(n).emailed = n.emailed
                       /\ F(n).digest = IF n.id \in mem[w].made THEN n.digest + 1 ELSE n.digest
  BY DEF Kin, TypeOK, Note
<1> HIDE DEF F
<1>6. Fading BY <1>1, <1>5 DEF Fading, TypeOK
<1>7. ASSUME NEW n \in notes, n.id \in mem[w].made
      PROVE  /\ n.to = mem[w].by /\ n.digest <= crashes
             /\ Open(n) => Cardinality(Newer(n)) < DigestSize
  BY <1>2, <1>7 DEF Collecting, InMail
<1>8. ASSUME NEW v \in Workers, NEW x \in notes', InMail(v)', x.id \in mem'[v].made
      PROVE  /\ x.to = mem'[v].by
             /\ Open(x)' => Cardinality(Newer(x)') < DigestSize
             /\ pc'[v] = "digest" => x.digest <= crashes'
  <2>1. v = w /\ mem'[v] = mem[w] /\ pc'[v] = "mark" BY <1>1, <1>2, <1>4, <1>8
  <2>2. PICK n \in notes : x = F(n) BY <1>1
  <2>3. Kin(x, n) /\ n.id \in mem[w].made BY <1>5, <1>8, <2>1, <2>2 DEF Kin
  <2>4. Open(x)' => Cardinality(Newer(x)') < DigestSize
    <3> HAVE Open(x)'
    <3>1. Cardinality(Newer(n)) < DigestSize BY <1>6, <1>7, <2>3, FadingOpen
    <3>2. Cardinality(Newer(x)') <= Cardinality(Newer(n)) /\ Cardinality(Newer(x)') \in Nat
      BY <1>6, <2>3, FadingNewer DEF Collecting
    <3>3. Cardinality(Newer(n)) \in Nat BY NotesFinite DEF Newer, Collecting
    <3> QED BY <3>1, <3>2, <3>3, ParamAssumption
  <2> QED BY <1>7, <2>1, <2>3, <2>4 DEF Kin
<1>9. ASSUME NEW x \in notes', Open(x)', x.digest > crashes'
      PROVE  \E v \in Workers : pc'[v] = "mark" /\ x.id \in mem'[v].made
  <2>1. PICK n \in notes : x = F(n) BY <1>1
  <2>2. CASE n.id \in mem[w].made BY <1>1, <1>2, <1>5, <2>1, <2>2 DEF Kin
  <2>3. CASE n.id \notin mem[w].made
    <3>1. Open(n) /\ n.digest > crashes BY <1>1, <1>5, <1>6, <1>9, <2>1, <2>3, FadingOpen
    <3>2. PICK v \in Workers : pc[v] = "mark" BY <3>1 DEF Collecting
    <3> QED BY <1>2, <1>3, <3>2 DEF InMail
  <2> QED BY <2>2, <2>3
<1>10. CollectedOnce'
  <2> SUFFICES ASSUME NEW x \in notes' PROVE x.digest <= 1 + crashes' BY DEF CollectedOnce
  <2>1. PICK n \in notes : x = F(n) BY <1>1
  <2>2. n.digest <= 1 + crashes /\ n.digest \in Nat /\ crashes \in Nat
    BY ParamAssumption DEF Collecting, CollectedOnce, TypeOK, Note
  <2> QED BY <1>1, <1>5, <1>7, <2>1, <2>2
<1>11. Numbered' /\ \A v \in Workers : InMail(v)' => v \in TaskWorkers
  BY <1>2, <1>4, <1>6, FadingNumbered DEF Collecting, InMail
<1> QED BY <1>8, <1>9, <1>10, <1>11 DEF Collecting

LEMMA MarkStep ==
  ASSUME TypeOK, TypeOK', Collecting, NEW w \in Workers, Mark(w),
         \A v, u \in TaskWorkers : v = u
  PROVE  Collecting'
<1> DEFINE F(n) == IF n \in Batch(mem[w].by) THEN [n EXCEPT !.emailed = TRUE] ELSE n
<1>1. notes' = {F(n) : n \in notes} /\ UNCHANGED <<clock, serial, crashes>> BY DEF Mark
<1>2. pc[w] = "mark" /\ pc'[w] = "idle" /\ \A v \in Workers \ {w} : pc'[v] = pc[v] BY DEF Mark, Done, Goto, TypeOK
<1>3. \A v \in Workers : InMail(v) => v = w BY <1>2 DEF Collecting, InMail
<1>4. \A v \in Workers : ~InMail(v)' BY <1>2, <1>3 DEF InMail
<1>5. \A n \in notes : /\ Kin(F(n), n) /\ F(n).digest = n.digest
                       /\ n \in Batch(mem[w].by) => F(n).emailed
  BY DEF Kin, TypeOK, Note
<1> HIDE DEF F
<1>6. Fading BY <1>1, <1>5 DEF Fading, TypeOK
<1>7. ASSUME NEW x \in notes', Open(x)' PROVE ~(x.digest > crashes')
  <2>1. PICK n \in notes : x = F(n) BY <1>1
  <2>2. Open(n) BY <1>5, <1>6, <1>7, <2>1, FadingOpen
  <2>3. SUFFICES ASSUME n.digest > crashes PROVE FALSE BY <1>1, <1>5, <2>1
  <2>4. PICK v \in Workers : pc[v] = "mark" /\ n.id \in mem[v].made BY <2>2, <2>3 DEF Collecting
  <2>5. n.id \in mem[w].made BY <1>3, <2>4 DEF InMail
  <2>6. n.to = mem[w].by /\ Cardinality(Newer(n)) < DigestSize BY <1>2, <2>2, <2>5 DEF Collecting, InMail
  <2> DEFINE unsent == {o \in notes : o.to = mem[w].by /\ ~o.emailed /\ Fresh(o)}
  <2>7. n \in unsent /\ {o \in unsent : o.id > n.id} = Newer(n) BY <2>2, <2>6 DEF Newer, Open
  <2>8. n \in Batch(mem[w].by) BY <2>6, <2>7 DEF Batch
  <2> QED BY <1>5, <1>7, <2>1, <2>8 DEF Open
<1>8. CollectedOnce' BY <1>1, <1>5 DEF CollectedOnce, Collecting
<1>9. Numbered' BY <1>6, FadingNumbered DEF Collecting
<1> QED BY <1>4, <1>7, <1>8, <1>9 DEF Collecting

LEMMA DieCollecting ==
  ASSUME TypeOK, TypeOK', Collecting, NEW w \in Workers, Die(w)
  PROVE  Collecting'
<1>1. /\ UNCHANGED <<notes, clock, serial>> /\ crashes' = crashes + 1
      /\ pc'[w] = "idle" /\ \A v \in Workers \ {w} : pc'[v] = pc[v] /\ mem'[v] = mem[v]
  BY DEF Die, Done, Goto, TypeOK
<1>2. \A v \in Workers : InMail(v)' => InMail(v) /\ v # w BY <1>1 DEF InMail
<1>3. \A n \in notes : /\ Open(n)' <=> Open(n)
                       /\ Newer(n)' = Newer(n)
  BY <1>1 DEF Open, Fresh, Newer
<1>4. \A n \in notes : n.digest \in Nat /\ crashes \in Nat /\ n.digest <= 1 + crashes
  BY ParamAssumption DEF TypeOK, Note, Collecting, CollectedOnce
<1>5. \A n \in notes : ~(n.digest > crashes') /\ n.digest <= 1 + crashes' BY <1>1, <1>4
<1>6. \A v \in Workers, n \in notes :
        InMail(v)' /\ n.id \in mem'[v].made =>
          /\ n.to = mem'[v].by
          /\ Open(n)' => Cardinality(Newer(n)') < DigestSize
          /\ pc'[v] = "digest" => n.digest <= crashes'
  BY <1>1, <1>2, <1>3, <1>4 DEF Collecting
<1>7. Numbered' BY <1>1 DEF Numbered, Collecting
<1>8. CollectedOnce' BY <1>1, <1>5 DEF CollectedOnce
<1> QED BY <1>1, <1>2, <1>5, <1>6, <1>7, <1>8 DEF Collecting

LEMMA NotifyCollecting ==
  ASSUME TypeOK, TypeOK', Flows, Collecting, NEW w \in Workers, Notify(w),
         \A v, u \in TaskWorkers : v = u
  PROVE  Collecting'
<1>1. PICK u \in mem[w].todo :
        /\ serial' = serial + 1
        /\ notes'  = notes \cup {[id |-> serial', to |-> u, verb |-> mem[w].verb,
                                  at |-> clock, emailed |-> FALSE,
                                  direct |-> 0, digest |-> 0]}
  BY DEF Notify
<1> DEFINE row == [id |-> serial', to |-> u, verb |-> mem[w].verb, at |-> clock,
                   emailed |-> FALSE, direct |-> 0, digest |-> 0]
<1>2. notes' = notes \cup {row} /\ row.id = serial + 1 /\ row.digest = 0 BY <1>1
<1> HIDE DEF row
<1>3. w \in TaskWorkers /\ pc[w] = "notify" /\ UNCHANGED <<clock, crashes, pc>> BY DEF Notify, Flows, Flow
<1>4. \A v \in Workers : ~InMail(v) /\ ~InMail(v)' BY <1>3 DEF Collecting, InMail
<1>5. \A n \in notes : n.id \in Nat /\ n.id <= serial /\ serial \in Nat BY DEF TypeOK, Note, Collecting, Numbered
<1>6. Numbered' BY <1>1, <1>2, <1>5 DEF Numbered, Collecting, TypeOK
<1>7. ASSUME NEW n \in notes', Open(n)' PROVE ~(n.digest > crashes')
  <2>1. CASE n = row BY <1>2, <1>3, <2>1, ParamAssumption DEF TypeOK
  <2>2. CASE n \in notes BY <1>3, <1>4, <1>7, <2>2 DEF Collecting, Open, Fresh, InMail
  <2> QED BY <1>2, <2>1, <2>2
<1>8. CollectedOnce' BY <1>2, <1>3, ParamAssumption DEF CollectedOnce, Collecting, TypeOK
<1> QED BY <1>4, <1>6, <1>7, <1>8 DEF Collecting

\* The other steps leave the collected mail alone.
LEMMA OtherLabels ==
  ASSUME TypeOK, Flows, NEW w \in Workers,
         \/ Arrive(w) \/ Pick(w) \/ Hourly(w)
         \/ Proceed(w) /\ ~Digest(w) /\ ~Mark(w)
  PROVE  ~InMail(w) /\ ~InMail(w)'
<1>1. CASE Arrive(w) BY <1>1 DEF Arrive, Add, Edit, Comment, Follow, LoadForDelete, Begin, Goto, TypeOK, InMail
<1>2. CASE Pick(w)
  <2>1. PICK t \in Task : Take(w, t) \/ TakeForNothing(w, t) BY <1>2 DEF Pick
  <2>2. CASE Take(w, t)
    BY <2>2 DEF Take, Begin, Goto, TypeOK, InMail
  <2>3. CASE TakeForNothing(w, t) BY <2>3 DEF TakeForNothing, InMail
  <2> QED BY <2>1, <2>2, <2>3
<1>3. CASE Hourly(w) BY <1>3 DEF Hourly, Begin, Goto, TypeOK, InMail
<1>4. CASE OnCreate(w) \/ Cleanup(w) \/ Notify(w) \/ Count(w)
  BY <1>4 DEF OnCreate, Cleanup, Notify, Count, Goto, TypeOK, InMail
<1>5. CASE \/ Tell(w) \/ Delete(w) \/ DirectMail(w) \/ SubmitCreated(w)
  BY <1>5 DEF Tell, Delete, DirectMail, SubmitCreated, Done, Goto, TypeOK, InMail
<1>6. CASE Store(w) \/ Mention(w) \/ AddFollow(w)
  BY <1>6 DEF Store, Mention, AddFollow, Saved, AfterSave, Done, Goto, TypeOK, InMail
<1> QED BY <1>1, <1>2, <1>3, <1>4, <1>5, <1>6 DEF Proceed

LEMMA DirectKin ==
  ASSUME TypeOK, TypeOK', NEW w \in Workers, DirectMail(w)
  PROVE  Fading /\ \A x \in notes' : \E n \in notes : Kin(x, n) /\ x.digest = n.digest
<1> DEFINE F(n) == IF n.id \in mem[w].made /\ n.to \in Direct
                     THEN [n EXCEPT !.direct = @ + 1] ELSE n
<1>1. notes' = {F(n) : n \in notes} /\ UNCHANGED <<clock, serial>> BY DEF DirectMail
<1>2. \A n \in notes : Kin(F(n), n) /\ F(n).digest = n.digest BY DEF Kin, TypeOK, Note
<1> HIDE DEF F
<1> QED BY <1>1, <1>2 DEF Fading, TypeOK

LEMMA CollectingStep ==
  ASSUME TypeOK, TypeOK', Flows, Collecting, [Next]_vars,
         \A v, u \in TaskWorkers : v = u
  PROVE  Collecting'
<1>0. clock \in Nat /\ clock <= clock BY DEF TypeOK
<1>1. ASSUME NEW w \in Workers,
             \/ Arrive(w) \/ Pick(w) \/ Hourly(w)
             \/ Proceed(w) /\ ~Digest(w) /\ ~Mark(w) /\ ~Notify(w)
      PROVE  Collecting'
  <2>1. \A v \in Workers : InMail(v) \/ InMail(v)' => pc'[v] = pc[v] /\ mem'[v] = mem[v] BY <1>1, OtherLabels, Local
  <2>2. UNCHANGED <<clock, serial, crashes>>
    BY <1>1 DEF Arrive, Add, Edit, Comment, Follow, LoadForDelete, Pick, Take, TakeForNothing,
       Hourly, Proceed, OnCreate, Cleanup, Store, Mention, AddFollow, Tell, Delete,
       DirectMail, Count, SubmitCreated
  <2>3. CASE DirectMail(w) BY <2>1, <2>2, <2>3, DirectKin, CollectingCalm
  <2>4. CASE ~DirectMail(w)
    <3>1. notes' \subseteq notes
      BY <1>1, <2>4 DEF Arrive, Add, Edit, Comment, Follow, LoadForDelete, Pick, Take,
         TakeForNothing, Hourly, Proceed, OnCreate, Cleanup, Store, Mention, AddFollow, Tell,
         Delete, Count, SubmitCreated
    <3> QED BY <1>0, <2>1, <2>2, <3>1, SameFading, CollectingCalm
  <2> QED BY <2>3, <2>4
<1>2. CASE Tick \/ UNCHANGED vars
  BY <1>0, <1>2, SameFading, CollectingCalm DEF Tick, vars
<1>3. ASSUME NEW w \in Workers, Proceed(w) \/ Die(w) PROVE Collecting'
  BY <1>1, <1>3, DigestStep, MarkStep, NotifyCollecting, DieCollecting DEF Proceed
<1> QED BY <1>1, <1>2, <1>3, CollectStep DEF Next, Workers

\* With one task worker, and any number of web processes that delete, edit and
\* comment meanwhile, no notification is in two collected mails, but for as many
\* as workers died.
THEOREM CollectedOnceAlone ==
  ASSUME \A v, w \in TaskWorkers : v = w
  PROVE  Spec => []CollectedOnce
<1>1. Init => TypeOK /\ Flows /\ Collecting BY TypeInit, FlowInit, CollectingInit
<1>2. TypeOK /\ Flows /\ Collecting /\ [Next]_vars => TypeOK' /\ Flows' /\ Collecting'
  BY TypeStep, FlowStep, CollectingStep DEF Flows
<1>3. Collecting => CollectedOnce BY DEF Collecting
<1> QED BY <1>1, <1>2, <1>3, PTL DEF Spec

-----------------------------------------------------------------------------
\* A statement about a thing names one.
AboutThings ==
  \A w \in Indexers :
    indexer[w].do \in {"send", "schedule", "erase", "look", "update", "remove"} => X(w) \in Things
IndexTyped == IndexTypeOK /\ AboutThings

\* What a process that begins does to the others: a rebuild is not calm any more.
LEMMA IndexBegins ==
  ASSUME indexer \in [Indexers -> IndexJobs], NEW w \in Indexers, NEW job \in IndexJobs, Begins(w, job)
  PROVE  /\ indexer[w] = Unoccupied /\ indexer'[w] = job
         /\ indexer' \in [Indexers -> IndexJobs]
         /\ \A v \in Indexers \ {w} :
              IF Rebuilding(v) THEN indexer'[v] = [indexer[v] EXCEPT !.calm = FALSE]
              ELSE indexer'[v] = indexer[v]
         /\ mixed' = (mixed \/ \E v \in Indexers \ {w} : indexer[v] # Unoccupied)
BY DEF IndexJobs, Begins

LEMMA UnoccupiedTyped == Unoccupied \in IndexJobs /\ Unoccupied.do = "wait" /\ Unoccupied.calm
BY IndexAssumption DEF Unoccupied, IndexJobs, Versions

LEMMA IndexTypedInit == IndexInit => IndexTyped
<1> SUFFICES ASSUME IndexInit PROVE IndexTyped OBVIOUS
<1>1. 0 \in Versions /\ 0 \in 0..MaxOutages BY IndexAssumption DEF Versions
<1>2. IndexTypeOK BY <1>1, UnoccupiedTyped DEF IndexInit, IndexTypeOK
<1>3. AboutThings BY UnoccupiedTyped DEF IndexInit, AboutThings
<1> QED BY <1>2, <1>3 DEF IndexTyped

LEMMA IndexTypedStep == IndexTyped /\ [IndexNext]_index => IndexTyped'
<1> SUFFICES ASSUME IndexTyped, [IndexNext]_index PROVE IndexTyped' OBVIOUS
<1> USE IndexAssumption DEF IndexTyped, IndexTypeOK
<1>0. ASSUME NEW w \in Indexers, NEW job \in IndexJobs, Begins(w, job),
             job.do \in {"send", "schedule", "erase", "look", "update", "remove"} => job.x \in Things
      PROVE  indexer' \in [Indexers -> IndexJobs] /\ AboutThings' /\ mixed' \in BOOLEAN
  <2>1. /\ indexer'[w] = job /\ indexer' \in [Indexers -> IndexJobs]
        /\ \A v \in Indexers \ {w} :
             IF Rebuilding(v) THEN indexer'[v] = [indexer[v] EXCEPT !.calm = FALSE] ELSE indexer'[v] = indexer[v]
        /\ mixed' = (mixed \/ \E v \in Indexers \ {w} : indexer[v] # Unoccupied)
    BY <1>0, IndexBegins
  <2>2. \A v \in Indexers \ {w} : indexer'[v].do = indexer[v].do /\ indexer'[v].x = indexer[v].x BY <2>1 DEF IndexJobs
  <2>3. AboutThings' BY <1>0, <2>1, <2>2 DEF AboutThings, X
  <2> QED BY <2>1, <2>3
<1>1. ASSUME NEW w \in Indexers, SaveThing(w) PROVE IndexTyped'
  <2>1. PICK x \in Things \ ended :
          /\ saved[x] < MaxVersions /\ saved' = [saved EXCEPT ![x] = @ + 1]
          /\ Begins(w, [Unoccupied EXCEPT !.do = IF x \in GroupFiles THEN "schedule" ELSE "send",
                                          !.x = x, !.v = saved[x] + 1])
    BY <1>1 DEF SaveThing
  <2> DEFINE job == [Unoccupied EXCEPT !.do = IF x \in GroupFiles THEN "schedule" ELSE "send",
                                       !.x = x, !.v = saved[x] + 1]
  <2>2. saved[x] + 1 \in Versions BY <2>1 DEF Versions
  <2>3. job \in IndexJobs /\ job.x = x BY <2>2, UnoccupiedTyped DEF IndexJobs, Unoccupied
  <2>4. indexer' \in [Indexers -> IndexJobs] /\ AboutThings' /\ mixed' \in BOOLEAN BY <2>1, <2>3, <1>0
  <2>5. saved' \in [Things -> Versions] /\ \A y \in ended : saved'[y] = 0 BY <2>1, <2>2
  <2> QED BY <1>1, <2>4, <2>5 DEF SaveThing
<1>2. ASSUME NEW w \in Indexers, BlockFile(w) PROVE IndexTyped'
  <2>1. PICK x \in GroupFiles \ (blocked \cup ended) :
          blocked' = blocked \cup {x} /\ Begins(w, [Unoccupied EXCEPT !.do = "schedule", !.x = x])
    BY <1>2 DEF BlockFile
  <2> DEFINE job == [Unoccupied EXCEPT !.do = "schedule", !.x = x]
  <2>2. job \in IndexJobs /\ job.x = x BY UnoccupiedTyped DEF IndexJobs, Unoccupied
  <2>3. indexer' \in [Indexers -> IndexJobs] /\ AboutThings' /\ mixed' \in BOOLEAN BY <2>1, <2>2, <1>0
  <2> QED BY <1>2, <2>1, <2>3 DEF BlockFile
<1>3. ASSUME NEW w \in Indexers, DeleteThing(w) PROVE IndexTyped'
  <2>1. PICK x \in Things :
          /\ saved' = [saved EXCEPT ![x] = 0] /\ ended' = ended \cup {x} /\ blocked' = blocked \ {x}
          /\ Begins(w, [Unoccupied EXCEPT !.do = "erase", !.x = x])
    BY <1>3 DEF DeleteThing
  <2> DEFINE job == [Unoccupied EXCEPT !.do = "erase", !.x = x]
  <2>2. job \in IndexJobs /\ job.x = x BY UnoccupiedTyped DEF IndexJobs, Unoccupied
  <2>3. indexer' \in [Indexers -> IndexJobs] /\ AboutThings' /\ mixed' \in BOOLEAN BY <2>1, <2>2, <1>0
  <2>4. saved' \in [Things -> Versions] /\ \A y \in ended' : saved'[y] = 0 BY <2>1 DEF Versions
  <2> QED BY <1>3, <2>1, <2>3, <2>4 DEF DeleteThing
<1>4. ASSUME NEW w \in Indexers, TakeTask(w) PROVE IndexTyped'
  <2>0. PICK x \in Things : \E n \in waiting[x] :
          /\ waiting' = [waiting EXCEPT ![x] = @ \ {n}]
          /\ Begins(w, [Unoccupied EXCEPT !.do = "look", !.x = x, !.tries = n])
    BY <1>4 DEF TakeTask
  <2>1. PICK n \in waiting[x] :
          /\ waiting' = [waiting EXCEPT ![x] = @ \ {n}]
          /\ Begins(w, [Unoccupied EXCEPT !.do = "look", !.x = x, !.tries = n])
    BY <2>0
  <2> DEFINE job == [Unoccupied EXCEPT !.do = "look", !.x = x, !.tries = n]
  <2>2. job \in IndexJobs /\ job.x = x BY <2>1, UnoccupiedTyped DEF IndexJobs, Unoccupied
  <2>3. indexer' \in [Indexers -> IndexJobs] /\ AboutThings' /\ mixed' \in BOOLEAN BY <2>1, <2>2, <1>0
  <2> QED BY <1>4, <2>1, <2>3 DEF TakeTask
<1>5. ASSUME NEW w \in Indexers, Rebuild(w) PROVE IndexTyped'
  <2> DEFINE job == [Unoccupied EXCEPT !.do = "empty", !.calm = \A v \in Indexers : indexer[v] = Unoccupied]
  <2>2. job \in IndexJobs /\ job.do = "empty" BY UnoccupiedTyped DEF IndexJobs, Unoccupied
  <2>3. Begins(w, job) BY <1>5 DEF Rebuild
  <2> HIDE DEF job
  <2>4. indexer' \in [Indexers -> IndexJobs] /\ AboutThings' /\ mixed' \in BOOLEAN BY <2>2, <2>3, <1>0
  <2> QED BY <1>5, <2>4 DEF Rebuild
<1>6. ASSUME NEW w \in Indexers, Send(w) \/ ScheduleIndexDocument(w) \/ Erase(w) \/ LookUpThing(w) \/ WriteDocument(w)
      PROVE  IndexTyped'
  <2>1. X(w) \in Things BY <1>6 DEF AboutThings, Send, ScheduleIndexDocument, Erase, LookUpThing, WriteDocument, Doing
  <2>2. indexer[w] \in IndexJobs OBVIOUS
  <2>3. indexer[w].v \in Versions /\ indexer[w].tries \in 0..MaxTries /\ 0 \in Versions
    BY <2>2 DEF IndexJobs, Versions
  <2>4. \A do \in {"schedule", "remove", "update"}, v \in Versions :
          /\ [indexer[w] EXCEPT !.do = do] \in IndexJobs /\ [indexer[w] EXCEPT !.do = do].x = X(w)
          /\ [indexer[w] EXCEPT !.do = do, !.v = v] \in IndexJobs /\ [indexer[w] EXCEPT !.do = do, !.v = v].x = X(w)
    BY <2>2 DEF IndexJobs, X
  <2>5. doc' \in [Things -> Versions]
    BY <1>6, <2>1, <2>3 DEF Send, ScheduleIndexDocument, Erase, LookUpThing, WriteDocument
  <2>6. PICK next \in IndexJobs : indexer' = [indexer EXCEPT ![w] = next] /\ (next = Unoccupied \/ next.x = X(w))
    <3>1. CASE indexer' = [indexer EXCEPT ![w] = Unoccupied] BY <3>1, UnoccupiedTyped
    <3>2. CASE Send(w) /\ ~up
      BY <3>2, <2>2 DEF Send, Goes, IndexJobs, X
    <3>3. CASE LookUpThing(w) /\ Outcome(X(w)) # "wait"
      BY <3>3, <2>1, <2>4 DEF Outcome, LookUpThing
    <3> QED BY <1>6, <3>1, <3>2, <3>3 DEF Send, ScheduleIndexDocument, Erase, LookUpThing, WriteDocument, Rests
  <2>7. indexer' \in [Indexers -> IndexJobs] /\ AboutThings' BY <2>1, <2>6, UnoccupiedTyped DEF AboutThings, X
  <2>8. waiting' \in [Things -> SUBSET (0..MaxTries)]
    <3>1. 0 \in 0..MaxTries OBVIOUS
    <3>2. CASE WriteDocument(w)
      BY <2>3, <3>2, <2>1 DEF WriteDocument
    <3> QED BY <1>6, <2>1, <3>1, <3>2 DEF Send, ScheduleIndexDocument, Erase, LookUpThing
  <2>9. {mixed', missed'} \subseteq BOOLEAN
    BY <1>6 DEF Send, ScheduleIndexDocument, Erase, LookUpThing, WriteDocument, Rests, Goes
  <2> QED BY <1>6, <2>5, <2>7, <2>8, <2>9 DEF Send, ScheduleIndexDocument, Erase, LookUpThing, WriteDocument
<1>7. ASSUME NEW w \in Indexers, Empty(w) \/ Query(w) \/ FillIndex(w) \/ FillEnds(w) PROVE IndexTyped'
  <2>1. indexer[w] \in IndexJobs OBVIOUS
  <2>2. PICK next \in IndexJobs : indexer' = [indexer EXCEPT ![w] = next] /\ next.do \in {"wait", "query", "fill"}
    <3>1. CASE indexer' = [indexer EXCEPT ![w] = Unoccupied] BY <3>1, UnoccupiedTyped
    <3>2. CASE Empty(w) /\ up BY <3>2, <2>1 DEF Empty, Goes, IndexJobs
    <3>3. CASE Query(w)
      <4>1. {<<x, saved[x]>> : x \in {y \in Things : Listed(y)}} \in SUBSET (Things \X Versions) OBVIOUS
      <4> DEFINE rows == {<<x, saved[x]>> : x \in {y \in Things : Listed(y)}}
      <4> HIDE DEF rows
      <4>2. [indexer[w] EXCEPT !.do = "fill", !.left = rows] \in IndexJobs
            /\ [indexer[w] EXCEPT !.do = "fill", !.left = rows].do = "fill"
        BY <4>1, <2>1 DEF IndexJobs, rows
      <4>3. indexer' = [indexer EXCEPT ![w] = [indexer[w] EXCEPT !.do = "fill", !.left = rows]]
        BY <3>3 DEF Query, rows
      <4> QED BY <4>2, <4>3
    <3>4. CASE FillIndex(w)
      <4>1. PICK r \in indexer[w].left :
              indexer' = [indexer EXCEPT ![w].left = @ \ {r}, ![w].calm = @ /\ up]
        BY <3>4 DEF FillIndex
      <4>2. [indexer[w] EXCEPT !.left = @ \ {r}, !.calm = @ /\ up] \in IndexJobs BY <2>1 DEF IndexJobs
      <4>3. indexer' = [indexer EXCEPT ![w] = [indexer[w] EXCEPT !.left = @ \ {r}, !.calm = @ /\ up]] BY <4>1
      <4>4. [indexer[w] EXCEPT !.left = @ \ {r}, !.calm = @ /\ up].do = "fill"
        BY <3>4, <2>1 DEF FillIndex, Doing, IndexJobs
      <4> QED BY <4>2, <4>3, <4>4
    <3> QED BY <1>7, <3>1, <3>2, <3>3, <3>4 DEF Empty, FillEnds, Rests
  <2>3. indexer' \in [Indexers -> IndexJobs] /\ AboutThings' BY <2>2 DEF AboutThings, X
  <2>4. doc' \in [Things -> Versions]
    <3>1. \A r \in indexer[w].left : r[1] \in Things /\ r[2] \in Versions BY <2>1 DEF IndexJobs
    <3>2. CASE FillIndex(w)
      BY <3>2, <3>1 DEF FillIndex
    <3> QED BY <1>7, <3>2 DEF Empty, Query, FillEnds, Versions
  <2>5. {mixed', missed'} \subseteq BOOLEAN BY <1>7 DEF Empty, Query, FillIndex, FillEnds, Rests, Goes
  <2> QED BY <1>7, <2>3, <2>4, <2>5 DEF Empty, Query, FillIndex, FillEnds
<1>8. CASE OutOfReach \/ InReach \/ UNCHANGED index
  <2>1. UNCHANGED <<saved, blocked, ended, doc, waiting, indexer, mixed, missed>>
    BY <1>8 DEF OutOfReach, InReach, index
  <2>2. up' \in BOOLEAN BY <1>8 DEF OutOfReach, InReach, index
  <2>3. outages' \in 0..MaxOutages BY <1>8 DEF OutOfReach, InReach, index
  <2> QED BY <2>1, <2>2, <2>3 DEF AboutThings, X
<1> QED BY <1>1, <1>2, <1>3, <1>4, <1>5, <1>6, <1>7, <1>8 DEF IndexNext, IndexStep

\* At most one rebuild, which emptied the index.
OneRebuild ==
  /\ \A w, v \in Indexers : Rebuilding(w) /\ Rebuilding(v) => w = v
  /\ \A w \in Indexers : indexer[w].do \in {"query", "fill"} => missed
\* A rebuild that is calm is alone and has written what it has not left.
CalmFills ==
  \A w \in Indexers : Rebuilding(w) /\ indexer[w].calm =>
    /\ \A v \in Indexers \ {w} : indexer[v] = Unoccupied
    /\ Doing(w, "query") => \A x \in Things : doc[x] = 0
    /\ Doing(w, "fill") =>
         /\ indexer[w].left \subseteq {<<x, saved[x]>> : x \in {y \in Things : Listed(y)}}
         /\ \A x \in Things : doc[x] = IF Listed(x) /\ <<x, saved[x]>> \notin indexer[w].left THEN saved[x] ELSE 0
OneAtWork == ~mixed => \A w, v \in Indexers : indexer[w] # Unoccupied /\ indexer[v] # Unoccupied => w = v
CurrentWrites ==
  \A w \in Indexers :
    /\ indexer[w].do \in {"send", "update"} => indexer[w].v = saved[X(w)] /\ saved[X(w)] # 0
    /\ indexer[w].do \in {"erase", "remove"} => saved[X(w)] = 0
OnItsWay(x) ==
  \/ doc[x] = saved[x] \/ waiting[x] # {}
  \/ \E w \in Indexers : X(w) = x /\ indexer[w].do \in {"send", "schedule", "erase", "look", "update", "remove"}
InHand ==
  ~mixed /\ ~missed =>
    /\ CurrentWrites
    /\ \A x \in Things : x \in blocked \/ OnItsWay(x)
    /\ \A x \in Things : doc[x] # 0 /\ saved[x] = 0 => \E w \in Indexers : X(w) = x /\ Doing(w, "erase")
IndexInv == IndexTyped /\ OneRebuild /\ CalmFills /\ OneAtWork /\ InHand

-----------------------------------------------------------------------------
\* What every job that begins does to the processes.
LEMMA BeginsShape ==
  ASSUME IndexTyped, NEW w \in Indexers,
         SaveThing(w) \/ BlockFile(w) \/ DeleteThing(w) \/ TakeTask(w) \/ Rebuild(w)
  PROVE  /\ indexer[w] = Unoccupied
         /\ indexer'[w].do \in {"send", "schedule", "erase", "look", "empty"}
         /\ indexer'[w].do = "empty" => Rebuild(w)
         /\ \A v \in Indexers \ {w} :
              /\ indexer'[v].do = indexer[v].do /\ indexer'[v].x = indexer[v].x
              /\ indexer'[v].v = indexer[v].v /\ indexer'[v].left = indexer[v].left
              /\ Rebuilding(v) => ~indexer'[v].calm
              /\ indexer[v] = Unoccupied => indexer'[v] = Unoccupied
              /\ indexer'[v] = Unoccupied => indexer[v] = Unoccupied
         /\ ~mixed' => ~mixed /\ \A v \in Indexers \ {w} : indexer[v] = Unoccupied
         /\ missed' = missed /\ doc' = doc
<1>1. PICK job : Begins(w, job) /\ job.do \in {"send", "schedule", "erase", "look", "empty"}
                 /\ (job.do = "empty" => Rebuild(w))
  <2>1. CASE Rebuild(w)
    <3> DEFINE job == [Unoccupied EXCEPT !.do = "empty", !.calm = \A v \in Indexers : indexer[v] = Unoccupied]
    <3>1. job.do = "empty" BY DEF Unoccupied
    <3>2. Begins(w, job) BY <2>1 DEF Rebuild
    <3> HIDE DEF job
    <3> QED BY <2>1, <3>1, <3>2
  <2>2. CASE SaveThing(w)
    <3>1. PICK x \in Things \ ended :
            Begins(w, [Unoccupied EXCEPT !.do = IF x \in GroupFiles THEN "schedule" ELSE "send",
                                         !.x = x, !.v = saved[x] + 1])
      BY <2>2 DEF SaveThing
    <3> DEFINE job == [Unoccupied EXCEPT !.do = IF x \in GroupFiles THEN "schedule" ELSE "send",
                                         !.x = x, !.v = saved[x] + 1]
    <3>2. job.do \in {"schedule", "send"} BY DEF Unoccupied
    <3>3. Begins(w, job) BY <3>1
    <3> HIDE DEF job
    <3> QED BY <3>2, <3>3
  <2>3. CASE BlockFile(w)
    <3>1. PICK x \in Things : Begins(w, [Unoccupied EXCEPT !.do = "schedule", !.x = x])
      BY <2>3, IndexAssumption DEF BlockFile
    <3> DEFINE job == [Unoccupied EXCEPT !.do = "schedule", !.x = x]
    <3>2. job.do = "schedule" BY DEF Unoccupied
    <3>3. Begins(w, job) BY <3>1
    <3> HIDE DEF job
    <3> QED BY <3>2, <3>3
  <2>4. CASE DeleteThing(w)
    <3>1. PICK x \in Things : Begins(w, [Unoccupied EXCEPT !.do = "erase", !.x = x]) BY <2>4 DEF DeleteThing
    <3> DEFINE job == [Unoccupied EXCEPT !.do = "erase", !.x = x]
    <3>2. job.do = "erase" BY DEF Unoccupied
    <3>3. Begins(w, job) BY <3>1
    <3> HIDE DEF job
    <3> QED BY <3>2, <3>3
  <2>5. CASE TakeTask(w)
    <3>0. PICK x \in Things : \E n \in waiting[x] : Begins(w, [Unoccupied EXCEPT !.do = "look", !.x = x, !.tries = n])
      BY <2>5 DEF TakeTask
    <3>1. PICK n \in waiting[x] : Begins(w, [Unoccupied EXCEPT !.do = "look", !.x = x, !.tries = n]) BY <3>0
    <3> DEFINE job == [Unoccupied EXCEPT !.do = "look", !.x = x, !.tries = n]
    <3>2. job.do = "look" BY DEF Unoccupied
    <3>3. Begins(w, job) BY <3>1
    <3> HIDE DEF job
    <3> QED BY <3>2, <3>3
  <2> QED BY <2>1, <2>2, <2>3, <2>4, <2>5
<1>2. /\ indexer[w] = Unoccupied /\ indexer'[w] = job
      /\ \A v \in Indexers \ {w} :
           IF Rebuilding(v) THEN indexer'[v] = [indexer[v] EXCEPT !.calm = FALSE] ELSE indexer'[v] = indexer[v]
      /\ mixed' = (mixed \/ \E v \in Indexers \ {w} : indexer[v] # Unoccupied)
  BY <1>1 DEF Begins, IndexTyped, IndexTypeOK
<1>3. \A v \in Indexers \ {w} :
        /\ indexer'[v].do = indexer[v].do /\ indexer'[v].x = indexer[v].x
        /\ indexer'[v].v = indexer[v].v /\ indexer'[v].left = indexer[v].left
        /\ Rebuilding(v) => ~indexer'[v].calm
  BY <1>2 DEF IndexTyped, IndexTypeOK, IndexJobs
<1>4. \A v \in Indexers \ {w} : Rebuilding(v) => indexer[v] # Unoccupied /\ indexer'[v] # Unoccupied
  BY <1>3, UnoccupiedTyped DEF Rebuilding
<1>5. missed' = missed /\ doc' = doc BY DEF SaveThing, BlockFile, DeleteThing, TakeTask, Rebuild
<1> QED BY <1>1, <1>2, <1>3, <1>4, <1>5

\* What every statement of a job does to the processes.
LEMMA MovesShape ==
  ASSUME IndexTyped, NEW w \in Indexers,
         \/ Send(w) \/ ScheduleIndexDocument(w) \/ Erase(w) \/ LookUpThing(w) \/ WriteDocument(w)
         \/ Empty(w) \/ Query(w) \/ FillIndex(w) \/ FillEnds(w)
  PROVE  /\ indexer[w] # Unoccupied /\ indexer[w].do # "wait"
         /\ \A v \in Indexers \ {w} : indexer'[v] = indexer[v]
         /\ mixed' = mixed
         /\ indexer'[w].do \in {"query", "fill"} => indexer[w].do \in {"empty", "query", "fill"}
         /\ indexer'[w].do # "empty"
<1>1. indexer[w] # Unoccupied /\ indexer[w].do # "wait"
  BY UnoccupiedTyped DEF Send, ScheduleIndexDocument, Erase, LookUpThing, WriteDocument, Empty, Query,
     FillIndex, FillEnds, Doing
<1>3. indexer[w] \in IndexJobs BY DEF IndexTyped, IndexTypeOK
<1>4. Send(w) => indexer'[w].do \in {"wait", "schedule"}
  BY <1>3, UnoccupiedTyped DEF Send, Rests, Goes, IndexTyped, IndexTypeOK, IndexJobs
<1>5. LookUpThing(w) => indexer'[w].do \in {"wait", "remove", "update"}
  BY <1>3, UnoccupiedTyped DEF Outcome, LookUpThing, IndexTyped, IndexTypeOK, IndexJobs
<1>6. Empty(w) => indexer'[w].do \in {"wait", "query"}
  BY <1>3, UnoccupiedTyped DEF Empty, Rests, Goes, IndexTyped, IndexTypeOK, IndexJobs
<1>7. Query(w) => indexer'[w].do = "fill"
  <2> DEFINE rows == {<<x, saved[x]>> : x \in {y \in Things : Listed(y)}}
  <2> HIDE DEF rows
  <2> SUFFICES ASSUME Query(w) PROVE indexer'[w].do = "fill" OBVIOUS
  <2>1. indexer' = [indexer EXCEPT ![w] = [indexer[w] EXCEPT !.do = "fill", !.left = rows]] BY DEF Query, rows
  <2> QED BY <2>1, <1>3 DEF IndexTyped, IndexTypeOK, IndexJobs
<1>8. FillIndex(w) => indexer'[w].do = "fill"
  <2> SUFFICES ASSUME FillIndex(w) PROVE indexer'[w].do = "fill" OBVIOUS
  <2>1. PICK r : indexer' = [indexer EXCEPT ![w] = [indexer[w] EXCEPT !.left = @ \ {r}, !.calm = @ /\ up]]
    BY DEF FillIndex
  <2> QED BY <2>1, <1>3 DEF FillIndex, Doing, IndexTyped, IndexTypeOK, IndexJobs
<1>9. ScheduleIndexDocument(w) \/ Erase(w) \/ WriteDocument(w) \/ FillEnds(w) => indexer'[w].do = "wait"
  BY UnoccupiedTyped DEF ScheduleIndexDocument, Erase, WriteDocument, FillEnds, Rests, IndexTyped, IndexTypeOK
<1>10. (\A v \in Indexers \ {w} : indexer'[v] = indexer[v]) /\ mixed' = mixed
  <2>1. \A next : indexer' = [indexer EXCEPT ![w] = next] => \A v \in Indexers \ {w} : indexer'[v] = indexer[v]
    BY DEF IndexTyped, IndexTypeOK
  <2>2. CASE Query(w)
    <3> DEFINE rows == {<<x, saved[x]>> : x \in {y \in Things : Listed(y)}}
    <3>1. indexer' = [indexer EXCEPT ![w] = [indexer[w] EXCEPT !.do = "fill", !.left = rows]] /\ mixed' = mixed
      BY <2>2 DEF Query
    <3> HIDE DEF rows
    <3> QED BY <3>1, <2>1
  <2>3. CASE FillIndex(w)
    BY <2>3, <2>1 DEF FillIndex
  <2>4. CASE LookUpThing(w) BY <2>4, <2>1 DEF LookUpThing
  <2>5. CASE Rests(w) BY <2>5, <2>1 DEF Rests
  <2>6. CASE Goes(w, "schedule") \/ Goes(w, "query") BY <2>6 DEF Goes, IndexTyped, IndexTypeOK
  <2> QED BY <2>2, <2>3, <2>4, <2>5, <2>6
          DEF Send, ScheduleIndexDocument, Erase, WriteDocument, Empty, FillEnds
<1> QED BY <1>1, <1>4, <1>5, <1>6, <1>7, <1>8, <1>9, <1>10 DEF Empty, Query, FillIndex, Doing

-----------------------------------------------------------------------------
BeginStep(w) == SaveThing(w) \/ BlockFile(w) \/ DeleteThing(w) \/ TakeTask(w) \/ Rebuild(w)
MoveStep(w) ==
  \/ Send(w) \/ ScheduleIndexDocument(w) \/ Erase(w) \/ LookUpThing(w) \/ WriteDocument(w)
  \/ Empty(w) \/ Query(w) \/ FillIndex(w) \/ FillEnds(w)

LEMMA OneRebuildStep == IndexTyped /\ OneRebuild /\ [IndexNext]_index => OneRebuild'
<1> SUFFICES ASSUME IndexTyped, OneRebuild, [IndexNext]_index PROVE OneRebuild' OBVIOUS
<1>1. ASSUME NEW w \in Indexers, BeginStep(w) PROVE OneRebuild'
  <2>1. /\ indexer'[w].do \in {"send", "schedule", "erase", "look", "empty"}
        /\ indexer'[w].do = "empty" => Rebuild(w)
        /\ \A v \in Indexers \ {w} : indexer'[v].do = indexer[v].do
        /\ missed' = missed
    BY <1>1, BeginsShape DEF BeginStep
  <2> QED BY <2>1 DEF OneRebuild, Rebuilding, Rebuild
<1>2. ASSUME NEW w \in Indexers, MoveStep(w) PROVE OneRebuild'
  <2>1. /\ indexer[w].do # "wait"
        /\ \A v \in Indexers \ {w} : indexer'[v] = indexer[v]
        /\ indexer'[w].do \in {"query", "fill"} => indexer[w].do \in {"empty", "query", "fill"}
        /\ indexer'[w].do # "empty"
    BY <1>2, MovesShape DEF MoveStep
  <2>2. \A v, u \in Indexers : Rebuilding(v)' /\ Rebuilding(u)' => v = u BY <2>1 DEF OneRebuild, Rebuilding
  <2>3. ASSUME NEW v \in Indexers, indexer'[v].do \in {"query", "fill"} PROVE missed'
    <3>1. CASE v # w
      <4>1. indexer[v].do \in {"query", "fill"} BY <3>1, <2>1, <2>3
      <4>2. missed /\ Rebuilding(v) BY <4>1 DEF OneRebuild, Rebuilding
      <4>3. ~Rebuilding(w) BY <4>2, <3>1 DEF OneRebuild
      <4> QED BY <4>2, <4>3, <1>2 DEF MoveStep, Rebuilding, Send, ScheduleIndexDocument, Erase, LookUpThing,
                 WriteDocument, Empty, Query, FillIndex, FillEnds, Doing
    <3>2. CASE v = w
      <4>1. CASE Empty(w) BY <4>1, <3>2, <2>3, UnoccupiedTyped DEF Empty, Rests, IndexTyped, IndexTypeOK
      <4>2. CASE Query(w) \/ FillIndex(w) BY <4>2 DEF Query, FillIndex, Doing, OneRebuild
      <4>3. CASE FillEnds(w) BY <4>3, <3>2, <2>3, UnoccupiedTyped DEF FillEnds, Rests, IndexTyped, IndexTypeOK
      <4> QED BY <4>1, <4>2, <4>3, <1>2, <3>2, <2>3, <2>1 DEF MoveStep, Send, ScheduleIndexDocument, Erase,
                 LookUpThing, WriteDocument, Doing
    <3> QED BY <3>1, <3>2
  <2> QED BY <2>2, <2>3 DEF OneRebuild
<1>3. CASE OutOfReach \/ InReach \/ UNCHANGED index BY <1>3 DEF OutOfReach, InReach, index, OneRebuild, Rebuilding
<1> QED BY <1>1, <1>2, <1>3 DEF IndexNext, IndexStep, BeginStep, MoveStep

LEMMA OneAtWorkStep == IndexTyped /\ OneAtWork /\ [IndexNext]_index => OneAtWork'
<1> SUFFICES ASSUME IndexTyped, OneAtWork, [IndexNext]_index PROVE OneAtWork' OBVIOUS
<1>1. ASSUME NEW w \in Indexers, BeginStep(w) PROVE OneAtWork'
  BY <1>1, BeginsShape DEF BeginStep, OneAtWork
<1>2. ASSUME NEW w \in Indexers, MoveStep(w) PROVE OneAtWork'
  BY <1>2, MovesShape DEF MoveStep, OneAtWork
<1>3. CASE OutOfReach \/ InReach \/ UNCHANGED index BY <1>3 DEF OutOfReach, InReach, index, OneAtWork
<1> QED BY <1>1, <1>2, <1>3 DEF IndexNext, IndexStep, BeginStep, MoveStep

LEMMA CalmFillsStep == IndexTyped /\ CalmFills /\ [IndexNext]_index => CalmFills'
<1> SUFFICES ASSUME IndexTyped, CalmFills, [IndexNext]_index PROVE CalmFills' OBVIOUS
<1>1. ASSUME NEW w \in Indexers, BeginStep(w) PROVE CalmFills'
  <2>1. /\ indexer'[w].do \in {"send", "schedule", "erase", "look", "empty"}
        /\ indexer'[w].do = "empty" => Rebuild(w)
        /\ \A v \in Indexers \ {w} :
             /\ indexer'[v].do = indexer[v].do
             /\ Rebuilding(v) => ~indexer'[v].calm
             /\ indexer[v] = Unoccupied => indexer'[v] = Unoccupied
    BY <1>1, BeginsShape DEF BeginStep
  <2>2. Rebuild(w) /\ indexer'[w].calm => \A v \in Indexers : indexer[v] = Unoccupied
    <3> DEFINE still == \A v \in Indexers : indexer[v] = Unoccupied
    <3> DEFINE job == [Unoccupied EXCEPT !.do = "empty", !.calm = still]
    <3> SUFFICES ASSUME Rebuild(w) PROVE indexer'[w].calm => still OBVIOUS
    <3>1. indexer'[w] = job BY DEF Rebuild, Begins
    <3>2. job.calm = still BY DEF Unoccupied
    <3> QED BY <3>1, <3>2
  <2>3. ASSUME NEW v \in Indexers, Rebuilding(v)', indexer'[v].calm
        PROVE  v = w /\ indexer'[w].do = "empty" /\ \A u \in Indexers \ {w} : indexer'[u] = Unoccupied
    BY <2>1, <2>3, <2>2 DEF Rebuilding
  <2> QED BY <2>3 DEF CalmFills, Doing
<1>2. ASSUME NEW w \in Indexers, MoveStep(w) PROVE CalmFills'
  <2>1. /\ indexer[w] # Unoccupied
        /\ \A v \in Indexers \ {w} : indexer'[v] = indexer[v]
        /\ indexer'[w].do \in {"query", "fill"} => indexer[w].do \in {"empty", "query", "fill"}
        /\ indexer'[w].do # "empty"
    BY <1>2, MovesShape DEF MoveStep
  <2>2. ASSUME NEW v \in Indexers, Rebuilding(v)', indexer'[v].calm PROVE v = w /\ Rebuilding(w)
    BY <2>1, <2>2 DEF CalmFills, Rebuilding
  <2> SUFFICES ASSUME Rebuilding(w)', indexer'[w].calm, Rebuilding(w)
               PROVE  /\ \A v \in Indexers \ {w} : indexer'[v] = Unoccupied
                      /\ Doing(w, "query")' => \A x \in Things : doc'[x] = 0
                      /\ Doing(w, "fill")' =>
                           /\ indexer'[w].left \subseteq {<<x, saved'[x]>> : x \in {y \in Things : Listed(y)'}}
                           /\ \A x \in Things : doc'[x] = IF Listed(x)' /\ <<x, saved'[x]>> \notin indexer'[w].left
                                                         THEN saved'[x] ELSE 0
    BY <2>2 DEF CalmFills
  <2>3. indexer[w].calm => \A v \in Indexers \ {w} : indexer'[v] = Unoccupied BY <2>1 DEF CalmFills
  <2>4. CASE Empty(w)
    <3>1. up BY <2>4, UnoccupiedTyped DEF Empty, Rests, Rebuilding, IndexTyped, IndexTypeOK
    <3>2. indexer'[w].do = "query" /\ indexer'[w].calm = indexer[w].calm
      BY <2>4, <3>1 DEF Empty, Goes, IndexTyped, IndexTypeOK, IndexJobs
    <3> QED BY <2>3, <2>4, <3>1, <3>2 DEF Empty, Doing
  <2>5. CASE Query(w)
    <3> DEFINE rows == {<<x, saved[x]>> : x \in {y \in Things : Listed(y)}}
    <3>1. indexer' = [indexer EXCEPT ![w] = [indexer[w] EXCEPT !.do = "fill", !.left = rows]]
          /\ UNCHANGED <<saved, blocked, doc>>
      BY <2>5 DEF Query
    <3>2. indexer[w] \in IndexJobs BY DEF IndexTyped, IndexTypeOK
    <3> HIDE DEF rows
    <3>3. indexer'[w].do = "fill" /\ indexer'[w].left = rows /\ indexer'[w].calm = indexer[w].calm
      BY <3>1, <3>2 DEF IndexTyped, IndexTypeOK, IndexJobs
    <3>4. \A x \in Things : doc[x] = 0 BY <3>3, <2>5 DEF CalmFills, Query, Doing
    <3>5. \A x \in Things : Listed(x)' <=> Listed(x) BY <3>1 DEF Listed
    <3>6. \A x \in Things : Listed(x) => <<x, saved[x]>> \in rows BY DEF rows
    <3>7. rows \subseteq {<<x, saved'[x]>> : x \in {y \in Things : Listed(y)'}} BY <3>1, <3>5 DEF rows
    <3>8. \A x \in Things : doc'[x] = 0 /\ (Listed(x)' => <<x, saved'[x]>> \in indexer'[w].left)
      BY <3>1, <3>3, <3>4, <3>5, <3>6
    <3> QED BY <2>3, <3>3, <3>7, <3>8 DEF Doing
  <2>6. CASE FillIndex(w)
    <3>1. PICK r \in indexer[w].left :
            /\ doc' = IF up THEN [doc EXCEPT ![r[1]] = r[2]] ELSE doc
            /\ indexer' = [indexer EXCEPT ![w] = [indexer[w] EXCEPT !.left = @ \ {r}, !.calm = @ /\ up]]
      BY <2>6 DEF FillIndex
    <3>2. indexer[w] \in IndexJobs BY DEF IndexTyped, IndexTypeOK
    <3>3. indexer'[w].do = "fill" /\ indexer'[w].left = indexer[w].left \ {r} /\ indexer[w].calm /\ up
      BY <3>1, <3>2, <2>6 DEF FillIndex, Doing, IndexTyped, IndexTypeOK, IndexJobs
    <3>4. UNCHANGED <<saved, blocked>> BY <2>6 DEF FillIndex
    <3>5. /\ indexer[w].left \subseteq {<<x, saved[x]>> : x \in {y \in Things : Listed(y)}}
          /\ \A x \in Things : doc[x] = IF Listed(x) /\ <<x, saved[x]>> \notin indexer[w].left THEN saved[x] ELSE 0
      BY <2>6, <3>3 DEF CalmFills, FillIndex, Doing
    <3>6. PICK y \in Things : Listed(y) /\ r = <<y, saved[y]>> BY <3>1, <3>5
    <3>7. doc' = [doc EXCEPT ![y] = saved[y]] BY <3>1, <3>3, <3>6
    <3>8. \A x \in Things : Listed(x)' <=> Listed(x) BY <3>4 DEF Listed
    <3>9. indexer'[w].left \subseteq {<<x, saved'[x]>> : x \in {z \in Things : Listed(z)'}} BY <3>3, <3>4, <3>5, <3>8
    <3>10. ASSUME NEW x \in Things
           PROVE  doc'[x] = IF Listed(x)' /\ <<x, saved'[x]>> \notin indexer'[w].left THEN saved'[x] ELSE 0
      <4>1. CASE x = y
        <5>1. doc'[x] = saved[x] BY <4>1, <3>7 DEF IndexTyped, IndexTypeOK
        <5>2. <<x, saved'[x]>> \notin indexer'[w].left BY <4>1, <3>3, <3>4, <3>6
        <5> QED BY <5>1, <5>2, <3>4, <3>6, <3>8, <4>1
      <4>2. CASE x # y
        <5>1. doc'[x] = doc[x] BY <4>2, <3>7 DEF IndexTyped, IndexTypeOK
        <5>2. <<x, saved'[x]>> \in indexer'[w].left <=> <<x, saved[x]>> \in indexer[w].left BY <4>2, <3>3, <3>4, <3>6
        <5> QED BY <5>1, <5>2, <3>4, <3>5, <3>8
      <4> QED BY <4>1, <4>2
    <3> QED BY <2>3, <3>3, <3>9, <3>10 DEF Doing
  <2>7. CASE FillEnds(w) BY <2>7, UnoccupiedTyped DEF FillEnds, Rests, Rebuilding, IndexTyped, IndexTypeOK
  <2> QED BY <1>2, <2>4, <2>5, <2>6, <2>7 DEF MoveStep, Rebuilding, Send, ScheduleIndexDocument, Erase, LookUpThing,
          WriteDocument, Doing
<1>3. CASE OutOfReach \/ InReach \/ UNCHANGED index
  <2>1. UNCHANGED <<saved, blocked, doc, indexer>> BY <1>3 DEF OutOfReach, InReach, index
  <2> QED BY <2>1 DEF CalmFills, Rebuilding, Doing, Listed
<1> QED BY <1>1, <1>2, <1>3 DEF IndexNext, IndexStep, BeginStep, MoveStep

\* With nothing at work every row is in the index or a task waits to bring it.
LEMMA IdleInHand ==
  ASSUME InHand, ~mixed, ~missed, \A v \in Indexers : indexer[v] = Unoccupied
  PROVE  /\ \A x \in Things : x \in blocked \/ doc[x] = saved[x] \/ waiting[x] # {}
         /\ \A x \in Things : doc[x] # 0 => saved[x] # 0
BY UnoccupiedTyped DEF InHand, OnItsWay, Doing

\* With one process at work a row that is on its way is the one it is about.
LEMMA AloneInHand ==
  ASSUME InHand, ~mixed, ~missed, NEW w \in Indexers, \A v \in Indexers \ {w} : indexer[v] = Unoccupied
  PROVE  /\ \A x \in Things : \/ x \in blocked \/ doc[x] = saved[x] \/ waiting[x] # {}
                              \/ /\ X(w) = x
                                 /\ indexer[w].do \in {"send", "schedule", "erase", "look", "update", "remove"}
         /\ \A x \in Things : doc[x] # 0 /\ saved[x] = 0 => X(w) = x /\ Doing(w, "erase")
         /\ indexer[w].do \in {"send", "update"} => indexer[w].v = saved[X(w)] /\ saved[X(w)] # 0
         /\ indexer[w].do \in {"erase", "remove"} => saved[X(w)] = 0
BY UnoccupiedTyped DEF InHand, OnItsWay, Doing, CurrentWrites

\* The other way round: what has to hold of the one process at work.
LEMMA StillInHand ==
  ASSUME NEW w \in Indexers, \A v \in Indexers \ {w} : indexer'[v] = Unoccupied,
         \A x \in Things : \/ x \in blocked' \/ doc'[x] = saved'[x] \/ waiting'[x] # {}
                           \/ /\ X(w)' = x
                              /\ indexer'[w].do \in {"send", "schedule", "erase", "look", "update", "remove"},
         \A x \in Things : doc'[x] # 0 /\ saved'[x] = 0 => X(w)' = x /\ Doing(w, "erase")',
         indexer'[w].do \in {"send", "update"} => indexer'[w].v = saved'[X(w)'] /\ saved'[X(w)'] # 0,
         indexer'[w].do \in {"erase", "remove"} => saved'[X(w)'] = 0
  PROVE  InHand'
BY UnoccupiedTyped DEF CurrentWrites, X, OnItsWay, InHand, Doing

LEMMA BeginInHand ==
  ASSUME IndexTyped, InHand, NEW w \in Indexers, BeginStep(w)
  PROVE  InHand'
<1> SUFFICES ASSUME ~mixed', ~missed' PROVE InHand' BY DEF InHand
<1>1. /\ ~mixed /\ ~missed /\ indexer[w] = Unoccupied /\ doc' = doc
      /\ indexer'[w].do \in {"send", "schedule", "erase", "look", "empty"}
      /\ indexer'[w].do = "empty" => Rebuild(w)
      /\ \A v \in Indexers \ {w} : indexer[v] = Unoccupied /\ indexer'[v] = Unoccupied
  BY BeginsShape DEF BeginStep
<1>2. /\ \A x \in Things : x \in blocked \/ doc[x] = saved[x] \/ waiting[x] # {}
      /\ \A x \in Things : doc[x] # 0 => saved[x] # 0
  BY <1>1, IdleInHand
<1>3. CASE SaveThing(w)
  <2>1. PICK x \in Things \ ended :
          /\ saved' = [saved EXCEPT ![x] = @ + 1]
          /\ Begins(w, [Unoccupied EXCEPT !.do = IF x \in GroupFiles THEN "schedule" ELSE "send",
                                          !.x = x, !.v = saved[x] + 1])
    BY <1>3 DEF SaveThing
  <2> DEFINE job == [Unoccupied EXCEPT !.do = IF x \in GroupFiles THEN "schedule" ELSE "send",
                                       !.x = x, !.v = saved[x] + 1]
  <2>2. indexer'[w] = job BY <2>1 DEF Begins
  <2>3. job.do \in {"send", "schedule"} /\ job.x = x /\ job.v = saved[x] + 1 BY DEF Unoccupied
  <2>4. saved[x] + 1 # 0 /\ saved'[x] = saved[x] + 1 /\ \A y \in Things \ {x} : saved'[y] = saved[y]
    BY <2>1 DEF IndexTyped, IndexTypeOK, Versions
  <2>5. UNCHANGED <<blocked, waiting>> BY <1>3 DEF SaveThing
  <2> HIDE DEF job
  <2>6. /\ \A y \in Things : \/ y \in blocked' \/ doc'[y] = saved'[y] \/ waiting'[y] # {}
                             \/ (X(w)' = y /\ indexer'[w].do \in {"send", "schedule"})
        /\ \A y \in Things : doc'[y] # 0 => saved'[y] # 0
    BY <1>1, <1>2, <2>2, <2>3, <2>4, <2>5 DEF X
  <2> QED BY <1>1, <2>2, <2>3, <2>4, <2>6, StillInHand DEF X
<1>4. CASE BlockFile(w)
  <2>1. UNCHANGED <<saved, waiting>> /\ blocked \subseteq blocked' BY <1>4 DEF BlockFile
  <2>2. indexer'[w].do = "schedule"
    BY <1>4 DEF BlockFile, Begins, Unoccupied
  <2> QED BY <1>1, <1>2, <2>1, <2>2, StillInHand
<1>5. CASE DeleteThing(w)
  <2>1. PICK x \in Things :
          /\ saved' = [saved EXCEPT ![x] = 0] /\ blocked' = blocked \ {x}
          /\ Begins(w, [Unoccupied EXCEPT !.do = "erase", !.x = x])
    BY <1>5 DEF DeleteThing
  <2>2. indexer'[w].do = "erase" /\ indexer'[w].x = x BY <2>1 DEF Begins, Unoccupied
  <2>3. saved'[x] = 0 /\ \A y \in Things \ {x} : saved'[y] = saved[y] BY <2>1 DEF IndexTyped, IndexTypeOK
  <2>4. UNCHANGED waiting BY <1>5 DEF DeleteThing
  <2> QED BY <1>1, <1>2, <2>1, <2>2, <2>3, <2>4, StillInHand DEF X, Doing
<1>6. CASE TakeTask(w)
  <2>1. PICK x \in Things : \E n \in waiting[x] :
          /\ waiting' = [waiting EXCEPT ![x] = @ \ {n}]
          /\ Begins(w, [Unoccupied EXCEPT !.do = "look", !.x = x, !.tries = n])
    BY <1>6 DEF TakeTask
  <2>2. indexer'[w].do = "look" /\ indexer'[w].x = x BY <2>1 DEF Begins, Unoccupied
  <2>3. \A y \in Things \ {x} : waiting'[y] = waiting[y] BY <2>1 DEF IndexTyped, IndexTypeOK
  <2>4. UNCHANGED <<saved, blocked>> BY <1>6 DEF TakeTask
  <2> QED BY <1>1, <1>2, <2>2, <2>3, <2>4, StillInHand DEF X
<1>7. CASE Rebuild(w)
  <2>1. UNCHANGED <<saved, blocked, waiting>> BY <1>7 DEF Rebuild
  <2>2. indexer'[w].do = "empty"
    <3> DEFINE job == [Unoccupied EXCEPT !.do = "empty", !.calm = \A v \in Indexers : indexer[v] = Unoccupied]
    <3>1. indexer'[w] = job BY <1>7 DEF Rebuild, Begins
    <3>2. job.do = "empty" BY DEF Unoccupied
    <3> QED BY <3>1, <3>2
  <2> QED BY <1>1, <1>2, <2>1, <2>2, StillInHand
<1> QED BY <1>3, <1>4, <1>5, <1>6, <1>7 DEF BeginStep

LEMMA MoveInHand ==
  ASSUME IndexTyped, OneRebuild, CalmFills, OneAtWork, InHand, NEW w \in Indexers, MoveStep(w)
  PROVE  InHand'
<1> SUFFICES ASSUME ~mixed', ~missed' PROVE InHand' BY DEF InHand
<1>1. /\ indexer[w] # Unoccupied /\ indexer[w].do # "wait" /\ ~mixed
      /\ \A v \in Indexers \ {w} : indexer'[v] = indexer[v]
  BY MovesShape DEF MoveStep
<1>2. \A v \in Indexers \ {w} : indexer[v] = Unoccupied /\ indexer'[v] = Unoccupied BY <1>1 DEF OneAtWork
<1>3. CASE FillEnds(w)
  <2>1. /\ Doing(w, "fill") /\ indexer[w].left = {} /\ (missed => indexer[w].calm)
        /\ UNCHANGED <<saved, blocked, doc, waiting>> /\ indexer'[w] = Unoccupied
    BY <1>3 DEF FillEnds, Rests, IndexTyped, IndexTypeOK
  <2>2. indexer[w].calm BY <2>1 DEF OneRebuild, Doing
  <2>3. \A x \in Things : doc[x] = IF Listed(x) THEN saved[x] ELSE 0 BY <2>1, <2>2 DEF CalmFills, Rebuilding, Doing
  <2>4. \A x \in Things : (x \in blocked' \/ doc'[x] = saved'[x]) /\ (doc'[x] # 0 => saved'[x] # 0)
    BY <2>1, <2>3 DEF Listed
  <2> QED BY <1>2, <2>1, <2>4, StillInHand, UnoccupiedTyped
<1>4. CASE ~FillEnds(w)
  <2>1. ~missed
    BY <1>4 DEF MoveStep, Send, ScheduleIndexDocument, Erase, LookUpThing, WriteDocument, Empty, Query, FillIndex
  <2>2. /\ \A x \in Things : \/ x \in blocked \/ doc[x] = saved[x] \/ waiting[x] # {}
                             \/ /\ X(w) = x
                                /\ indexer[w].do \in {"send", "schedule", "erase", "look", "update", "remove"}
        /\ \A x \in Things : doc[x] # 0 /\ saved[x] = 0 => X(w) = x /\ Doing(w, "erase")
        /\ indexer[w].do \in {"send", "update"} => indexer[w].v = saved[X(w)] /\ saved[X(w)] # 0
        /\ indexer[w].do \in {"erase", "remove"} => saved[X(w)] = 0
    BY <1>1, <1>2, <2>1, AloneInHand
  <2>3. indexer[w].do \notin {"query", "fill"} BY <2>1 DEF OneRebuild
  <2>4. indexer[w].do \in {"send", "schedule", "erase", "look", "update", "remove"} => X(w) \in Things
    BY DEF IndexTyped, AboutThings
  <2>5. Rests(w) => indexer'[w].do = "wait" BY UnoccupiedTyped DEF Rests, IndexTyped, IndexTypeOK
  <2>6. CASE Send(w) /\ up
    <3>1. doc' = [doc EXCEPT ![X(w)] = saved[X(w)]] /\ Rests(w) /\ UNCHANGED <<saved, blocked, waiting>>
          /\ Doing(w, "send")
      BY <2>6, <2>2 DEF Send, Doing
    <3>2. X(w) \in Things /\ doc'[X(w)] = saved[X(w)] /\ \A y \in Things \ {X(w)} : doc'[y] = doc[y]
      BY <3>1, <2>4 DEF Doing, IndexTyped, IndexTypeOK
    <3>3. \A y \in Things : (y \in blocked' \/ doc'[y] = saved'[y] \/ waiting'[y] # {})
                            /\ (doc'[y] # 0 => saved'[y] # 0)
      BY <3>1, <3>2, <2>2 DEF Doing
    <3> QED BY <1>2, <2>5, <3>1, <3>3, StillInHand
  <2>7. CASE Send(w) /\ ~up
    <3>1. Goes(w, "schedule") /\ Doing(w, "send") /\ UNCHANGED <<saved, blocked, waiting, doc>> BY <2>7 DEF Send
    <3>2. indexer'[w].do = "schedule" /\ X(w)' = X(w) BY <3>1 DEF Goes, X, IndexTyped, IndexTypeOK, IndexJobs
    <3> QED BY <1>2, <2>2, <3>1, <3>2, StillInHand DEF Doing
  <2>8. CASE ScheduleIndexDocument(w)
    <3>1. X(w) \in Things /\ Doing(w, "schedule") /\ Rests(w) /\ UNCHANGED <<saved, blocked, doc>>
      BY <2>8, <2>4 DEF ScheduleIndexDocument, Doing
    <3>2. waiting'[X(w)] # {} /\ \A y \in Things \ {X(w)} : waiting'[y] = waiting[y]
      BY <2>8, <3>1 DEF ScheduleIndexDocument, IndexTyped, IndexTypeOK
    <3> QED BY <1>2, <2>2, <2>5, <3>1, <3>2, StillInHand DEF Doing
  <2>9. CASE Erase(w)
    <3>1. X(w) \in Things /\ Doing(w, "erase") /\ Rests(w) /\ UNCHANGED <<saved, blocked, waiting>> /\ saved[X(w)] = 0
          /\ doc' = [doc EXCEPT ![X(w)] = 0]
      BY <2>9, <2>4, <2>2 DEF Erase, Doing
    <3>2. doc'[X(w)] = 0 /\ \A y \in Things \ {X(w)} : doc'[y] = doc[y] BY <3>1 DEF IndexTyped, IndexTypeOK
    <3> QED BY <1>2, <2>2, <2>5, <3>1, <3>2, StillInHand DEF Doing
  <2>10. CASE LookUpThing(w)
    <3>1. X(w) \in Things /\ Doing(w, "look") /\ UNCHANGED <<saved, blocked, waiting, doc>>
      BY <2>10, <2>4 DEF LookUpThing, Doing
    <3>2. CASE Outcome(X(w)) = "wait"
      <4>1. indexer'[w].do = "wait" /\ X(w) \in blocked
        BY <2>10, <3>2, UnoccupiedTyped DEF LookUpThing, Outcome, IndexTyped, IndexTypeOK
      <4> QED BY <1>2, <2>2, <3>1, <4>1, StillInHand DEF Doing
    <3>3. CASE Outcome(X(w)) # "wait"
      <4>1. indexer' = [indexer EXCEPT ![w] = [indexer[w] EXCEPT !.do = Outcome(X(w)), !.v = saved[X(w)]]]
        BY <2>10, <3>3 DEF LookUpThing
      <4>2. indexer'[w].do = Outcome(X(w)) /\ indexer'[w].v = saved[X(w)] /\ X(w)' = X(w)
        BY <4>1 DEF X, IndexTyped, IndexTypeOK, IndexJobs
      <4>3. /\ Outcome(X(w)) \in {"update", "remove"}
            /\ Outcome(X(w)) = "update" => saved[X(w)] # 0
            /\ Outcome(X(w)) = "remove" => saved[X(w)] = 0
        BY <3>3 DEF Outcome
      <4> QED BY <1>2, <2>2, <3>1, <4>2, <4>3, StillInHand DEF Doing
    <3> QED BY <3>2, <3>3
  <2>11. CASE WriteDocument(w)
    <3>1. X(w) \in Things /\ indexer[w].do \in {"update", "remove"} /\ Rests(w) /\ UNCHANGED <<saved, blocked>>
      BY <2>11, <2>4 DEF WriteDocument
    <3>2. CASE up
      <4>1. doc' = [doc EXCEPT ![X(w)] = IF Doing(w, "remove") THEN 0 ELSE indexer[w].v] /\ waiting' = waiting
        BY <2>11, <3>2 DEF WriteDocument
      <4>2. doc'[X(w)] = saved[X(w)] /\ \A y \in Things \ {X(w)} : doc'[y] = doc[y]
        BY <3>1, <4>1, <2>2 DEF Doing, IndexTyped, IndexTypeOK
      <4> QED BY <1>2, <2>2, <2>5, <3>1, <4>1, <4>2, StillInHand DEF Doing
    <3>3. CASE ~up
      <4>1. indexer[w].tries \in 0..MaxTries /\ indexer[w].tries # MaxTries
        BY <2>11, <3>3 DEF WriteDocument, IndexTyped, IndexTypeOK, IndexJobs
      <4>2. indexer[w].tries < MaxTries BY <4>1, IndexAssumption
      <4>3. doc' = doc /\ waiting' = [waiting EXCEPT ![X(w)] = @ \cup {indexer[w].tries + 1}]
        BY <2>11, <3>3, <4>2 DEF WriteDocument
      <4>4. waiting'[X(w)] # {} /\ \A y \in Things \ {X(w)} : waiting'[y] = waiting[y]
        BY <4>3, <3>1 DEF IndexTyped, IndexTypeOK
      <4> QED BY <1>2, <2>2, <2>5, <3>1, <4>3, <4>4, StillInHand DEF Doing
    <3> QED BY <3>2, <3>3
  <2>12. CASE Empty(w)
    BY <2>12, <1>2, <2>2, <2>5, StillInHand DEF Empty, Doing
  <2> QED BY <1>4, <2>3, <2>6, <2>7, <2>8, <2>9, <2>10, <2>11, <2>12 DEF MoveStep, Query, FillIndex, Doing
<1> QED BY <1>3, <1>4

LEMMA IndexInvHolds == IndexSpec => []IndexInv
<1>1. IndexInit => IndexInv
  <2> SUFFICES ASSUME IndexInit PROVE IndexInv OBVIOUS
  <2>1. \A w \in Indexers : indexer[w] = Unoccupied BY DEF IndexInit
  <2>2. \A x \in Things : doc[x] = saved[x] /\ saved[x] = 0 /\ doc[x] = 0 BY DEF IndexInit
  <2>3. OneRebuild /\ CalmFills /\ OneAtWork BY <2>1, UnoccupiedTyped DEF OneRebuild, CalmFills, OneAtWork, Rebuilding
  <2>4. InHand BY <2>1, <2>2, UnoccupiedTyped DEF InHand, CurrentWrites, OnItsWay
  <2> QED BY <2>3, <2>4, IndexTypedInit DEF IndexInv
<1>2. IndexInv /\ [IndexNext]_index => IndexInv'
  <2> SUFFICES ASSUME IndexInv, [IndexNext]_index PROVE IndexInv' OBVIOUS
  <2>1. InHand'
    <3>1. CASE OutOfReach \/ InReach \/ UNCHANGED index
      <4>1. UNCHANGED <<saved, blocked, doc, waiting, indexer, mixed, missed>> BY <3>1 DEF OutOfReach, InReach, index
      <4> QED BY <4>1 DEF IndexInv, InHand, CurrentWrites, OnItsWay, Doing, X
    <3> QED BY <3>1, BeginInHand, MoveInHand DEF IndexInv, IndexNext, IndexStep, BeginStep, MoveStep
  <2> QED BY <2>1, IndexTypedStep, OneRebuildStep, CalmFillsStep, OneAtWorkStep DEF IndexInv
<1> QED BY <1>1, <1>2, PTL DEF IndexSpec

\* The index has the rows as they are, for any things, processes and bounds,
\* when work was done one thing at a time and nothing was lost for good
\* (the handlers of core/elasticsearch.py with the task of
\* core/tasks/elasticsearch_tasks.py).
THEOREM IndexHolds == IndexSpec => []IndexSound
<1>1. IndexInv => IndexSound
  BY IdleInHand DEF IndexInv, IndexTyped, IndexSound, IndexInStep, HitsExist, Quiet
<1> QED BY <1>1, IndexInvHolds, PTL

\* Whatever went wrong before, a rebuild that nothing crosses leaves exactly
\* the rows that are listed, as they are (elasticsearch_rebuild_for_tenant).
THEOREM RebuildsRepair == IndexSpec => RebuildRepairs
<1> DEFINE Repaired ==
      \A w \in Indexers : Doing(w, "fill") /\ indexer'[w] = Unoccupied /\ indexer[w].calm =>
        \A x \in Things : doc'[x] = IF Listed(x) THEN saved[x] ELSE 0
<1>1. IndexInv /\ [IndexNext]_index => [Repaired]_index
  <2> SUFFICES ASSUME IndexInv, [IndexNext]_index,
                      NEW w \in Indexers, Doing(w, "fill"), indexer'[w] = Unoccupied, indexer[w].calm
               PROVE  \A x \in Things : doc'[x] = IF Listed(x) THEN saved[x] ELSE 0
    OBVIOUS
  <2>1. indexer'[w] # indexer[w] BY UnoccupiedTyped DEF Doing
  <2>2. PICK u \in Indexers : BeginStep(u) \/ MoveStep(u)
    BY <2>1 DEF IndexNext, IndexStep, BeginStep, MoveStep, OutOfReach, InReach, index
  <2>3. ASSUME BeginStep(u) PROVE FALSE
    BY <2>3, BeginsShape, UnoccupiedTyped DEF BeginStep, IndexInv, Doing
  <2>4. MoveStep(u) BY <2>2, <2>3
  <2>5. u = w BY <2>1, <2>4, MovesShape DEF MoveStep, IndexInv
  <2>6. ~FillIndex(w)
    <3> SUFFICES ASSUME FillIndex(w) PROVE FALSE OBVIOUS
    <3>1. PICK r : indexer' = [indexer EXCEPT ![w] = [indexer[w] EXCEPT !.left = @ \ {r}, !.calm = @ /\ up]]
      BY DEF FillIndex
    <3>2. indexer[w] \in IndexJobs BY DEF IndexInv, IndexTyped, IndexTypeOK
    <3>3. indexer'[w].do = "fill" BY <3>1, <3>2 DEF Doing, IndexInv, IndexTyped, IndexTypeOK, IndexJobs
    <3> QED BY <3>3, UnoccupiedTyped
  <2>7. FillEnds(w)
    BY <2>4, <2>5, <2>6 DEF MoveStep, Send, ScheduleIndexDocument, Erase, LookUpThing, WriteDocument, Empty,
       Query, Doing
  <2>8. indexer[w].left = {} /\ doc' = doc BY <2>7 DEF FillEnds
  <2>9. \A x \in Things : doc[x] = IF Listed(x) /\ <<x, saved[x]>> \notin indexer[w].left THEN saved[x] ELSE 0
    BY DEF IndexInv, CalmFills, Rebuilding, Doing
  <2> QED BY <2>8, <2>9
<1>2. IndexSpec => [][Repaired]_index BY <1>1, IndexInvHolds, PTL DEF IndexSpec
<1> QED BY <1>2 DEF RebuildRepairs

-----------------------------------------------------------------------------
-----------------------------------------------------------------------------
(***************************************************************************)
(* Mail on its way.                                                        *)
(***************************************************************************)
\* A mail that was handed over was queued; what a worker has in hand is taken, by
\* it alone, and was handed over when the worker says so; only a finished mail
\* has a log, and it says whether the mail was handed over.
MailsHeld ==
  /\ past.handed \subseteq DOMAIN box
  /\ \A m \in past.handed : box[m].state # "queued"
  /\ \A w \in Postmen : postman[w] # Out =>
       /\ postman[w].mail \in DOMAIN box /\ box[postman[w].mail].state = "taken"
       /\ postman[w].mail \in past.handed <=> postman[w].step # "built"
       /\ postman[w].mail.list = "notices" => postman[w].texts = {} /\ postman[w].step # "stamped"
  /\ \A v, w \in Postmen : postman[v] # Out /\ postman[w] # Out /\ postman[v].mail = postman[w].mail => v = w

\* Worker w holds a copy of the profile of r that it will save.
CopyOf(w, r) ==
  postman[w].step \in {"built", "handed"} /\ postman[w].mail.to = r /\ postman[w].mail.list # "notices"
Chosen(of) == [interval |-> of.interval, notices |-> of.notices]

\* Where no two saves overlapped there is one copy of a profile, it is what the row
\* says, and a request changes it into what the person chose.
CopiesAlone ==
  \A r \in Receivers \ past.muddled : \A w \in Postmen : CopyOf(w, r) =>
    /\ settings # NoRequest => settings.who # r
    /\ \A v \in Postmen : CopyOf(v, r) => v = w
    /\ postman[w].row = profile[r]
FormCurrent ==
  settings # NoRequest /\ settings.who \notin past.muddled =>
    Chosen(settings.row) = past.chosen[settings.who] /\ settings.row.received = profile[settings.who].received

\* What a worker is about to tell was not told; what was told is older than the
\* overview the profile remembers, or than the one it is about to.
Unpublished == \A p \in Texts : published[p] < now
NotYetTold ==
  \A r \in Receivers \ past.muddled : \A w \in Postmen : CopyOf(w, r) /\ postman[w].step = "built" =>
    \A p \in postman[w].texts : past.told[p][r] = 0 /\ published[p] > 0
ToldBefore ==
  \A r \in Receivers \ past.muddled : \A p \in Texts : past.told[p][r] # 0 =>
    /\ past.told[p][r] = 1
    /\ published[p] > 0
    /\ published[p] < profile[r].received \/ \E w \in Postmen : CopyOf(w, r) /\ postman[w].step = "handed"

\* The bans r may still come to, by the job that runs and by the next one.
Ahead(list, last) == IF list = <<>> THEN last ELSE list[Len(list)].at
StampAhead == IF bans = Off THEN stamp ELSE Ahead(bans.todo, bans.last)
ToBan(r) == bans # Off /\ \E i \in 1..Len(bans.todo) : bans.todo[i].who = r
Credit(r) == past.bounced[r] + past.mishaps
BansPaid ==
  \A r \in Receivers :
    /\ past.banned[r] <= Credit(r)
    /\ ToBan(r) \/ bounce[r] > StampAhead => past.banned[r] + 1 <= Credit(r)
    /\ ToBan(r) /\ bounce[r] > StampAhead => past.banned[r] + 2 <= Credit(r)
ListOrdered ==
  bans # Off => \A i, j \in 1..Len(bans.todo) : i < j =>
                  bans.todo[i].who # bans.todo[j].who /\ bans.todo[i].at < bans.todo[j].at

MailInv ==
  /\ MailTypeOK /\ MailsHeld /\ CopiesAlone /\ FormCurrent /\ ChoiceKept
  /\ Unpublished /\ NotYetTold /\ ToldBefore /\ BansPaid /\ ListOrdered /\ SentIsLogged

-----------------------------------------------------------------------------
\* What a worker has in hand.
LEMMA MailInHand ==
  ASSUME MailTypeOK, NEW w \in Postmen, postman[w] # Out
  PROVE  /\ postman[w] \in Delivery /\ postman[w].step \in {"built", "handed", "stamped"}
         /\ postman[w].mail \in MailId /\ postman[w].mail.to \in Receivers /\ postman[w].mail.list \in Lists
         /\ postman[w].row \in ProfileRow /\ postman[w].texts \subseteq Texts
BY DEF MailTypeOK, Delivery, MailId

LEMMA OutIs == Out.step = "out" /\ NoRequest.step = "closed" /\ Off.step = "off"
BY DEF Out, NoRequest, Off

LEMMA NotOut ==
  ASSUME MailTypeOK, NEW w \in Postmen, postman[w].step \in {"built", "handed", "stamped"} PROVE postman[w] # Out
BY OutIs

LEMMA RowIs ==
  ASSUME NEW of \in ProfileRow
  PROVE  /\ of.interval \in Intervals \cup {"never"} /\ of.notices \in BOOLEAN /\ of.received \in 0..MaxTime
         /\ Chosen(of) \in MailChoice
BY DEF ProfileRow, Chosen, MailChoice

\* Who could save a profile beside r's next copy is remembered.
LEMMA MuddleIs ==
  ASSUME MailTypeOK, NEW r \in Receivers
  PROVE  /\ Muddle(r) \in MailPast
         /\ Muddle(r).muddled = IF Copied(r) THEN past.muddled \cup {r} ELSE past.muddled
         /\ Muddle(r).told = past.told /\ Muddle(r).chosen = past.chosen /\ Muddle(r).handed = past.handed
         /\ Muddle(r).banned = past.banned /\ Muddle(r).bounced = past.bounced
         /\ Muddle(r).forms = past.forms /\ Muddle(r).mishaps = past.mishaps
BY DEF Muddle, MailTypeOK, MailPast

LEMMA CopiedIs ==
  ASSUME NEW r \in Receivers
  PROVE  Copied(r) <=> (\E w \in Postmen : CopyOf(w, r)) \/ (settings # NoRequest /\ settings.who = r)
BY DEF Copied, CopyOf

-----------------------------------------------------------------------------
\* Fields of the history that each step sets.
LEMMA HandOverIs ==
  ASSUME MailTypeOK, NEW w \in Postmen, HandOver(w)
  PROVE  /\ past' \in MailPast /\ past'.handed = past.handed \cup {postman[w].mail}
         /\ past'.muddled = past.muddled /\ past'.chosen = past.chosen /\ past'.banned = past.banned
         /\ past'.bounced = past.bounced /\ past'.mishaps = past.mishaps
         /\ \A p \in Texts, r \in Receivers :
              past'.told[p][r] = past.told[p][r] + IF p \in postman[w].texts /\ r = postman[w].mail.to THEN 1 ELSE 0
<1> DEFINE more == [p \in Texts |-> [r \in Receivers |->
                      past.told[p][r] + (IF p \in postman[w].texts /\ r = postman[w].mail.to THEN 1 ELSE 0)]]
<1>1. past \in MailPast /\ postman[w].mail \in MailId BY MailInHand, NotOut DEF HandOver, MailTypeOK
<1>2. more \in [Texts -> [Receivers -> Nat]]
  BY <1>1 DEF MailPast
<1>3. past' = [past EXCEPT !.handed = @ \cup {postman[w].mail}, !.told = more] BY DEF HandOver
<1>4. \A p \in Texts, r \in Receivers :
        more[p][r] = past.told[p][r] + IF p \in postman[w].texts /\ r = postman[w].mail.to THEN 1 ELSE 0
  OBVIOUS
<1> HIDE DEF more
<1> QED BY <1>1, <1>2, <1>3, <1>4 DEF MailPast

LEMMA PastWith ==
  ASSUME NEW old \in MailPast
  PROVE  /\ \A x \in Nat : [old EXCEPT !.mishaps = x] \in MailPast
         /\ \A x \in SUBSET Receivers : [old EXCEPT !.muddled = x] \in MailPast
         /\ \A x \in [Receivers -> MailChoice] : [old EXCEPT !.chosen = x] \in MailPast
         /\ \A x \in Nat : [old EXCEPT !.forms = x] \in MailPast
BY DEF MailPast

LEMMA MishapIs ==
  ASSUME MailTypeOK, past' = [past EXCEPT !.mishaps = @ + 1]
  PROVE  /\ past' \in MailPast /\ past'.handed = past.handed /\ past'.muddled = past.muddled /\ past'.told = past.told
         /\ past'.chosen = past.chosen /\ past'.banned = past.banned /\ past'.bounced = past.bounced
         /\ past'.mishaps = past.mishaps + 1
<1>1. PICK n \in Nat : n = past.mishaps + 1 BY DEF MailTypeOK, MailPast
<1>2. past' = [past EXCEPT !.mishaps = n] BY <1>1
<1>3. past \in MailPast BY DEF MailTypeOK
<1>4. past' \in MailPast BY <1>2, <1>3, PastWith
<1> QED BY <1>1, <1>2, <1>3, <1>4 DEF MailPast

LEMMA DiesIs ==
  ASSUME MailTypeOK, NEW w \in Postmen, PostmanDies(w)
  PROVE  /\ past' \in MailPast /\ past'.handed = past.handed /\ past'.told = past.told
         /\ past'.chosen = past.chosen /\ past'.banned = past.banned /\ past'.bounced = past.bounced
         /\ past'.mishaps = past.mishaps + 1 /\ past.muddled \subseteq past'.muddled
         /\ postman[w].step = "handed" => postman[w].mail.to \in past'.muddled
<1> DEFINE more == IF postman[w].step = "handed" THEN past.muddled \cup {postman[w].mail.to} ELSE past.muddled
<1>1. past \in MailPast /\ more \subseteq Receivers BY MailInHand DEF PostmanDies, MailTypeOK, MailPast
<1>2. past' = [past EXCEPT !.mishaps = @ + 1, !.muddled = more] BY DEF PostmanDies
<1>3. past.muddled \subseteq more /\ (postman[w].step = "handed" => postman[w].mail.to \in more) OBVIOUS
<1> HIDE DEF more
<1>4. PICK n \in Nat : n = past.mishaps + 1 BY <1>1 DEF MailPast
<1> DEFINE mid == [past EXCEPT !.mishaps = n]
<1>5. mid \in MailPast /\ past' = [mid EXCEPT !.muddled = more] BY <1>1, <1>2, <1>4, PastWith
<1>6. /\ mid.handed = past.handed /\ mid.told = past.told /\ mid.mishaps = n
      /\ mid.chosen = past.chosen /\ mid.banned = past.banned /\ mid.bounced = past.bounced
  BY <1>1 DEF MailPast
<1> HIDE DEF mid
<1>7. past' \in MailPast BY <1>1, <1>5, PastWith
<1> QED BY <1>1, <1>3, <1>4, <1>5, <1>6, <1>7 DEF MailPast

LEMMA OpenIs ==
  ASSUME MailTypeOK, NEW r \in Receivers, NEW choice \in MailChoice, NEW new \in ProfileRow, OpenSettings(r, new, choice)
  PROVE  /\ past' \in MailPast /\ past'.handed = past.handed /\ past'.told = past.told
         /\ past'.banned = past.banned /\ past'.bounced = past.bounced /\ past'.mishaps = past.mishaps
         /\ past'.chosen = [past.chosen EXCEPT ![r] = choice]
         /\ past'.muddled = IF Copied(r) THEN past.muddled \cup {r} ELSE past.muddled
         /\ settings = NoRequest /\ settings' = [step |-> "open", who |-> r, row |-> new]
<1> DEFINE old == Muddle(r)
<1>1. /\ old \in MailPast /\ old.handed = past.handed /\ old.told = past.told /\ old.chosen = past.chosen
      /\ old.banned = past.banned /\ old.bounced = past.bounced /\ old.mishaps = past.mishaps
      /\ old.muddled = IF Copied(r) THEN past.muddled \cup {r} ELSE past.muddled
  BY MuddleIs
<1>2. past' = [old EXCEPT !.forms = @ + 1, !.chosen = [old.chosen EXCEPT ![r] = choice]]
  BY <1>1 DEF OpenSettings, MailPast
<1>3. settings = NoRequest /\ settings' = [step |-> "open", who |-> r, row |-> new] BY DEF OpenSettings
<1> HIDE DEF old
<1>4. [old.chosen EXCEPT ![r] = choice] \in [Receivers -> MailChoice] BY <1>1 DEF MailPast
<1>5. PICK n \in Nat, more \in [Receivers -> MailChoice] : n = old.forms + 1 /\ more = [old.chosen EXCEPT ![r] = choice]
  <2>1. old.forms \in Nat BY <1>1 DEF MailPast
  <2>2. old.forms + 1 \in Nat BY <2>1
  <2> QED BY <1>4, <2>2
<1> DEFINE mid == [old EXCEPT !.forms = n]
<1>6. mid \in MailPast /\ past' = [mid EXCEPT !.chosen = more] BY <1>1, <1>2, <1>5, PastWith
<1>7. /\ mid.handed = past.handed /\ mid.told = past.told /\ mid.mishaps = past.mishaps
      /\ mid.banned = past.banned /\ mid.bounced = past.bounced /\ mid.muddled = old.muddled
  BY <1>1 DEF MailPast
<1> HIDE DEF mid
<1>8. past' \in MailPast BY <1>1, <1>6, PastWith
<1> QED BY <1>1, <1>3, <1>5, <1>6, <1>7, <1>8 DEF MailPast

LEMMA BanOneIs ==
  ASSUME MailTypeOK, NEW r \in Receivers, past' = IF r \in active THEN [past EXCEPT !.banned[r] = @ + 1] ELSE past
  PROVE  /\ past' \in MailPast /\ past'.handed = past.handed /\ past'.muddled = past.muddled /\ past'.told = past.told
         /\ past'.chosen = past.chosen /\ past'.bounced = past.bounced /\ past'.mishaps = past.mishaps
         /\ \A s \in Receivers \ {r} : past'.banned[s] = past.banned[s]
         /\ past'.banned[r] \in {past.banned[r], past.banned[r] + 1}
<1> DEFINE more == [past.banned EXCEPT ![r] = @ + 1]
<1>1. past \in MailPast /\ past.banned \in [Receivers -> Nat] BY DEF MailTypeOK, MailPast
<1>2. more \in [Receivers -> Nat] /\ more[r] = past.banned[r] + 1 /\ \A s \in Receivers \ {r} : more[s] = past.banned[s]
  BY <1>1
<1>3. past' = past \/ past' = [past EXCEPT !.banned = more] BY <1>1 DEF MailPast
<1> HIDE DEF more
<1> QED BY <1>1, <1>2, <1>3 DEF MailPast

LEMMA BouncesIs ==
  ASSUME MailTypeOK, NEW r \in Receivers, Bounces(r)
  PROVE  /\ past' \in MailPast /\ past'.handed = past.handed /\ past'.muddled = past.muddled /\ past'.told = past.told
         /\ past'.chosen = past.chosen /\ past'.banned = past.banned /\ past'.mishaps = past.mishaps
         /\ \A s \in Receivers \ {r} : past'.bounced[s] = past.bounced[s]
         /\ past'.bounced[r] = past.bounced[r] + 1
<1> DEFINE more == [past.bounced EXCEPT ![r] = @ + 1]
<1>1. past \in MailPast /\ past.bounced \in [Receivers -> Nat] BY DEF MailTypeOK, MailPast
<1>2. more \in [Receivers -> Nat] /\ more[r] = past.bounced[r] + 1 /\ \A s \in Receivers \ {r} : more[s] = past.bounced[s]
  BY <1>1
<1>3. past' = [past EXCEPT !.bounced = more] BY <1>1 DEF MailPast, Bounces
<1> HIDE DEF more
<1> QED BY <1>1, <1>2, <1>3 DEF MailPast

-----------------------------------------------------------------------------
\* What the steps do, by the variables they change.
LEMMA QueuedIs ==
  ASSUME MailTypeOK, NEW ids \in SUBSET MailId
  PROVE  /\ DOMAIN Queued(ids) = DOMAIN box \cup ids /\ Queued(ids) \in [DOMAIN Queued(ids) -> Instance]
         /\ \A m \in DOMAIN box : Queued(ids)[m] = box[m]
         /\ \A m \in ids \ DOMAIN box : Queued(ids)[m].state = "queued"
<1> DEFINE fresh == [state |-> "queued", log |-> "none"]
<1>1. fresh \in Instance /\ fresh.state = "queued" BY DEF Instance
<1>2. Queued(ids) = [m \in DOMAIN box \cup ids |-> IF m \in DOMAIN box THEN box[m] ELSE fresh] BY DEF Queued
<1> HIDE DEF fresh
<1>3. box \in [DOMAIN box -> Instance] BY DEF MailTypeOK
<1> QED BY <1>1, <1>2, <1>3

LEMMA QueueMoves ==
  ASSUME MailTypeOK, (\E i \in Intervals : SendOverview(i)) \/ (\E r \in Receivers : ScheduleNotificationMail(r))
  PROVE  /\ DOMAIN box' \subseteq MailId /\ box' \in [DOMAIN box' -> Instance] /\ due' \in [Intervals -> Nat]
         /\ DOMAIN box \subseteq DOMAIN box' /\ \A m \in DOMAIN box : box'[m] = box[m]
         /\ \A m \in DOMAIN box' \ DOMAIN box : box'[m].state = "queued"
         /\ UNCHANGED <<profile, active, published, viewed, postman, settings, now, bounce, bans, stamp, past>>
<1> USE DEF MailTypeOK
<1>1. ASSUME NEW i \in Intervals, SendOverview(i)
      PROVE  /\ \E ids \in SUBSET MailId : box' = Queued(ids)
             /\ due' \in [Intervals -> Nat]
             /\ UNCHANGED <<profile, active, published, viewed, postman, settings, now, bounce, bans, stamp, past>>
  <2> DEFINE ids == {[to |-> r, list |-> i, at |-> due[i]] : r \in {r \in active : profile[r].interval = i}}
  <2>1. ids \in SUBSET MailId BY DEF MailId, Lists
  <2>2. due' \in [Intervals -> Nat]
    <3>1. due \in [Intervals -> Nat] /\ Span[i] \in Nat /\ due' = [due EXCEPT ![i] = due[i] + Span[i]]
      BY <1>1, MailingAssumption DEF SendOverview
    <3>2. due[i] + Span[i] \in Nat BY <3>1
    <3> QED BY <3>1, <3>2
  <2> QED BY <1>1, <2>1, <2>2 DEF SendOverview
<1>2. ASSUME NEW r \in Receivers, ScheduleNotificationMail(r)
      PROVE  /\ \E ids \in SUBSET MailId : box' = Queued(ids)
             /\ due' \in [Intervals -> Nat]
             /\ UNCHANGED <<profile, active, published, viewed, postman, settings, now, bounce, bans, stamp, past>>
  BY <1>2 DEF MailId, Lists, ScheduleNotificationMail
<1>3. PICK ids \in SUBSET MailId : box' = Queued(ids) BY <1>1, <1>2
<1> DEFINE next == Queued(ids)
<1>4. /\ DOMAIN next = DOMAIN box \cup ids /\ next \in [DOMAIN next -> Instance]
      /\ \A m \in DOMAIN box : next[m] = box[m]
      /\ \A m \in ids \ DOMAIN box : next[m].state = "queued"
  BY QueuedIs
<1>5. box' = next BY <1>3
<1> HIDE DEF next
<1>6. /\ DOMAIN box' \subseteq MailId /\ box' \in [DOMAIN box' -> Instance]
      /\ DOMAIN box \subseteq DOMAIN box' /\ \A m \in DOMAIN box : box'[m] = box[m]
      /\ \A m \in DOMAIN box' \ DOMAIN box : box'[m].state = "queued"
  BY <1>4, <1>5
<1> QED BY <1>1, <1>2, <1>6

\* Posts an overview selects: published since the last one.
LEMMA SelectionsAre ==
  ASSUME MailTypeOK, NEW r \in Receivers, NEW list \in Lists, NEW texts \in Selections(r, profile[r], list)
  PROVE  /\ texts \subseteq Texts
         /\ list = "notices" => texts = {}
         /\ \A p \in texts : published[p] > 0 /\ published[p] >= profile[r].received
<1>1. CASE list = "notices" BY <1>1 DEF Selections
<1>2. CASE list # "notices"
  <2> DEFINE since == LowerBound(profile[r], list)
  <2>0. PICK f \in ProcessFeatured(list, since) : \E e \in ProcessEntities(r, since, f) : texts = f \cup e
    BY <1>2 DEF Selections
  <2>1. PICK e \in ProcessEntities(r, since, f) : texts = f \cup e BY <2>0
  <2>2. f \subseteq Since(since) /\ e \subseteq Since(since)
    BY <2>1 DEF ProcessFeatured, ProcessEntities, Latest, Earliest
  <2>3. since >= profile[r].received /\ since \in Int /\ profile[r].received \in Int
    BY <1>2, MailingAssumption, RowIs DEF Lists, MailTypeOK, LowerBound
  <2> HIDE DEF since
  <2>4. \A p \in texts : p \in Texts /\ published[p] > 0 /\ published[p] >= since /\ published[p] \in Int
    BY <2>1, <2>2 DEF Since, MailTypeOK
  <2> QED BY <1>2, <2>3, <2>4
<1> QED BY <1>1, <1>2

LEMMA TakeMailIs ==
  ASSUME MailTypeOK, NEW w \in Postmen, NEW m \in DOMAIN box, TakeMail(w, m)
  PROVE  /\ m \in MailId /\ box[m].state = "queued" /\ postman[w] = Out
         /\ UNCHANGED <<profile, active, published, viewed, settings, now, due, bounce, bans, stamp>>
         /\ DOMAIN box' = DOMAIN box /\ box' \in [DOMAIN box -> Instance] /\ \A n \in DOMAIN box \ {m} : box'[n] = box[n]
         /\ \/ box'[m].state = "finished" /\ box'[m].log = "none" /\ UNCHANGED <<postman, past>>
            \/ \E next \in Delivery :
                 /\ box'[m].state = "taken"
                 /\ postman' = [postman EXCEPT ![w] = next]
                 /\ next.step = "built" /\ next.mail = m /\ next.row = profile[m.to]
                 /\ m.list = "notices" => next.texts = {}
                 /\ \A p \in next.texts : published[p] > 0 /\ published[p] >= profile[m.to].received
                 /\ past' = IF m.list = "notices" THEN past ELSE Muddle(m.to)
<1> USE DEF MailTypeOK
<1>1. /\ m \in MailId /\ box[m].state = "queued" /\ postman[w] = Out /\ m.to \in Receivers /\ m.list \in Lists
      /\ UNCHANGED <<profile, active, published, viewed, settings, now, due, bounce, bans, stamp>>
  BY DEF TakeMail, MailId
<1>2. PICK texts \in Selections(m.to, profile[m.to], m.list) :
        \/ box' = Concluded(m, "none") /\ UNCHANGED <<postman, past>>
        \/ /\ box' = [box EXCEPT ![m].state = "taken"]
           /\ postman' = [postman EXCEPT ![w] = [step |-> "built", mail |-> m, row |-> profile[m.to], texts |-> texts]]
           /\ past' = IF m.list = "notices" THEN past ELSE Muddle(m.to)
  BY DEF TakeMail
<1>3. CASE box' = Concluded(m, "none") /\ UNCHANGED <<postman, past>>
  <2> DEFINE new == [state |-> "finished", log |-> "none"]
  <2>1. new \in Instance /\ new.state = "finished" /\ new.log = "none" BY DEF Instance
  <2>2. box' = [box EXCEPT ![m] = new] BY <1>3 DEF Concluded
  <2> HIDE DEF new
  <2> QED BY <1>1, <1>3, <2>1, <2>2
<1>4. ASSUME /\ box' = [box EXCEPT ![m].state = "taken"]
             /\ postman' = [postman EXCEPT ![w] = [step |-> "built", mail |-> m, row |-> profile[m.to], texts |-> texts]]
             /\ past' = IF m.list = "notices" THEN past ELSE Muddle(m.to)
      PROVE  /\ DOMAIN box' = DOMAIN box /\ box' \in [DOMAIN box -> Instance] /\ \A n \in DOMAIN box \ {m} : box'[n] = box[n]
             /\ \E next \in Delivery :
                 /\ box'[m].state = "taken"
                 /\ postman' = [postman EXCEPT ![w] = next]
                 /\ next.step = "built" /\ next.mail = m /\ next.row = profile[m.to]
                 /\ m.list = "notices" => next.texts = {}
                 /\ \A p \in next.texts : published[p] > 0 /\ published[p] >= profile[m.to].received
                 /\ past' = IF m.list = "notices" THEN past ELSE Muddle(m.to)
  <2> DEFINE new == [box[m] EXCEPT !.state = "taken"]
             next == [step |-> "built", mail |-> m, row |-> profile[m.to], texts |-> texts]
  <2>1. new \in Instance /\ new.state = "taken"
    BY DEF Instance
  <2>2. box' = [box EXCEPT ![m] = new] BY <1>4
  <2>3. /\ texts \subseteq Texts /\ (m.list = "notices" => texts = {})
        /\ \A p \in texts : published[p] > 0 /\ published[p] >= profile[m.to].received
    BY <1>1, SelectionsAre
  <2>4. next \in Delivery /\ next.step = "built" /\ next.mail = m /\ next.row = profile[m.to] /\ next.texts = texts
    BY <1>1, <2>3 DEF Delivery
  <2>5. postman' = [postman EXCEPT ![w] = next] BY <1>4
  <2> HIDE DEF new, next
  <2>6. DOMAIN box' = DOMAIN box /\ box' \in [DOMAIN box -> Instance] /\ box'[m].state = "taken" /\ \A n \in DOMAIN box \ {m} : box'[n] = box[n]
    BY <2>1, <2>2
  <2> QED BY <1>4, <2>3, <2>4, <2>5, <2>6
<1> QED BY <1>1, <1>2, <1>3, <1>4

\* Work that ends: with a log, or with the worker.
LEMMA EndsIs ==
  ASSUME MailTypeOK, MailsHeld, NEW w \in Postmen, Refuse(w) \/ WriteLog(w) \/ PostmanDies(w)
  PROVE  /\ postman[w] # Out /\ postman' = [postman EXCEPT ![w] = Out]
         /\ UNCHANGED <<profile, active, published, viewed, settings, now, due, bounce, bans, stamp>>
         /\ DOMAIN box' = DOMAIN box /\ box' \in [DOMAIN box -> Instance]
         /\ \A n \in DOMAIN box \ {postman[w].mail} : box'[n] = box[n]
         /\ box'[postman[w].mail].state \in {"finished", "lost"}
         /\ box'[postman[w].mail].state = "finished" =>
              (box'[postman[w].mail].log = "sent" <=> postman[w].mail \in past.handed)
         /\ past' \in MailPast /\ past'.handed = past.handed /\ past'.told = past.told
         /\ past'.chosen = past.chosen /\ past'.banned = past.banned /\ past'.bounced = past.bounced
         /\ past'.mishaps \in {past.mishaps, past.mishaps + 1} /\ past.muddled \subseteq past'.muddled
         /\ postman[w].step = "handed" /\ postman[w].mail.list # "notices" => postman[w].mail.to \in past'.muddled
<1>0. past \in MailPast /\ box \in [DOMAIN box -> Instance] BY DEF MailTypeOK
<1>1. postman[w] # Out BY OutIs, NotOut DEF Refuse, WriteLog, PostmanDies
<1>2. postman[w].step \in {"built", "handed", "stamped"} BY <1>1, MailInHand
<1> DEFINE m == postman[w].mail
<1>3. m \in DOMAIN box /\ (m \in past.handed <=> postman[w].step # "built") BY <1>1 DEF MailsHeld
<1>4. ASSUME NEW result \in {"sent", "error"}, box' = Concluded(m, result)
      PROVE  /\ DOMAIN box' = DOMAIN box /\ box' \in [DOMAIN box -> Instance]
             /\ \A n \in DOMAIN box \ {m} : box'[n] = box[n]
             /\ box'[m].state = "finished" /\ box'[m].log = result
  <2> DEFINE new == [state |-> "finished", log |-> result]
  <2>1. new \in Instance /\ new.state = "finished" /\ new.log = result BY DEF Instance
  <2>2. box' = [box EXCEPT ![m] = new] BY <1>4 DEF Concluded
  <2> HIDE DEF new, m
  <2> QED BY <1>0, <1>3, <2>1, <2>2
<1>5. CASE Refuse(w)
  BY <1>5, <1>1, <1>3, <1>4, MishapIs DEF Refuse
<1>6. CASE WriteLog(w)
  BY <1>6, <1>1, <1>0, <1>3, <1>4 DEF WriteLog
<1>7. CASE PostmanDies(w)
  <2> DEFINE new == [box[m] EXCEPT !.state = "lost"]
  <2>1. new \in Instance /\ new.state = "lost"
    <3>1. box[m] \in Instance BY <1>0, <1>3
    <3> QED BY <3>1 DEF Instance
  <2>2. box' = [box EXCEPT ![m] = new] BY <1>7 DEF PostmanDies
  <2> HIDE DEF new
  <2>3. /\ DOMAIN box' = DOMAIN box /\ box' \in [DOMAIN box -> Instance]
        /\ \A n \in DOMAIN box \ {m} : box'[n] = box[n]
        /\ box'[m].state = "lost"
    BY <1>0, <1>3, <2>1, <2>2
  <2> QED BY <1>1, <1>7, <2>3, DiesIs DEF PostmanDies
<1> QED BY <1>5, <1>6, <1>7

\* Work that goes on: the mail is handed over, the overview stamped in the profile.
LEMMA GoesOnIs ==
  ASSUME MailTypeOK, NEW w \in Postmen, HandOver(w) \/ StampProfile(w)
  PROVE  \E next \in Delivery :
           /\ postman[w] # Out /\ postman' = [postman EXCEPT ![w] = next]
           /\ next.mail = postman[w].mail /\ next.row = postman[w].row /\ next.texts = postman[w].texts
           /\ HandOver(w) => postman[w].step = "built" /\ next.step = "handed"
           /\ StampProfile(w) => postman[w].step = "handed" /\ next.step = "stamped" /\ postman[w].mail.list # "notices"
BY NotOut, MailInHand DEF HandOver, StampProfile, Delivery

\* The profile that is stamped.
LEMMA StampIs ==
  ASSUME MailTypeOK, NEW w \in Postmen, StampProfile(w)
  PROVE  \E new \in ProfileRow :
           /\ profile' = [profile EXCEPT ![postman[w].mail.to] = new]
           /\ new.received = now /\ new.interval = postman[w].row.interval /\ new.notices = postman[w].row.notices
<1>1. postman[w].row \in ProfileRow /\ now \in 0..MaxTime
  BY NotOut, MailInHand, MailingAssumption DEF StampProfile, MailTypeOK
<1> DEFINE new == [postman[w].row EXCEPT !.received = now]
<1>2. new \in ProfileRow /\ new.received = now /\ new.interval = postman[w].row.interval /\ new.notices = postman[w].row.notices
  BY <1>1 DEF ProfileRow
<1>3. profile' = [profile EXCEPT ![postman[w].mail.to] = new] BY DEF StampProfile, Stamped
<1> HIDE DEF new
<1> QED BY <1>2, <1>3

\* A request changes its copy into what the person chooses.
LEMMA RequestIs ==
  ASSUME MailTypeOK, NEW r \in Receivers,
         Unsubscribe(r) \/ EditEmailSettings(r) \/ EditEmailOverview(r) \/ EditNotifications(r)
  PROVE  \E new \in ProfileRow, choice \in MailChoice :
           /\ OpenSettings(r, new, choice)
           /\ new.received = profile[r].received
           /\ Chosen(profile[r]) = past.chosen[r] => Chosen(new) = choice
<1>1. profile[r] \in ProfileRow /\ past.chosen[r] \in MailChoice BY DEF MailTypeOK, MailPast
<1>2. ASSUME NEW i \in Intervals \cup {"never"}, NEW n \in BOOLEAN
      PROVE  /\ EmailSettings(profile[r], i, n) \in ProfileRow /\ [interval |-> i, notices |-> n] \in MailChoice
             /\ EmailSettings(profile[r], i, n).received = profile[r].received
             /\ Chosen(EmailSettings(profile[r], i, n)) = [interval |-> i, notices |-> n]
  BY <1>1 DEF EmailSettings, ProfileRow, MailChoice, Chosen
<1>3. ASSUME NEW i \in Intervals \cup {"never"}
      PROVE  LET new == [profile[r] EXCEPT !.interval = i]
                 choice == [past.chosen[r] EXCEPT !.interval = i] IN
             /\ new \in ProfileRow /\ choice \in MailChoice /\ new.received = profile[r].received
             /\ Chosen(profile[r]) = past.chosen[r] => Chosen(new) = choice
  BY <1>1 DEF ProfileRow, MailChoice, Chosen
<1>4. ASSUME NEW n \in BOOLEAN
      PROVE  LET new == [profile[r] EXCEPT !.notices = n]
                 choice == [past.chosen[r] EXCEPT !.notices = n] IN
             /\ new \in ProfileRow /\ choice \in MailChoice /\ new.received = profile[r].received
             /\ Chosen(profile[r]) = past.chosen[r] => Chosen(new) = choice
  BY <1>1 DEF ProfileRow, MailChoice, Chosen
<1>5. CASE Unsubscribe(r)
  <2>1. PICK m \in past.handed :
          OpenSettings(r, Unsubscribed(profile[r], m.list),
            IF m.list \in Intervals THEN [past.chosen[r] EXCEPT !.interval = "never"]
            ELSE [past.chosen[r] EXCEPT !.notices = FALSE])
    BY <1>5 DEF Unsubscribe
  <2>2. m.list \in Lists BY <2>1 DEF MailTypeOK, MailPast, MailId
  <2>3. CASE m.list = "notices"
    BY <2>1, <2>3, MailingAssumption, <1>4 DEF Unsubscribed
  <2>4. CASE m.list \in Intervals
    <3>1. OpenSettings(r, [profile[r] EXCEPT !.interval = "never"], [past.chosen[r] EXCEPT !.interval = "never"])
      BY <2>1, <2>4, MailingAssumption DEF Unsubscribed
    <3>2. "never" \in Intervals \cup {"never"} OBVIOUS
    <3> DEFINE new == [profile[r] EXCEPT !.interval = "never"]
               choice == [past.chosen[r] EXCEPT !.interval = "never"]
    <3>3. /\ new \in ProfileRow /\ choice \in MailChoice /\ new.received = profile[r].received
          /\ Chosen(profile[r]) = past.chosen[r] => Chosen(new) = choice
      BY <3>2, <1>3
    <3>4. OpenSettings(r, new, choice) BY <3>1
    <3> HIDE DEF new, choice
    <3> QED BY <3>3, <3>4
  <2> QED BY <2>2, <2>3, <2>4 DEF Lists
<1>6. CASE EditEmailSettings(r) BY <1>2, <1>6 DEF EditEmailSettings
<1>7. CASE EditEmailOverview(r)
  BY <1>7, <1>3 DEF EditEmailOverview, KnownFrequency, EmailOverview
<1>8. CASE EditNotifications(r)
  BY <1>8, <1>4 DEF EditNotifications, NotificationSettings
<1> QED BY <1>5, <1>6, <1>7, <1>8

\* The job: it takes the addresses in order, bans the first, and goes on.
LEMMA FetchIs ==
  ASSUME MailTypeOK, FetchOrphans
  PROVE  \E list \in Seq(Orphan) :
           /\ bans' = [step |-> "on", todo |-> list, last |-> stamp]
           /\ \A i \in 1..Len(list) : list[i].at = bounce[list[i].who] /\ bounce[list[i].who] > stamp
           /\ \A i, j \in 1..Len(list) : i < j => list[i].who # list[j].who /\ list[i].at < list[j].at
<1>1. PICK s \in Orphans : bans' = [step |-> "on", todo |-> [i \in DOMAIN s |-> [who |-> s[i], at |-> bounce[s[i]]]], last |-> stamp]
  BY DEF FetchOrphans
<1> DEFINE these == {r \in Receivers : bounce[r] > stamp}
           n == Cardinality(these)
           list == [i \in DOMAIN s |-> [who |-> s[i], at |-> bounce[s[i]]]]
<1>2. s \in [1..n -> these] /\ \A i, j \in DOMAIN s : i < j => bounce[s[i]] < bounce[s[j]] BY <1>1 DEF Orphans
<1>3. n \in Nat
  <2>1. IsFiniteSet(these) BY MailingAssumption, FS_Subset
  <2> QED BY <2>1, FS_CardinalityType
<1>4. bounce \in [Receivers -> 0..MaxTime] BY DEF MailTypeOK
<1>5. \A i \in 1..n : s[i] \in Receivers /\ bounce[s[i]] > stamp /\ bounce[s[i]] \in 0..MaxTime BY <1>2, <1>4
<1> HIDE DEF n
<1>6. /\ list \in [1..n -> Orphan]
      /\ \A i \in 1..n : list[i].who = s[i] /\ list[i].at = bounce[s[i]]
  BY <1>2, <1>5 DEF Orphan
<1>7. list \in Seq(Orphan) /\ Len(list) = n BY <1>3, <1>6
<1> HIDE DEF list, these
<1>8. \A i \in 1..n : list[i].at = bounce[list[i].who] /\ bounce[list[i].who] > stamp BY <1>5, <1>6
<1>9. \A i, j \in 1..n : i < j => list[i].at < list[j].at BY <1>2, <1>6
<1>10. \A i, j \in 1..n : i < j => list[i].who # list[j].who
  BY <1>6, <1>2, <1>5
<1>11. bans' = [step |-> "on", todo |-> list, last |-> stamp] BY <1>1 DEF list
<1> QED BY <1>7, <1>8, <1>9, <1>10, <1>11

LEMMA JobIs ==
  ASSUME MailTypeOK, bans # Off
  PROVE  bans.step = "on" /\ bans.todo \in Seq(Orphan) /\ bans.last \in 0..MaxTime
         /\ bans = [step |-> "on", todo |-> bans.todo, last |-> bans.last]
BY DEF MailTypeOK

LEMMA NextBanIs ==
  ASSUME MailTypeOK, BanOne
  PROVE  /\ bans # Off /\ bans.todo \in Seq(Orphan) /\ bans.todo # <<>>
         /\ Head(bans.todo) \in Orphan /\ Head(bans.todo) = bans.todo[1] /\ Tail(bans.todo) \in Seq(Orphan)
         /\ bans' = [step |-> "on", todo |-> Tail(bans.todo), last |-> Head(bans.todo).at]
         /\ Head(bans.todo).who \in Receivers /\ Head(bans.todo).at \in 0..MaxTime
         /\ active' = active \ {Head(bans.todo).who}
         /\ past' = IF Head(bans.todo).who \in active THEN [past EXCEPT !.banned[Head(bans.todo).who] = @ + 1] ELSE past
         /\ UNCHANGED <<profile, published, viewed, box, postman, settings, now, due, bounce, stamp>>
<1>1. bans # Off /\ bans.todo # <<>> BY DEF BanOne
<1>2. bans.todo \in Seq(Orphan) /\ bans = [step |-> "on", todo |-> bans.todo, last |-> bans.last] BY <1>1, JobIs
<1>3. Head(bans.todo) \in Orphan /\ Head(bans.todo) = bans.todo[1] /\ Tail(bans.todo) \in Seq(Orphan) BY <1>1, <1>2
<1>4. Head(bans.todo).who \in Receivers /\ Head(bans.todo).at \in 0..MaxTime BY <1>3 DEF Orphan
<1>5. /\ bans' = [bans EXCEPT !.todo = Tail(bans.todo), !.last = Head(bans.todo).at]
      /\ active' = active \ {Head(bans.todo).who}
      /\ past' = IF Head(bans.todo).who \in active THEN [past EXCEPT !.banned[Head(bans.todo).who] = @ + 1] ELSE past
      /\ UNCHANGED <<profile, published, viewed, box, postman, settings, now, due, bounce, stamp>>
  BY DEF BanOne, LastReceived
<1>6. bans' = [step |-> "on", todo |-> Tail(bans.todo), last |-> Head(bans.todo).at]
  <2>1. ASSUME NEW job \in [step : {"on"}, todo : Seq(Orphan), last : 0..MaxTime], NEW t \in Seq(Orphan), NEW u \in 0..MaxTime
        PROVE  [job EXCEPT !.todo = t, !.last = u] = [step |-> "on", todo |-> t, last |-> u]
    <3> DEFINE next == [job EXCEPT !.todo = t, !.last = u]
    <3>1. next \in [step : {"on"}, todo : Seq(Orphan), last : 0..MaxTime] /\ next.todo = t /\ next.last = u OBVIOUS
    <3> HIDE DEF next
    <3>2. next = [step |-> "on", todo |-> t, last |-> u] BY <3>1
    <3> QED BY <3>2 DEF next
  <2>2. bans \in [step : {"on"}, todo : Seq(Orphan), last : 0..MaxTime] BY <1>1 DEF MailTypeOK
  <2> QED BY <1>3, <1>4, <1>5, <2>1, <2>2
<1> QED BY <1>1, <1>2, <1>3, <1>4, <1>5, <1>6

-----------------------------------------------------------------------------

-----------------------------------------------------------------------------
\* Every step keeps the types.
LEMMA MailTypesKept ==
  ASSUME MailTypeOK, MailsHeld, MailingNext PROVE MailTypeOK'
<1>0. /\ profile \in [Receivers -> ProfileRow] /\ active \subseteq Receivers /\ viewed \subseteq Receivers \X Texts
      /\ published \in [Texts -> 0..MaxTime] /\ DOMAIN box \subseteq MailId /\ box \in [DOMAIN box -> Instance]
      /\ postman \in [Postmen -> {Out} \cup Delivery] /\ settings \in {NoRequest} \cup MailForm
      /\ now \in 1..MaxTime /\ due \in [Intervals -> Nat]
      /\ bounce \in [Receivers -> 0..MaxTime] /\ stamp \in 0..MaxTime
      /\ bans \in {Off} \cup [step : {"on"}, todo : Seq(Orphan), last : 0..MaxTime] /\ past \in MailPast
      /\ MaxTime \in Nat \ {0}
  BY MailingAssumption DEF MailTypeOK
<1>1. CASE (\E i \in Intervals : SendOverview(i)) \/ (\E r \in Receivers : ScheduleNotificationMail(r))
  BY <1>0, <1>1, QueueMoves DEF MailTypeOK
<1>2. CASE \E w \in Postmen : \E m \in DOMAIN box : TakeMail(w, m)
  <2>1. PICK w \in Postmen, m \in DOMAIN box : TakeMail(w, m) BY <1>2
  <2>2. past' \in MailPast /\ postman' \in [Postmen -> {Out} \cup Delivery]
    <3>1. m.to \in Receivers BY <1>0 DEF MailId
    <3>2. Muddle(m.to) \in MailPast BY <3>1, MuddleIs
    <3> QED BY <1>0, <2>1, <3>2, TakeMailIs
  <2> QED BY <1>0, <2>1, <2>2, TakeMailIs DEF MailTypeOK
<1>3. CASE \E w \in Postmen : HandOver(w)
  <2>1. PICK w \in Postmen : HandOver(w) BY <1>3
  <2>2. postman' \in [Postmen -> {Out} \cup Delivery] BY <1>0, <2>1, GoesOnIs
  <2> QED BY <1>0, <2>1, <2>2, HandOverIs DEF HandOver, MailTypeOK
<1>4. CASE \E w \in Postmen : Refuse(w) \/ WriteLog(w) \/ PostmanDies(w)
  BY <1>4, <1>0, EndsIs DEF MailTypeOK
<1>5. CASE \E w \in Postmen : StampProfile(w)
  <2>1. PICK w \in Postmen : StampProfile(w) BY <1>5
  <2>2. postman' \in [Postmen -> {Out} \cup Delivery] BY <1>0, <2>1, GoesOnIs
  <2>3. profile' \in [Receivers -> ProfileRow] BY <1>0, <2>1, StampIs
  <2> QED BY <1>0, <2>1, <2>2, <2>3 DEF StampProfile, MailTypeOK
<1>6. CASE \E r \in Receivers : Unsubscribe(r) \/ EditEmailSettings(r) \/ EditEmailOverview(r) \/ EditNotifications(r)
  <2>1. PICK r \in Receivers, new \in ProfileRow, choice \in MailChoice : OpenSettings(r, new, choice)
    BY <1>6, RequestIs
  <2>2. settings' \in MailForm
    <3>1. [step |-> "open", who |-> r, row |-> new] \in MailForm BY DEF MailForm
    <3> QED BY <2>1, <3>1, OpenIs
  <2>3. past' \in MailPast BY <2>1, OpenIs
  <2>4. UNCHANGED <<profile, active, published, viewed, box, postman, now, due, bounce, bans, stamp>>
    BY <2>1 DEF OpenSettings
  <2> QED BY <1>0, <2>2, <2>3, <2>4 DEF MailTypeOK
<1>7. CASE SaveForm
  BY <1>0, <1>7 DEF SaveForm, MailForm, MailTypeOK
<1>8. CASE FetchOrphans
  <2>1. PICK list \in Seq(Orphan) : bans' = [step |-> "on", todo |-> list, last |-> stamp] BY <1>8, FetchIs
  <2>2. bans' \in [step : {"on"}, todo : Seq(Orphan), last : 0..MaxTime] BY <1>0, <2>1
  <2> QED BY <1>0, <1>8, <2>2 DEF FetchOrphans, MailTypeOK
<1>9. CASE BanOne
  <2> DEFINE first == Head(bans.todo)
  <2>1. /\ first.who \in Receivers /\ first.at \in 0..MaxTime /\ Tail(bans.todo) \in Seq(Orphan)
        /\ bans' = [step |-> "on", todo |-> Tail(bans.todo), last |-> first.at]
        /\ active' = active \ {first.who}
        /\ past' = IF first.who \in active THEN [past EXCEPT !.banned[first.who] = @ + 1] ELSE past
        /\ UNCHANGED <<profile, published, viewed, box, postman, settings, now, due, bounce, stamp>>
    BY <1>9, NextBanIs
  <2> HIDE DEF first
  <2>2. past' \in MailPast BY <2>1, BanOneIs
  <2>3. bans' \in [step : {"on"}, todo : Seq(Orphan), last : 0..MaxTime] BY <2>1
  <2> QED BY <1>0, <2>1, <2>2, <2>3 DEF MailTypeOK
<1>10. CASE StoreStamp
  BY <1>10, JobIs, <1>0 DEF StoreStamp, MailTypeOK
<1>11. CASE BannerDies
  BY <1>11, MishapIs, <1>0 DEF BannerDies, MailTypeOK
<1>12. CASE \E r \in Receivers : Bounces(r)
  <2>1. PICK r \in Receivers : Bounces(r) BY <1>12
  <2>2. past' \in MailPast BY <2>1, BouncesIs
  <2>3. bounce' \in [Receivers -> 0..MaxTime] /\ now' \in 1..MaxTime BY <1>0, <2>1 DEF Bounces
  <2> QED BY <1>0, <2>1, <2>2, <2>3 DEF Bounces, MailTypeOK
<1>13. CASE \E p \in Texts : Publish(p)
  BY <1>13, <1>0 DEF Publish, MailTypeOK
<1>14. CASE \E r \in Receivers, p \in Texts : OpenText(r, p)
  BY <1>14, <1>0 DEF OpenText, MailTypeOK
<1>15. CASE \E r \in Receivers : Reactivate(r)
  BY <1>15, <1>0 DEF Reactivate, MailTypeOK
<1>16. CASE Wait
  BY <1>0, <1>16 DEF Wait, MailTypeOK
<1> QED BY <1>1, <1>2, <1>3, <1>4, <1>5, <1>6, <1>7, <1>8, <1>9, <1>10, <1>11, <1>12, <1>13, <1>14, <1>15, <1>16
        DEF MailingNext, MailStep, BanStep

-----------------------------------------------------------------------------
\* Steps away from the mails leave their rows, the workers and what was handed over.
LEMMA MailsLeft ==
  ASSUME MailTypeOK,
         \/ \E r \in Receivers : Unsubscribe(r) \/ EditEmailSettings(r) \/ EditEmailOverview(r) \/ EditNotifications(r)
         \/ SaveForm
         \/ \E r \in Receivers, p \in Texts : OpenText(r, p)
         \/ \E p \in Texts : Publish(p)
         \/ BanStep
         \/ Wait
  PROVE  UNCHANGED <<box, postman>> /\ past'.handed = past.handed
<1>1. CASE \E r \in Receivers : Unsubscribe(r) \/ EditEmailSettings(r) \/ EditEmailOverview(r) \/ EditNotifications(r)
  BY <1>1, RequestIs, OpenIs DEF OpenSettings
<1>2. CASE SaveForm BY <1>2 DEF SaveForm
<1>3. CASE \E r \in Receivers, p \in Texts : OpenText(r, p) BY <1>3 DEF OpenText
<1>4. CASE \E p \in Texts : Publish(p) BY <1>4 DEF Publish
<1>5. CASE Wait BY <1>5 DEF Wait
<1>6. CASE FetchOrphans BY <1>6 DEF FetchOrphans
<1>7. CASE BanOne
  BY <1>7, NextBanIs, BanOneIs
<1>8. CASE StoreStamp BY <1>8 DEF StoreStamp
<1>9. CASE BannerDies BY <1>9, MishapIs DEF BannerDies
<1>10. CASE \E r \in Receivers : Bounces(r) BY <1>10, BouncesIs DEF Bounces
<1>11. CASE \E r \in Receivers : Reactivate(r) BY <1>11 DEF Reactivate
<1> QED BY <1>1, <1>2, <1>3, <1>4, <1>5, <1>6, <1>7, <1>8, <1>9, <1>10, <1>11 DEF BanStep

\* A mail stays with the worker that took it until it is finished or lost, and its log
\* says whether it was handed over.
LEMMA HeldKept ==
  ASSUME MailTypeOK, MailsHeld, SentIsLogged, MailingNext PROVE (MailsHeld /\ SentIsLogged)'
<1>0. postman \in [Postmen -> {Out} \cup Delivery] /\ box \in [DOMAIN box -> Instance] BY DEF MailTypeOK
<1>1. CASE (\E i \in Intervals : SendOverview(i)) \/ (\E r \in Receivers : ScheduleNotificationMail(r))
  BY <1>1, QueueMoves DEF MailsHeld, SentIsLogged
<1>2. CASE \E w \in Postmen : \E m \in DOMAIN box : TakeMail(w, m)
  <2>1. PICK w \in Postmen, m \in DOMAIN box : TakeMail(w, m) BY <1>2
  <2>2. /\ m \in MailId /\ box[m].state = "queued" /\ postman[w] = Out
        /\ DOMAIN box' = DOMAIN box /\ \A n \in DOMAIN box \ {m} : box'[n] = box[n]
    BY <2>1, TakeMailIs
  <2>3. m \notin past.handed /\ \A v \in Postmen : postman[v] # Out => postman[v].mail # m BY <2>2 DEF MailsHeld
  <2>4. CASE box'[m].state = "finished" /\ box'[m].log = "none" /\ UNCHANGED <<postman, past>>
    BY <2>2, <2>3, <2>4 DEF MailsHeld, SentIsLogged
  <2>5. ASSUME NEW next \in Delivery,
               /\ box'[m].state = "taken" /\ postman' = [postman EXCEPT ![w] = next]
               /\ next.step = "built" /\ next.mail = m /\ (m.list = "notices" => next.texts = {})
               /\ past' = IF m.list = "notices" THEN past ELSE Muddle(m.to)
        PROVE  (MailsHeld /\ SentIsLogged)'
    <3>1. past'.handed = past.handed
      <4>1. m.to \in Receivers BY <2>2 DEF MailId
      <4> QED BY <2>5, <4>1, MuddleIs
    <3>2. next # Out BY <2>5, OutIs
    <3>3. postman'[w] = next /\ \A v \in Postmen \ {w} : postman'[v] = postman[v] BY <1>0, <2>5
    <3>4. ASSUME NEW v \in Postmen, postman'[v] # Out
          PROVE  /\ postman'[v].mail \in DOMAIN box' /\ box'[postman'[v].mail].state = "taken"
                 /\ postman'[v].mail \in past'.handed <=> postman'[v].step # "built"
                 /\ postman'[v].mail.list = "notices" => postman'[v].texts = {} /\ postman'[v].step # "stamped"
      BY <2>2, <2>3, <2>5, <3>1, <3>3, <3>4 DEF MailsHeld
    <3>5. ASSUME NEW u \in Postmen, NEW v \in Postmen, postman'[u] # Out, postman'[v] # Out, postman'[u].mail = postman'[v].mail
          PROVE  u = v
      BY <2>3, <2>5, <3>3, <3>5 DEF MailsHeld
    <3>6. past'.handed \subseteq DOMAIN box' /\ \A n \in past'.handed : box'[n].state # "queued"
      BY <2>2, <2>3, <3>1 DEF MailsHeld
    <3>7. SentIsLogged' BY <2>2, <2>5, <3>1 DEF SentIsLogged
    <3> QED BY <3>4, <3>5, <3>6, <3>7 DEF MailsHeld
  <2> QED BY <2>1, <2>4, <2>5, TakeMailIs
<1>3. CASE \E w \in Postmen : HandOver(w)
  <2>1. PICK w \in Postmen : HandOver(w) BY <1>3
  <2>2. PICK next \in Delivery :
          /\ postman[w] # Out /\ postman' = [postman EXCEPT ![w] = next]
          /\ next.mail = postman[w].mail /\ next.row = postman[w].row /\ next.texts = postman[w].texts
          /\ postman[w].step = "built" /\ next.step = "handed"
    BY <2>1, GoesOnIs
  <2>3. box' = box /\ past'.handed = past.handed \cup {postman[w].mail} BY <2>1, HandOverIs DEF HandOver
  <2>4. next # Out /\ postman'[w] = next /\ \A v \in Postmen \ {w} : postman'[v] = postman[v] BY <1>0, <2>2, OutIs
  <2>5. /\ postman[w].mail \in DOMAIN box /\ box[postman[w].mail].state = "taken"
        /\ postman[w].mail.list = "notices" => postman[w].texts = {}
        /\ \A v \in Postmen \ {w} : postman[v] # Out => postman[v].mail # postman[w].mail
    BY <2>2 DEF MailsHeld
  <2>6. ASSUME NEW v \in Postmen, postman'[v] # Out
        PROVE  /\ postman'[v].mail \in DOMAIN box' /\ box'[postman'[v].mail].state = "taken"
               /\ postman'[v].mail \in past'.handed <=> postman'[v].step # "built"
               /\ postman'[v].mail.list = "notices" => postman'[v].texts = {} /\ postman'[v].step # "stamped"
    BY <2>2, <2>3, <2>4, <2>5, <2>6 DEF MailsHeld
  <2>7. ASSUME NEW u \in Postmen, NEW v \in Postmen, postman'[u] # Out, postman'[v] # Out, postman'[u].mail = postman'[v].mail
        PROVE  u = v
    BY <2>2, <2>4, <2>5, <2>7 DEF MailsHeld
  <2>8. past'.handed \subseteq DOMAIN box' /\ \A n \in past'.handed : box'[n].state # "queued"
    BY <2>3, <2>5 DEF MailsHeld
  <2>9. SentIsLogged' BY <2>3, <2>5 DEF SentIsLogged
  <2> QED BY <2>6, <2>7, <2>8, <2>9 DEF MailsHeld
<1>4. CASE \E w \in Postmen : Refuse(w) \/ WriteLog(w) \/ PostmanDies(w)
  <2>1. PICK w \in Postmen : Refuse(w) \/ WriteLog(w) \/ PostmanDies(w) BY <1>4
  <2> DEFINE m == postman[w].mail
  <2>2. /\ postman[w] # Out /\ postman' = [postman EXCEPT ![w] = Out]
        /\ DOMAIN box' = DOMAIN box /\ \A n \in DOMAIN box \ {m} : box'[n] = box[n]
        /\ box'[m].state \in {"finished", "lost"}
        /\ box'[m].state = "finished" => (box'[m].log = "sent" <=> m \in past.handed)
        /\ past'.handed = past.handed
    BY <2>1, EndsIs
  <2>3. postman'[w] = Out /\ \A v \in Postmen \ {w} : postman'[v] = postman[v] BY <1>0, <2>2
  <2>4. m \in DOMAIN box /\ \A v \in Postmen \ {w} : postman[v] # Out => postman[v].mail # m BY <2>2 DEF MailsHeld
  <2> HIDE DEF m
  <2>5. ASSUME NEW v \in Postmen, postman'[v] # Out
        PROVE  v # w /\ postman'[v] = postman[v] /\ postman[v] # Out /\ postman[v].mail # m
    BY <2>3, <2>4, <2>5
  <2>6. MailsHeld' BY <2>2, <2>4, <2>5 DEF MailsHeld
  <2>7. SentIsLogged' BY <2>2, <2>4 DEF SentIsLogged
  <2> QED BY <2>6, <2>7
<1>5. CASE \E w \in Postmen : StampProfile(w)
  BY <1>5, GoesOnIs, <1>0, OutIs DEF StampProfile, MailsHeld, SentIsLogged
<1>6. CASE UNCHANGED <<box, postman>> /\ past'.handed = past.handed BY <1>6 DEF MailsHeld, SentIsLogged
<1> QED BY <1>1, <1>2, <1>3, <1>4, <1>5, <1>6, MailsLeft DEF MailingNext, MailStep

-----------------------------------------------------------------------------
\* The copies of profiles that workers hold, after a step of a worker.
LEMMA CopiesChange ==
  ASSUME MailTypeOK, NEW w \in Postmen, NEW next \in {Out} \cup Delivery, postman' = [postman EXCEPT ![w] = next],
         NEW r \in Receivers, NEW v \in Postmen
  PROVE  /\ v # w => (CopyOf(v, r)' <=> CopyOf(v, r)) /\ postman'[v] = postman[v]
         /\ CopyOf(w, r)' <=> next.step \in {"built", "handed"} /\ next.mail.to = r /\ next.mail.list # "notices"
         /\ postman'[w] = next
BY DEF MailTypeOK, CopyOf

LEMMA NoCopyOut ==
  ASSUME NEW w \in Postmen, NEW r \in Receivers, postman[w] = Out \/ postman[w].step = "stamped" PROVE ~CopyOf(w, r)
BY OutIs DEF CopyOf

\* Steps that neither read nor write a profile.
LEMMA ProfilesLeft ==
  ASSUME MailTypeOK,
         \/ \E i \in Intervals : SendOverview(i)
         \/ \E r \in Receivers : ScheduleNotificationMail(r)
         \/ \E r \in Receivers, p \in Texts : OpenText(r, p)
         \/ \E p \in Texts : Publish(p)
         \/ BanStep
         \/ Wait
  PROVE  /\ UNCHANGED <<profile, postman, settings>> /\ past'.muddled = past.muddled
         /\ past'.chosen = past.chosen /\ past'.told = past.told
<1>1. CASE (\E i \in Intervals : SendOverview(i)) \/ (\E r \in Receivers : ScheduleNotificationMail(r))
  BY <1>1, QueueMoves
<1>2. CASE \E r \in Receivers, p \in Texts : OpenText(r, p) BY <1>2 DEF OpenText
<1>3. CASE \E p \in Texts : Publish(p) BY <1>3 DEF Publish
<1>4. CASE Wait BY <1>4 DEF Wait
<1>5. CASE FetchOrphans BY <1>5 DEF FetchOrphans
<1>6. CASE BanOne
  BY <1>6, NextBanIs, BanOneIs
<1>7. CASE StoreStamp BY <1>7 DEF StoreStamp
<1>8. CASE BannerDies BY <1>8, MishapIs DEF BannerDies
<1>9. CASE \E r \in Receivers : Bounces(r) BY <1>9, BouncesIs DEF Bounces
<1>10. CASE \E r \in Receivers : Reactivate(r) BY <1>10 DEF Reactivate
<1> QED BY <1>1, <1>2, <1>3, <1>4, <1>5, <1>6, <1>7, <1>8, <1>9, <1>10 DEF BanStep

\* Who takes a mail, by what it changes of the copies.
LEMMA TakeCopies ==
  ASSUME MailTypeOK, NEW w \in Postmen, NEW m \in DOMAIN box, TakeMail(w, m), ~UNCHANGED <<postman, past>>
  PROVE  /\ m.to \in Receivers /\ UNCHANGED <<profile, published, settings, now>>
         /\ past'.told = past.told /\ past'.chosen = past.chosen /\ past.muddled \subseteq past'.muddled
         /\ m.list # "notices" /\ Copied(m.to) => m.to \in past'.muddled
         /\ \A r \in Receivers, v \in Postmen :
              /\ CopyOf(v, r)' <=> CopyOf(v, r) \/ (v = w /\ r = m.to /\ m.list # "notices")
              /\ v # w => postman'[v] = postman[v]
         /\ postman'[w].step = "built" /\ postman'[w].row = profile[m.to]
         /\ \A p \in postman'[w].texts : published[p] > 0 /\ published[p] >= profile[m.to].received
         /\ \A r \in Receivers : ~CopyOf(w, r)
<1>1. m.to \in Receivers /\ postman[w] = Out /\ UNCHANGED <<profile, published, settings, now>>
  BY TakeMailIs DEF MailId
<1>2. PICK next \in Delivery :
        /\ postman' = [postman EXCEPT ![w] = next]
        /\ next.step = "built" /\ next.mail = m /\ next.row = profile[m.to]
        /\ \A p \in next.texts : published[p] > 0 /\ published[p] >= profile[m.to].received
        /\ past' = IF m.list = "notices" THEN past ELSE Muddle(m.to)
  BY TakeMailIs
<1>3. /\ past'.told = past.told /\ past'.chosen = past.chosen /\ past.muddled \subseteq past'.muddled
      /\ m.list # "notices" /\ Copied(m.to) => m.to \in past'.muddled
  BY <1>1, <1>2, MuddleIs
<1>4. ASSUME NEW r \in Receivers, NEW v \in Postmen
      PROVE  /\ CopyOf(v, r)' <=> CopyOf(v, r) \/ (v = w /\ r = m.to /\ m.list # "notices")
             /\ v # w => postman'[v] = postman[v]
             /\ postman'[w] = next
  <2>1. ~CopyOf(w, r) BY <1>1, NoCopyOut
  <2>2. /\ v # w => (CopyOf(v, r)' <=> CopyOf(v, r)) /\ postman'[v] = postman[v]
        /\ CopyOf(w, r)' <=> next.step \in {"built", "handed"} /\ next.mail.to = r /\ next.mail.list # "notices"
        /\ postman'[w] = next
    BY <1>2, CopiesChange
  <2> QED BY <1>2, <2>1, <2>2
<1>5. \A r \in Receivers : ~CopyOf(w, r) BY <1>1, NoCopyOut
<1> QED BY <1>1, <1>2, <1>3, <1>4, <1>5

\* Who gives its work up, or has stamped it, holds no copy any more.
LEMMA CopyGone ==
  ASSUME MailTypeOK, MailsHeld, NEW w \in Postmen, Refuse(w) \/ WriteLog(w) \/ PostmanDies(w) \/ StampProfile(w)
  PROVE  \A r \in Receivers, v \in Postmen :
           /\ CopyOf(v, r)' <=> CopyOf(v, r) /\ v # w
           /\ v # w => postman'[v] = postman[v]
BY EndsIs, GoesOnIs, OutIs, CopiesChange

\* Handing a mail over leaves the copy.
LEMMA CopyStays ==
  ASSUME MailTypeOK, NEW w \in Postmen, HandOver(w)
  PROVE  /\ postman[w] # Out /\ postman[w].step = "built" /\ postman'[w].step = "handed"
         /\ \A r \in Receivers, v \in Postmen :
              /\ CopyOf(v, r)' <=> CopyOf(v, r)
              /\ postman'[v].row = postman[v].row
              /\ v # w => postman'[v] = postman[v]
BY GoesOnIs DEF MailTypeOK, CopyOf

-----------------------------------------------------------------------------
\* Where no two saves overlapped, the one copy of a profile is what the row says, and
\* what a person chose is what the row, or the request that is open, says.
LEMMA CopiesKept ==
  ASSUME MailTypeOK, MailsHeld, CopiesAlone, FormCurrent, ChoiceKept, MailingNext
  PROVE  (CopiesAlone /\ FormCurrent /\ ChoiceKept)'
<1>0. /\ postman \in [Postmen -> {Out} \cup Delivery] /\ profile \in [Receivers -> ProfileRow] /\ past \in MailPast
      /\ settings \in {NoRequest} \cup MailForm
  BY DEF MailTypeOK
<1>1. CASE \E w \in Postmen : \E m \in DOMAIN box : TakeMail(w, m)
  <2>1. PICK w \in Postmen, m \in DOMAIN box : TakeMail(w, m) BY <1>1
  <2>2. UNCHANGED <<profile, settings>> BY <2>1, TakeMailIs
  <2>3. CASE UNCHANGED <<postman, past>> BY <2>2, <2>3 DEF CopiesAlone, FormCurrent, ChoiceKept, CopyOf
  <2>4. CASE ~UNCHANGED <<postman, past>>
    <3>1. /\ m.to \in Receivers /\ past'.chosen = past.chosen /\ past.muddled \subseteq past'.muddled
          /\ m.list # "notices" /\ Copied(m.to) => m.to \in past'.muddled
          /\ \A r \in Receivers, v \in Postmen :
               /\ CopyOf(v, r)' <=> CopyOf(v, r) \/ (v = w /\ r = m.to /\ m.list # "notices")
               /\ v # w => postman'[v] = postman[v]
          /\ postman'[w].row = profile[m.to]
          /\ \A r \in Receivers : ~CopyOf(w, r)
      BY <2>1, <2>4, TakeCopies
    <3>2. ASSUME NEW r \in Receivers \ past'.muddled, NEW v \in Postmen, CopyOf(v, r)'
          PROVE  /\ settings' # NoRequest => settings'.who # r
                 /\ \A u \in Postmen : CopyOf(u, r)' => u = v
                 /\ postman'[v].row = profile'[r]
      BY <3>1, <3>2, CopiedIs, <2>2 DEF CopiesAlone
    <3>3. CopiesAlone' BY <3>2 DEF CopiesAlone
    <3>4. FormCurrent' BY <2>2, <3>1 DEF FormCurrent
    <3>5. ChoiceKept' BY <2>2, <3>1 DEF ChoiceKept
    <3> QED BY <3>3, <3>4, <3>5
  <2> QED BY <2>3, <2>4
<1>2. CASE \E w \in Postmen : HandOver(w)
  <2>1. PICK w \in Postmen : HandOver(w) BY <1>2
  <2>2. UNCHANGED <<profile, settings>> /\ past'.muddled = past.muddled /\ past'.chosen = past.chosen
    BY <2>1, HandOverIs DEF HandOver
  <2>3. \A r \in Receivers, v \in Postmen : (CopyOf(v, r)' <=> CopyOf(v, r)) /\ postman'[v].row = postman[v].row
    BY <2>1, CopyStays
  <2>4. CopiesAlone' BY <2>2, <2>3 DEF CopiesAlone
  <2> QED BY <2>2, <2>4 DEF FormCurrent, ChoiceKept
<1>3. CASE \E w \in Postmen : Refuse(w) \/ WriteLog(w) \/ PostmanDies(w)
  BY <1>3, EndsIs, CopyGone DEF CopiesAlone, FormCurrent, ChoiceKept
<1>4. CASE \E w \in Postmen : StampProfile(w)
  <2>1. PICK w \in Postmen : StampProfile(w) BY <1>4
  <2> DEFINE to == postman[w].mail.to
  <2>2. to \in Receivers /\ CopyOf(w, to) BY <2>1, NotOut, MailInHand DEF StampProfile, CopyOf
  <2>3. PICK new \in ProfileRow :
          profile' = [profile EXCEPT ![to] = new] /\ new.interval = postman[w].row.interval /\ new.notices = postman[w].row.notices
    BY <2>1, StampIs
  <2>4. UNCHANGED <<settings, past>> BY <2>1 DEF StampProfile
  <2>5. \A r \in Receivers, v \in Postmen : CopyOf(v, r)' => CopyOf(v, r) /\ v # w /\ postman'[v] = postman[v]
    BY <2>1, CopyGone
  <2> HIDE DEF to
  <2>6. profile'[to] = new /\ \A r \in Receivers \ {to} : profile'[r] = profile[r] BY <1>0, <2>2, <2>3
  <2>7. to \notin past.muddled => /\ settings # NoRequest => settings.who # to
                                  /\ \A v \in Postmen : CopyOf(v, to) => v = w
                                  /\ postman[w].row = profile[to]
    BY <2>2 DEF CopiesAlone
  <2>8. CopiesAlone'
    BY <2>4, <2>5, <2>7, <2>6 DEF CopiesAlone
  <2>9. FormCurrent'
    BY <2>4, <1>0, <2>7, <2>6 DEF FormCurrent, MailForm
  <2>10. ChoiceKept'
    BY <2>4, <2>3, <2>6, <2>7 DEF ChoiceKept
  <2> QED BY <2>8, <2>9, <2>10
<1>5. CASE \E r \in Receivers : Unsubscribe(r) \/ EditEmailSettings(r) \/ EditEmailOverview(r) \/ EditNotifications(r)
  <2>1. PICK r \in Receivers, new \in ProfileRow, choice \in MailChoice :
          OpenSettings(r, new, choice) /\ new.received = profile[r].received /\ (Chosen(profile[r]) = past.chosen[r] => Chosen(new) = choice)
    BY <1>5, RequestIs
  <2>2. /\ past'.chosen = [past.chosen EXCEPT ![r] = choice]
        /\ past'.muddled = IF Copied(r) THEN past.muddled \cup {r} ELSE past.muddled
        /\ settings = NoRequest /\ settings' = [step |-> "open", who |-> r, row |-> new]
    BY <2>1, OpenIs
  <2>3. UNCHANGED <<profile, postman>> BY <2>1 DEF OpenSettings
  <2>4. settings' # NoRequest /\ settings'.who = r /\ settings'.row = new BY <2>2 DEF NoRequest
  <2>5. past'.chosen[r] = choice /\ \A s \in Receivers \ {r} : past'.chosen[s] = past.chosen[s]
    BY <1>0, <2>2 DEF MailPast
  <2>6. r \notin past'.muddled => ~Copied(r) /\ r \notin past.muddled BY <2>2
  <2>7. CopiesAlone'
    BY <2>3, <2>2, <2>6, CopiedIs, <2>4 DEF CopiesAlone, CopyOf
  <2>8. FormCurrent'
    <3> SUFFICES ASSUME r \notin past'.muddled PROVE Chosen(new) = choice /\ new.received = profile[r].received
      BY <2>3, <2>4, <2>5 DEF FormCurrent
    <3>1. Chosen(profile[r]) = past.chosen[r] BY <2>2, <2>6 DEF ChoiceKept, Chosen
    <3> QED BY <2>1, <3>1
  <2>9. ChoiceKept' BY <2>2, <2>3, <2>4, <2>5 DEF ChoiceKept
  <2> QED BY <2>7, <2>8, <2>9
<1>6. CASE SaveForm
  <2> DEFINE to == settings.who
             new == settings.row
  <2>1. /\ settings # NoRequest /\ settings \in MailForm /\ profile' = [profile EXCEPT ![to] = new] /\ settings' = NoRequest
        /\ UNCHANGED <<postman, past>>
    BY <1>0, <1>6 DEF SaveForm
  <2>2. to \in Receivers BY <2>1 DEF MailForm
  <2>3. profile'[to] = new /\ \A r \in Receivers \ {to} : profile'[r] = profile[r] BY <1>0, <2>1, <2>2
  <2>4. to \notin past.muddled => Chosen(new) = past.chosen[to] /\ \A v \in Postmen : ~CopyOf(v, to)
    BY <2>1, <2>2 DEF FormCurrent, CopiesAlone
  <2> HIDE DEF to, new
  <2>5. \A r \in Receivers, v \in Postmen : CopyOf(v, r)' <=> CopyOf(v, r) BY <2>1 DEF CopyOf
  <2>6. CopiesAlone'
    BY <2>1, <2>4, <2>5, <2>3 DEF CopiesAlone
  <2>7. FormCurrent' BY <2>1 DEF FormCurrent
  <2>8. ChoiceKept'
    BY <2>1, <2>3, <2>4 DEF ChoiceKept, Chosen, to
  <2> QED BY <2>6, <2>7, <2>8
<1>7. CASE UNCHANGED <<profile, postman, settings>> /\ past'.muddled = past.muddled /\ past'.chosen = past.chosen
  BY <1>7 DEF CopiesAlone, FormCurrent, ChoiceKept, CopyOf
<1> QED BY <1>1, <1>2, <1>3, <1>4, <1>5, <1>6, <1>7, ProfilesLeft DEF MailingNext, MailStep

-----------------------------------------------------------------------------
\* What was told is older than the overview the profile remembers, so that the next
\* one does not tell it again.
LEMMA ToldKept ==
  ASSUME MailTypeOK, MailsHeld, CopiesAlone, FormCurrent, Unpublished, NotYetTold, ToldBefore, MailingNext
  PROVE  (Unpublished /\ NotYetTold /\ ToldBefore)'
<1>0. /\ profile \in [Receivers -> ProfileRow] /\ past \in MailPast /\ published \in [Texts -> 0..MaxTime]
      /\ settings \in {NoRequest} \cup MailForm /\ now \in 1..MaxTime /\ MaxTime \in Nat
      /\ \A r \in Receivers : profile[r].received \in Nat
      /\ \A p \in Texts : published[p] \in Nat
      /\ \A p \in Texts, r \in Receivers : past.told[p][r] \in Nat
  BY MailingAssumption, RowIs DEF MailTypeOK, MailPast
<1>1. CASE \E w \in Postmen : \E m \in DOMAIN box : TakeMail(w, m)
  <2>1. PICK w \in Postmen, m \in DOMAIN box : TakeMail(w, m) BY <1>1
  <2>2. UNCHANGED <<profile, published, now>> BY <2>1, TakeMailIs
  <2>3. CASE UNCHANGED <<postman, past>> BY <2>2, <2>3 DEF Unpublished, NotYetTold, ToldBefore, CopyOf
  <2>4. CASE ~UNCHANGED <<postman, past>>
    <3>1. /\ m.to \in Receivers /\ past'.told = past.told /\ past.muddled \subseteq past'.muddled
          /\ m.list # "notices" /\ Copied(m.to) => m.to \in past'.muddled
          /\ \A r \in Receivers, v \in Postmen :
               /\ CopyOf(v, r)' <=> CopyOf(v, r) \/ (v = w /\ r = m.to /\ m.list # "notices")
               /\ v # w => postman'[v] = postman[v]
          /\ \A p \in postman'[w].texts : published[p] > 0 /\ published[p] >= profile[m.to].received
          /\ \A r \in Receivers : ~CopyOf(w, r)
          /\ postman'[w].texts \subseteq Texts
      BY MailTypesKept, <2>1, <2>4, TakeCopies, OutIs DEF MailTypeOK, Delivery
    <3>2. ASSUME NEW r \in Receivers \ past'.muddled, NEW v \in Postmen, CopyOf(v, r)', postman'[v].step = "built"
          PROVE  \A p \in postman'[v].texts : past'.told[p][r] = 0 /\ published'[p] > 0
      <4>1. r \in Receivers \ past.muddled BY <3>1
      <4>2. CASE v # w BY <2>2, <3>1, <3>2, <4>1, <4>2 DEF NotYetTold
      <4>3. CASE v = w
        <5>1. r = m.to /\ ~Copied(r) BY <3>1, <3>2, <4>3
        <5> SUFFICES ASSUME NEW p \in postman'[w].texts PROVE past.told[p][r] = 0 /\ published[p] > 0
          BY <2>2, <3>1, <4>3
        <5>2. published[p] > 0 /\ published[p] >= profile[r].received /\ p \in Texts BY <3>1, <5>1
        <5>3. ~(published[p] < profile[r].received) BY <1>0, <5>2
        <5> QED BY <4>1, <5>1, <5>2, <5>3, CopiedIs DEF ToldBefore
      <4> QED BY <4>2, <4>3
    <3>3. NotYetTold' BY <3>2 DEF NotYetTold
    <3>4. ToldBefore'
      BY <2>2, <3>1 DEF ToldBefore
    <3> QED BY <2>2, <3>3, <3>4 DEF Unpublished
  <2> QED BY <2>3, <2>4
<1>2. CASE \E w \in Postmen : HandOver(w)
  <2>1. PICK w \in Postmen : HandOver(w) BY <1>2
  <2> DEFINE m == postman[w].mail
             texts == postman[w].texts
  <2>2. /\ UNCHANGED <<profile, published, now>> /\ past'.muddled = past.muddled
        /\ \A p \in Texts, r \in Receivers : past'.told[p][r] = past.told[p][r] + IF p \in texts /\ r = m.to THEN 1 ELSE 0
    BY <2>1, HandOverIs DEF HandOver
  <2>3. /\ postman[w] # Out /\ postman[w].step = "built" /\ postman'[w].step = "handed"
        /\ \A r \in Receivers, v \in Postmen : (CopyOf(v, r)' <=> CopyOf(v, r)) /\ (v # w => postman'[v] = postman[v])
    BY <2>1, CopyStays
  <2>4. m.list = "notices" => texts = {} BY <2>3 DEF MailsHeld
  <2>5. ASSUME NEW r \in Receivers \ past.muddled, NEW p \in texts, r = m.to
        PROVE  CopyOf(w, r) /\ past.told[p][r] = 0 /\ published[p] > 0
    BY <2>4, <2>5, <2>3 DEF CopyOf, NotYetTold
  <2> HIDE DEF m, texts
  <2>6. NotYetTold'
    <3> SUFFICES ASSUME NEW r \in Receivers \ past.muddled, NEW v \in Postmen, CopyOf(v, r), postman'[v].step = "built",
                        NEW p \in postman'[v].texts
                 PROVE  past'.told[p][r] = 0 /\ published[p] > 0
      BY <2>2, <2>3 DEF NotYetTold
    <3>1. v # w /\ postman'[v] = postman[v] BY <2>3
    <3>2. past.told[p][r] = 0 /\ published[p] > 0 /\ p \in Texts
      <4>1. postman[v] # Out BY NoCopyOut
      <4> QED BY <3>1, <4>1, MailInHand DEF NotYetTold
    <3>3. ~(p \in texts /\ r = m.to) BY <2>5, <3>1 DEF CopiesAlone
    <3> QED BY <2>2, <3>2, <3>3
  <2>7. ToldBefore'
    BY <2>2, <2>3, <2>5, <1>0 DEF ToldBefore
  <2> QED BY <2>2, <2>6, <2>7 DEF Unpublished
<1>3. CASE \E w \in Postmen : Refuse(w) \/ WriteLog(w) \/ PostmanDies(w)
  BY <1>3, EndsIs, CopyGone DEF NotYetTold, CopyOf, ToldBefore, Unpublished
<1>4. CASE \E w \in Postmen : StampProfile(w)
  <2>1. PICK w \in Postmen : StampProfile(w) BY <1>4
  <2> DEFINE to == postman[w].mail.to
  <2>2. to \in Receivers /\ CopyOf(w, to) /\ \A r \in Receivers \ {to} : ~CopyOf(w, r)
    BY <2>1, NotOut, MailInHand DEF StampProfile, CopyOf
  <2>3. PICK new \in ProfileRow : profile' = [profile EXCEPT ![to] = new] /\ new.received = now BY <2>1, StampIs
  <2>4. UNCHANGED <<published, now, past>> BY <2>1 DEF StampProfile
  <2>5. \A r \in Receivers, v \in Postmen : (CopyOf(v, r)' <=> CopyOf(v, r) /\ v # w) /\ (v # w => postman'[v] = postman[v])
    BY <2>1, CopyGone
  <2> HIDE DEF to
  <2>6. profile'[to].received = now /\ \A r \in Receivers \ {to} : profile'[r] = profile[r] BY <1>0, <2>2, <2>3
  <2>7. NotYetTold' BY <2>4, <2>5 DEF NotYetTold
  <2>8. ToldBefore'
    <3> SUFFICES ASSUME NEW r \in Receivers \ past.muddled, NEW p \in Texts, past.told[p][r] # 0
                 PROVE  /\ past.told[p][r] = 1 /\ published[p] > 0
                        /\ published[p] < profile'[r].received \/ \E v \in Postmen : CopyOf(v, r)' /\ postman'[v].step = "handed"
      BY <2>4 DEF ToldBefore
    <3>1. /\ past.told[p][r] = 1 /\ published[p] > 0
          /\ published[p] < profile[r].received \/ \E v \in Postmen : CopyOf(v, r) /\ postman[v].step = "handed"
      BY DEF ToldBefore
    <3>2. CASE r = to
      <4>1. published[p] < now BY DEF Unpublished
      <4> QED BY <2>6, <3>1, <3>2, <4>1
    <3>3. CASE r # to
      BY <2>2, <2>6, <3>3, <2>5, <3>1
    <3> QED BY <3>2, <3>3
  <2> QED BY <2>4, <2>7, <2>8 DEF Unpublished
<1>5. CASE \E r \in Receivers : Unsubscribe(r) \/ EditEmailSettings(r) \/ EditEmailOverview(r) \/ EditNotifications(r)
  <2>1. PICK r \in Receivers, new \in ProfileRow, choice \in MailChoice : OpenSettings(r, new, choice)
    BY <1>5, RequestIs
  <2>2. past.muddled \subseteq past'.muddled /\ past'.told = past.told BY <2>1, OpenIs
  <2>3. UNCHANGED <<profile, published, postman, now>> BY <2>1 DEF OpenSettings
  <2> QED BY <2>2, <2>3 DEF Unpublished, NotYetTold, ToldBefore, CopyOf
<1>6. CASE SaveForm
  <2> DEFINE to == settings.who
             new == settings.row
  <2>1. /\ settings # NoRequest /\ settings \in MailForm /\ profile' = [profile EXCEPT ![to] = new]
        /\ UNCHANGED <<postman, past, published, now>>
    BY <1>0, <1>6 DEF SaveForm
  <2>2. to \in Receivers BY <2>1 DEF MailForm
  <2>3. profile'[to] = new /\ \A r \in Receivers \ {to} : profile'[r] = profile[r] BY <1>0, <2>1, <2>2
  <2>4. to \notin past.muddled => new.received = profile[to].received BY <2>1, <2>2 DEF FormCurrent
  <2> HIDE DEF to, new
  <2>5. \A r \in Receivers \ past.muddled : profile'[r].received = profile[r].received BY <2>3, <2>4
  <2>6. ToldBefore' BY <2>1, <2>5 DEF ToldBefore, CopyOf
  <2>7. NotYetTold' BY <2>1 DEF NotYetTold, CopyOf
  <2> QED BY <2>1, <2>6, <2>7 DEF Unpublished
<1>7. CASE \E p \in Texts : Publish(p)
  <2>1. PICK p \in Texts : Publish(p) BY <1>7
  <2>2. /\ published[p] = 0 /\ published' = [published EXCEPT ![p] = now] /\ now' = now + 1
        /\ UNCHANGED <<profile, postman, past>>
    BY <2>1 DEF Publish
  <2>3. published'[p] = now /\ \A q \in Texts \ {p} : published'[q] = published[q] BY <1>0, <2>2
  <2>4. Unpublished' BY <1>0, <2>2, <2>3 DEF Unpublished
  <2>5. NotYetTold'
    BY <2>2, NoCopyOut, MailInHand, <1>0, <2>3 DEF NotYetTold, CopyOf
  <2>6. ToldBefore'
    BY <2>2, <1>0, <2>3 DEF ToldBefore, CopyOf
  <2> QED BY <2>4, <2>5, <2>6
<1>8. CASE \E r \in Receivers : Bounces(r)
  <2>1. PICK r \in Receivers : Bounces(r) BY <1>8
  <2>2. now' = now + 1 /\ UNCHANGED <<profile, published, postman>> /\ past'.told = past.told /\ past'.muddled = past.muddled
    BY <2>1, BouncesIs DEF Bounces
  <2>3. Unpublished' BY <1>0, <2>2 DEF Unpublished
  <2> QED BY <2>2, <2>3 DEF NotYetTold, ToldBefore, CopyOf
<1>9. CASE Wait
  BY <1>9, <1>0 DEF Wait, Unpublished, NotYetTold, ToldBefore, CopyOf
<1>10. CASE UNCHANGED <<profile, published, postman, now>> /\ past'.muddled = past.muddled /\ past'.told = past.told
  BY <1>10 DEF Unpublished, NotYetTold, ToldBefore, CopyOf
<1>11. ASSUME \/ \E i \in Intervals : SendOverview(i)
              \/ \E r \in Receivers : ScheduleNotificationMail(r)
              \/ \E r \in Receivers, p \in Texts : OpenText(r, p)
              \/ FetchOrphans \/ BanOne \/ StoreStamp \/ BannerDies
              \/ \E r \in Receivers : Reactivate(r)
       PROVE  UNCHANGED <<profile, published, postman, now>> /\ past'.muddled = past.muddled /\ past'.told = past.told
  <2>1. UNCHANGED <<profile, postman>> /\ past'.muddled = past.muddled /\ past'.told = past.told
    BY <1>11, ProfilesLeft DEF BanStep
  <2>2. UNCHANGED <<published, now>>
    BY <1>11 DEF SendOverview, ScheduleNotificationMail, OpenText, FetchOrphans, BanOne, StoreStamp, BannerDies, Reactivate
  <2> QED BY <2>1, <2>2
<1> QED BY <1>1, <1>2, <1>3, <1>4, <1>5, <1>6, <1>7, <1>8, <1>9, <1>10, <1>11 DEF MailingNext, MailStep, BanStep

-----------------------------------------------------------------------------
\* What the job will have stored once its list is done.
LEMMA AheadIs ==
  ASSUME NEW list \in Seq(Orphan), NEW x \in 0..MaxTime
  PROVE  /\ Ahead(list, x) \in Nat
         /\ list = <<>> => Ahead(list, x) = x
         /\ list # <<>> => Ahead(list, x) = list[Len(list)].at
         /\ \A i \in 1..Len(list) : list[i].who \in Receivers /\ list[i].at \in 0..MaxTime /\ list[i].at \in Int
<1>0. MaxTime \in Nat BY MailingAssumption
<1>1. \A i \in 1..Len(list) : list[i] \in Orphan OBVIOUS
<1>2. \A i \in 1..Len(list) : list[i].who \in Receivers /\ list[i].at \in 0..MaxTime BY <1>1 DEF Orphan
<1>3. list # <<>> => Len(list) \in 1..Len(list) OBVIOUS
<1> QED BY <1>0, <1>2, <1>3 DEF Ahead

LEMMA StampAheadIs ==
  ASSUME MailTypeOK
  PROVE  /\ StampAhead \in Nat
         /\ bans = Off => StampAhead = stamp
         /\ bans # Off => StampAhead = Ahead(bans.todo, bans.last)
<1>1. stamp \in Nat BY MailingAssumption DEF MailTypeOK
<1> QED BY <1>1, JobIs, AheadIs DEF StampAhead

LEMMA CreditIs ==
  ASSUME MailTypeOK, NEW r \in Receivers
  PROVE  /\ past.banned[r] \in Nat /\ past.bounced[r] \in Nat /\ past.mishaps \in Nat /\ Credit(r) \in Nat
         /\ bounce[r] \in Nat /\ Credit(r) = past.bounced[r] + past.mishaps
BY MailingAssumption DEF MailTypeOK, MailPast, Credit

\* Steps that do not concern the job add no ban.
LEMMA BansLeft ==
  ASSUME MailTypeOK, MailsHeld, MailingNext,
         ~(FetchOrphans \/ BanOne \/ StoreStamp \/ BannerDies \/ \E r \in Receivers : Bounces(r))
  PROVE  /\ UNCHANGED <<bans, stamp, bounce>> /\ past'.banned = past.banned /\ past'.bounced = past.bounced
         /\ past'.mishaps \in {past.mishaps, past.mishaps + 1}
<1>1. CASE (\E i \in Intervals : SendOverview(i)) \/ (\E r \in Receivers : ScheduleNotificationMail(r))
  BY <1>1, QueueMoves
<1>2. CASE \E w \in Postmen : \E m \in DOMAIN box : TakeMail(w, m)
  <2>1. PICK w \in Postmen, m \in DOMAIN box : TakeMail(w, m) BY <1>2
  <2>2. UNCHANGED <<bans, stamp, bounce>> /\ m.to \in Receivers BY <2>1, TakeMailIs DEF MailId
  <2>3. past' = past \/ past' = Muddle(m.to) BY <2>1, TakeMailIs
  <2> QED BY <2>2, <2>3, MuddleIs
<1>3. CASE \E w \in Postmen : HandOver(w) BY <1>3, HandOverIs DEF HandOver
<1>4. CASE \E w \in Postmen : Refuse(w) \/ WriteLog(w) \/ PostmanDies(w) BY <1>4, EndsIs
<1>5. CASE \E w \in Postmen : StampProfile(w) BY <1>5 DEF StampProfile
<1>6. CASE \E r \in Receivers : Unsubscribe(r) \/ EditEmailSettings(r) \/ EditEmailOverview(r) \/ EditNotifications(r)
  <2>1. PICK r \in Receivers, new \in ProfileRow, choice \in MailChoice : OpenSettings(r, new, choice)
    BY <1>6, RequestIs
  <2> QED BY <2>1, OpenIs DEF OpenSettings
<1>7. CASE SaveForm BY <1>7 DEF SaveForm
<1>8. CASE \E p \in Texts : Publish(p) BY <1>8 DEF Publish
<1>9. CASE \E r \in Receivers, p \in Texts : OpenText(r, p) BY <1>9 DEF OpenText
<1>10. CASE \E r \in Receivers : Reactivate(r) BY <1>10 DEF Reactivate
<1>11. CASE Wait BY <1>11 DEF Wait
<1> QED BY <1>1, <1>2, <1>3, <1>4, <1>5, <1>6, <1>7, <1>8, <1>9, <1>10, <1>11 DEF MailingNext, MailStep, BanStep

\* Every ban is paid by a bounce the stored moment has passed, or by a job that died.
LEMMA PaidKept ==
  ASSUME MailTypeOK, MailsHeld, BansPaid, ListOrdered, MailingNext PROVE (BansPaid /\ ListOrdered)'
<1>0. MailTypeOK' BY MailTypesKept
<1>1. ASSUME NEW r \in Receivers
      PROVE  /\ past.banned[r] \in Nat /\ past.bounced[r] \in Nat /\ past.mishaps \in Nat /\ bounce[r] \in Nat
             /\ StampAhead \in Nat
             /\ past.banned[r] <= past.bounced[r] + past.mishaps
             /\ ToBan(r) \/ bounce[r] > StampAhead => past.banned[r] + 1 <= past.bounced[r] + past.mishaps
             /\ ToBan(r) /\ bounce[r] > StampAhead => past.banned[r] + 2 <= past.bounced[r] + past.mishaps
  BY CreditIs, StampAheadIs DEF BansPaid
<1>2. StampAhead' = IF bans' = Off THEN stamp' ELSE Ahead(bans'.todo, bans'.last) BY DEF StampAhead
<1>3. ASSUME NEW r \in Receivers
      PROVE  ToBan(r)' <=> bans' # Off /\ \E i \in 1..Len(bans'.todo) : bans'.todo[i].who = r
  BY DEF ToBan
\* What is left to show of one address.
<1> DEFINE Paid(r) == /\ past'.banned[r] <= past'.bounced[r] + past'.mishaps
                      /\ ToBan(r)' \/ bounce'[r] > StampAhead' => past'.banned[r] + 1 <= past'.bounced[r] + past'.mishaps
                      /\ ToBan(r)' /\ bounce'[r] > StampAhead' => past'.banned[r] + 2 <= past'.bounced[r] + past'.mishaps
<1>4. ASSUME \A r \in Receivers : Paid(r) PROVE BansPaid' BY <1>4 DEF BansPaid, Credit
<1>5. CASE FetchOrphans
  <2>1. PICK list \in Seq(Orphan) :
          /\ bans' = [step |-> "on", todo |-> list, last |-> stamp]
          /\ \A i \in 1..Len(list) : list[i].at = bounce[list[i].who] /\ bounce[list[i].who] > stamp
          /\ \A i, j \in 1..Len(list) : i < j => list[i].who # list[j].who /\ list[i].at < list[j].at
    BY <1>5, FetchIs
  <2>2. bans = Off /\ UNCHANGED <<bounce, stamp, past>> /\ stamp \in 0..MaxTime BY <1>5 DEF FetchOrphans, MailTypeOK
  <2>3. bans' # Off /\ bans'.todo = list /\ bans'.last = stamp BY <2>1 DEF Off
  <2>4. StampAhead = stamp /\ StampAhead' = Ahead(list, stamp)
    BY <2>2, StampAheadIs, <1>2, <2>3
  <2>5. /\ StampAhead' \in Nat
        /\ list = <<>> => StampAhead' = stamp
        /\ list # <<>> => StampAhead' = list[Len(list)].at
        /\ \A i \in 1..Len(list) : list[i].who \in Receivers /\ list[i].at \in Int
    BY <2>2, <2>4, AheadIs
  <2>6. StampAhead' >= stamp
    BY <2>2, <2>5, <2>1
  <2>7. ASSUME NEW r \in Receivers, ToBan(r)' PROVE bounce[r] > stamp /\ bounce[r] <= StampAhead'
    BY <1>3, <2>3, <2>7, <2>1, <2>5
  <2>8. ASSUME NEW r \in Receivers PROVE Paid(r)
    BY <1>1, <2>2, <2>5, <2>6, <2>7, <2>4
  <2>9. ListOrdered' BY <2>1, <2>3 DEF ListOrdered
  <2> QED BY <1>4, <2>8, <2>9
<1>6. CASE BanOne
  <2> DEFINE first == Head(bans.todo)
             list == bans.todo
             rest == Tail(bans.todo)
  <2>1. /\ bans # Off /\ list \in Seq(Orphan) /\ list # <<>> /\ first = list[1] /\ rest \in Seq(Orphan)
        /\ bans' = [step |-> "on", todo |-> rest, last |-> first.at]
        /\ first.who \in Receivers /\ first.at \in 0..MaxTime
        /\ past' = IF first.who \in active THEN [past EXCEPT !.banned[first.who] = @ + 1] ELSE past
        /\ UNCHANGED <<bounce, stamp>>
    BY <1>6, NextBanIs
  <2>0. PICK who \in Receivers : who = first.who BY <2>1
  <2>2. Len(rest) = Len(list) - 1 /\ \A i \in 1..Len(rest) : rest[i] = list[i + 1] /\ i + 1 \in 1..Len(list) BY <2>1
  <2>3. \A i, j \in 1..Len(list) : i < j => list[i].who # list[j].who /\ list[i].at < list[j].at
    BY <2>1 DEF ListOrdered
  <2>4. StampAhead = Ahead(list, bans.last) /\ bans.last \in 0..MaxTime BY <2>1, StampAheadIs, JobIs
  <2> HIDE DEF first, list, rest
  <2>5. bans' # Off /\ bans'.todo = rest /\ bans'.last = first.at BY <2>1 DEF Off
  <2>6. StampAhead' = StampAhead
    <3>1. StampAhead' = Ahead(rest, first.at) /\ Len(list) \in Nat /\ Len(list) >= 1 BY <1>2, <2>1, <2>5
    <3>2. CASE rest = <<>>
      <4>1. Len(list) = 1 BY <2>2, <3>1, <3>2
      <4> QED BY <2>1, <2>4, <3>1, <3>2, <4>1, AheadIs
    <3>3. CASE rest # <<>>
      BY <2>1, <3>3, <2>2, <3>1, <2>4, AheadIs
    <3> QED BY <3>2, <3>3
  <2>7. ToBan(who) /\ ~ToBan(who)'
    <3>1. 1 \in 1..Len(list) BY <2>1
    <3>2. ToBan(who) BY <2>0, <2>1, <3>1 DEF ToBan, list, first
    <3>3. ASSUME NEW i \in 1..Len(rest) PROVE rest[i].who # who
      <4>1. 1 < i + 1 /\ i + 1 \in 1..Len(list) /\ rest[i] = list[i + 1] BY <2>2
      <4> QED BY <2>0, <2>1, <2>3, <3>1, <4>1
    <3> QED BY <1>3, <2>1, <2>5, <3>2, <3>3
  <2>8. ASSUME NEW r \in Receivers, ToBan(r)' PROVE ToBan(r)
    BY <1>3, <2>5, <2>8, <2>2, <2>1 DEF ToBan, list
  <2>9. /\ past'.bounced = past.bounced /\ past'.mishaps = past.mishaps
        /\ \A s \in Receivers \ {who} : past'.banned[s] = past.banned[s]
        /\ past'.banned[who] \in {past.banned[who], past.banned[who] + 1}
    BY <2>0, <2>1, BanOneIs
  <2>10. ASSUME NEW r \in Receivers PROVE Paid(r)
    BY <1>1, <2>9, <2>7, <2>1, <2>6, <2>8
  <2>11. ListOrdered'
    <3>1. ASSUME NEW i \in 1..Len(rest), NEW j \in 1..Len(rest), i < j
          PROVE  rest[i].who # rest[j].who /\ rest[i].at < rest[j].at
      <4>1. i + 1 < j + 1 /\ i + 1 \in 1..Len(list) /\ j + 1 \in 1..Len(list) /\ rest[i] = list[i + 1] /\ rest[j] = list[j + 1]
        BY <2>2, <3>1
      <4> QED BY <2>3, <4>1
    <3> QED BY <2>5, <3>1 DEF ListOrdered
  <2> QED BY <1>4, <2>10, <2>11
<1>7. CASE StoreStamp
  <2>1. bans # Off /\ bans.todo = <<>> /\ stamp' = bans.last /\ bans' = Off /\ UNCHANGED <<bounce, past>>
    BY <1>7 DEF StoreStamp
  <2>2. bans.todo \in Seq(Orphan) /\ bans.last \in 0..MaxTime BY <2>1, JobIs
  <2>3. StampAhead' = StampAhead BY <1>2, <2>1, <2>2, StampAheadIs, AheadIs
  <2>4. ASSUME NEW r \in Receivers PROVE Paid(r) BY <1>1, <1>3, <2>1, <2>3
  <2> QED BY <1>4, <2>1, <2>4 DEF ListOrdered
<1>8. CASE BannerDies
  BY <1>8, MishapIs, <1>1, <1>3, <1>4 DEF BannerDies, ListOrdered
<1>9. CASE \E r \in Receivers : Bounces(r)
  <2>1. PICK r \in Receivers : Bounces(r) BY <1>9
  <2>2. UNCHANGED <<bans, stamp>> /\ bounce' = [bounce EXCEPT ![r] = now] BY <2>1 DEF Bounces
  <2>3. /\ past'.banned = past.banned /\ past'.mishaps = past.mishaps
        /\ \A s \in Receivers \ {r} : past'.bounced[s] = past.bounced[s]
        /\ past'.bounced[r] = past.bounced[r] + 1
    BY <2>1, BouncesIs
  <2>4. StampAhead' = StampAhead /\ ListOrdered' /\ \A s \in Receivers : ToBan(s)' <=> ToBan(s)
    BY <2>2 DEF StampAhead, ListOrdered, ToBan
  <2>5. \A s \in Receivers \ {r} : bounce'[s] = bounce[s] BY <2>2 DEF MailTypeOK
  <2>6. ASSUME NEW s \in Receivers PROVE Paid(s)
    BY <1>1, <2>3, <2>4, <2>5
  <2> QED BY <1>4, <2>4, <2>6
<1>10. CASE ~(FetchOrphans \/ BanOne \/ StoreStamp \/ BannerDies \/ \E r \in Receivers : Bounces(r))
  <2>1. /\ UNCHANGED <<bans, stamp, bounce>> /\ past'.banned = past.banned /\ past'.bounced = past.bounced
        /\ past'.mishaps \in {past.mishaps, past.mishaps + 1}
    BY <1>10, BansLeft
  <2>2. StampAhead' = StampAhead /\ ListOrdered' /\ \A s \in Receivers : ToBan(s)' <=> ToBan(s)
    BY <2>1 DEF StampAhead, ListOrdered, ToBan
  <2>3. ASSUME NEW s \in Receivers PROVE Paid(s) BY <1>1, <2>1, <2>2
  <2> QED BY <1>4, <2>2, <2>3
<1> QED BY <1>5, <1>6, <1>7, <1>8, <1>9, <1>10

-----------------------------------------------------------------------------
\* MailInv is inductive: everything holds at the start, and every step keeps it.
LEMMA MailInitInv == MailingInit => MailInv
<1> SUFFICES ASSUME MailingInit PROVE MailInv OBVIOUS
<1>0. MaxTime \in Nat \ {0} /\ Span \in [Intervals -> Nat] /\ Out.step = "out" /\ Out.step \notin {"built", "handed"}
  BY MailingAssumption, OutIs
<1>1. profile \in [Receivers -> ProfileRow]
  BY <1>0 DEF ProfileRow, MailingInit
<1> DEFINE start == [told |-> [p \in Texts |-> [r \in Receivers |-> 0]],
                     chosen |-> [r \in Receivers |-> [interval |-> profile[r].interval, notices |-> profile[r].notices]],
                     muddled |-> {}, handed |-> {}, banned |-> [r \in Receivers |-> 0],
                     bounced |-> [r \in Receivers |-> 0], forms |-> 0, mishaps |-> 0]
<1>2. /\ start \in MailPast /\ start.handed = {} /\ start.muddled = {} /\ start.mishaps = 0
      /\ \A r \in Receivers : /\ start.banned[r] = 0 /\ start.bounced[r] = 0
                              /\ start.chosen[r] = [interval |-> profile[r].interval, notices |-> profile[r].notices]
      /\ \A p \in Texts, r \in Receivers : start.told[p][r] = 0
  BY <1>1, RowIs DEF Chosen, MailPast
<1>3. past = start BY DEF MailingInit
<1> HIDE DEF start
<1>4. /\ active = Receivers /\ published = [p \in Texts |-> 0] /\ viewed = {} /\ box = <<>>
      /\ postman = [w \in Postmen |-> Out] /\ settings = NoRequest /\ now = 1 /\ due = Span
      /\ bounce = [r \in Receivers |-> 0] /\ bans = Off /\ stamp = 0
  BY DEF MailingInit
<1>5. \A w \in Postmen : postman[w] = Out BY <1>4
<1>6. DOMAIN box = {} /\ box \in [DOMAIN box -> Instance]
  <2>1. DOMAIN box = {} BY <1>4
  <2> QED BY <1>4, <2>1
<1>7. MailTypeOK
  BY <1>0, <1>4, <1>6, <1>2, <1>3, <1>1 DEF MailTypeOK
<1>8. \A w \in Postmen, r \in Receivers : ~CopyOf(w, r) BY <1>5, NoCopyOut
<1>9. MailsHeld /\ SentIsLogged BY <1>2, <1>3, <1>5, <1>6 DEF MailsHeld, SentIsLogged
<1>10. CopiesAlone /\ FormCurrent /\ ChoiceKept BY <1>2, <1>3, <1>4, <1>8 DEF CopiesAlone, FormCurrent, ChoiceKept
<1>11. Unpublished /\ NotYetTold /\ ToldBefore BY <1>2, <1>3, <1>4, <1>8 DEF Unpublished, NotYetTold, ToldBefore
<1>12. BansPaid /\ ListOrdered
  <2>1. StampAhead = 0 /\ ListOrdered /\ \A r \in Receivers : ~ToBan(r) BY <1>4 DEF ListOrdered, StampAhead, ToBan
  <2>2. \A r \in Receivers : past.banned[r] = 0 /\ Credit(r) = 0 /\ bounce[r] = 0
    <3> SUFFICES ASSUME NEW r \in Receivers PROVE past.banned[r] = 0 /\ Credit(r) = 0 /\ bounce[r] = 0 OBVIOUS
    <3>1. past.banned[r] = 0 /\ past.bounced[r] = 0 /\ past.mishaps = 0 BY <1>2, <1>3
    <3>2. bounce[r] = 0 BY <1>4
    <3> QED BY <3>1, <3>2 DEF Credit
  <2> QED BY <2>1, <2>2 DEF BansPaid
<1> QED BY <1>7, <1>9, <1>10, <1>11, <1>12 DEF MailInv

LEMMA MailInvKept == MailInv /\ [MailingNext]_mailing => MailInv'
<1>1. ASSUME MailInv, MailingNext PROVE MailInv'
  BY <1>1, MailTypesKept, HeldKept, CopiesKept, ToldKept, PaidKept DEF MailInv
<1>2. ASSUME MailInv, UNCHANGED mailing PROVE MailInv'
  <2>1. UNCHANGED <<profile, active, published, viewed, box, postman, settings, now, due, bounce, bans, stamp, past>>
    BY <1>2 DEF mailing
  <2>2. (MailTypeOK /\ MailsHeld /\ SentIsLogged)' BY <1>2, <2>1 DEF MailInv, MailTypeOK, MailsHeld, SentIsLogged
  <2>3. (CopiesAlone /\ FormCurrent /\ ChoiceKept /\ Unpublished /\ NotYetTold /\ ToldBefore)'
    BY <1>2, <2>1 DEF MailInv, CopiesAlone, FormCurrent, ChoiceKept, Unpublished, NotYetTold, ToldBefore, CopyOf
  <2>4. (BansPaid /\ ListOrdered)' BY <1>2, <2>1 DEF MailInv, BansPaid, ListOrdered, StampAhead, ToBan, Credit
  <2> QED BY <2>2, <2>3, <2>4 DEF MailInv
<1> QED BY <1>1, <1>2

LEMMA MailInvSound == MailInv => MailSound
<1> SUFFICES ASSUME MailInv PROVE MailSound OBVIOUS
<1>1. ToldOnce
  <2> SUFFICES ASSUME NEW p \in Texts, NEW r \in Receivers \ past.muddled PROVE past.told[p][r] <= 1 BY DEF ToldOnce
  <2>1. past.told[p][r] # 0 => past.told[p][r] = 1 BY DEF MailInv, ToldBefore
  <2>2. past.told[p][r] \in Nat BY DEF MailInv, MailTypeOK, MailPast
  <2> QED BY <2>1, <2>2
<1>2. BounceBansOnce BY DEF MailInv, BansPaid, Credit, BounceBansOnce
<1> QED BY <1>1, <1>2 DEF MailInv, MailSound

\* The mails tell each thing once, to whoever last chose to be told, and their log says
\* what became of them; nobody is banned oftener than its address bounced or the job died.
THEOREM MailHolds == MailingSpec => []MailSound
<1> QED BY MailInitInv, MailInvKept, MailInvSound, PTL DEF MailingSpec
=============================================================================
