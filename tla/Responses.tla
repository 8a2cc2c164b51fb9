------------------------------ MODULE Responses ------------------------------
(***************************************************************************)
(* What people do with a post: comment on it, follow it, choose the best   *)
(* answer, vote in a poll (core/models/comment.py, mixin.py, annotation.py,*)
(* the comment and follow resolvers of core/resolvers, core/views.py       *)
(* comment_confirm, question/resolvers/mutation.py, poll/resolvers).       *)
(*                                                                         *)
(* A process executes a request one statement at a time.  A post it holds  *)
(* is a copy; save() writes all of it back, inserts it again when the row  *)
(* is gone, and fails when its best answer is.  A comment refers to its    *)
(* container without a foreign key.                                        *)
(***************************************************************************)
EXTENDS Integers, FiniteSets

CONSTANTS
  Questions,        \* questions; other posts are questions without a best answer
  People,       \* people with an account
  Processes,    \* processes that serve requests
  Texts,        \* the choices a poll may offer
  MaxComments,  \* bound on the comments ever made; they are numbered in order
  MaxEdits,     \* bound on the choices ever made
  MaxAsks       \* bound on the requests served

Guest == "guest"
NoOne == "nobody"

\* The lines of a form of a poll: a choice listed, and listed once more (bound).
FormLines   == Texts \X {1, 2}
NoChoice == <<NoOne, 0>>

ASSUME ResponsesAssumption ==
  /\ Guest \notin People /\ NoOne \notin People
  /\ MaxComments \in Nat /\ MaxEdits \in Nat \ {0} /\ MaxAsks \in Nat
  /\ Questions \cap Nat = {}
  /\ IsFiniteSet(Processes)

Ids     == 1..MaxComments
Choices == 1..MaxEdits

VARIABLES
  question,  \* question[q]: the row of q
  comment,   \* comment[c]: the row of c
  followers, \* pairs of a person and a post: annotations with key "followed"
  told,      \* comments for which create_notification was submitted
  mails,     \* mails[q]: comments asked for by guests and not yet confirmed
  made,      \* made[r]: history: the comments made for guest request r
  choice,    \* choice[i]: the text of choice i of the poll, with its place among the
             \* same texts of the form it was made of (history)
  votes,     \* pairs of a person and a choice: annotations with key "voted"
  at,        \* at[w]: the statement w executes next, and what it holds
  used,      \* the comments, choices and requests numbered so far
  overlap    \* history: two requests were ever served at the same time

responses == <<question, comment, followers, told, mails, made, choice, votes, at, used, overlap>>

\* last: the comment that set last_action; best: best_answer, 0 for none.
NoQuestion == [there |-> FALSE, last |-> 0, best |-> 0, closed |-> FALSE]
Question   == [there : BOOLEAN, last : 0..MaxComments, best : 0..MaxComments, closed : BOOLEAN]
Gone   == [there |-> FALSE, on |-> 0, by |-> NoOne]
CommentRow == {Gone} \cup [there : {TRUE}, on : Questions \cup Ids, by : People \cup {Guest}]

Unasked == [do |-> "idle"]
ChatSteps == {"insert", "root", "touch", "follow", "link", "unfollow", "tell"}
\* c is the comment that was made, 0 before that and if somebody only follows.
ChatJob   == {j \in [do : ChatSteps, who : People, on : Questions \cup Ids, c : 0..MaxComments, q : Questions, copy : Question] :
                j.do \in {"root", "touch", "tell"} => j.c # 0}
SaveJob   == [do : {"save"}, q : Questions, copy : Question]
DropJob   == [do : {"drop"}, c : Ids, q : Questions, copy : Question]
WriteJob  == [do : {"write"}, c : Ids, on : Questions \cup Ids, by : People]
GuestJob  == [do : {"create", "spend"}, q : Questions, r : 1..MaxAsks]
VoteJob   == [do : {"check", "cast"}, who : People, i : Choices]
PollJob   == [do : {"clear", "fill"}, texts : SUBSET FormLines]
Job == {Unasked} \cup ChatJob \cup SaveJob \cup DropJob \cup WriteJob \cup GuestJob \cup VoteJob \cup PollJob

Becomes(w, job) == at' = [at EXCEPT ![w] = job]
Finish(w) == Becomes(w, Unasked)

\* A request arrives at an idle process.
Arrives(w, job) ==
  /\ at[w] = Unasked
  /\ used.asks < MaxAsks
  /\ used' = [used EXCEPT !.asks = @ + 1]
  /\ overlap' = (overlap \/ \E v \in Processes \ {w} : at[v] # Unasked)
  /\ Becomes(w, job)

ResponsesInit ==
  /\ question = [q \in Questions |-> [NoQuestion EXCEPT !.there = TRUE]]
  /\ comment = [c \in Ids |-> Gone]
  /\ followers = {}
  /\ told = {}
  /\ mails = [q \in Questions |-> {}]
  /\ made = [r \in 1..MaxAsks |-> 0]
  /\ choice \in {[i \in Choices |-> IF i = 1 THEN <<t, 1>> ELSE NoChoice] : t \in Texts}
  /\ votes = {}
  /\ at = [w \in Processes |-> Unasked]
  /\ used = [comments |-> 0, choices |-> 1, asks |-> 0]
  /\ overlap = FALSE

(***************************************************************************)
(* Rows.                                                                   *)
(***************************************************************************)
IsThere(c) == c \in Ids /\ comment[c].there
Answers(q) == {c \in Ids : comment[c].there /\ comment[c].on = q}
Replies(cs) == {c \in Ids : comment[c].there /\ comment[c].on \in cs}

\* Comment.get_root_container; a comment never moves.  Under a post that is
\* gone it returns nothing for a comment, and never returns for a reply.
OnPost(c)  == comment[c].on \in Questions
OnReply(c) == ~OnPost(c) /\ IsThere(comment[c].on)
Root(c) == IF OnPost(c) THEN comment[c].on ELSE comment[comment[c].on].on

\* The foreign key of best_answer.
BestGone(copy) == copy.best # 0 /\ ~IsThere(copy.best)
Store(q, copy) == question' = [question EXCEPT ![q] = copy]

\* Comments go with their replies, and SET_NULL clears the best answer.
\* Mutant of Thread: Comment has no relation to its replies.
ThreadAlone(cs) == cs
Thread(cs) == cs \cup Replies(cs)
Remove(cs) == comment' = [c \in Ids |-> IF c \in cs THEN Gone ELSE comment[c]]
Cleared(cs) == [q \in Questions |-> IF question[q].best \in cs THEN [question[q] EXCEPT !.best = 0] ELSE question[q]]

\* Mutant of NewComment: the number is not counted.
NewCommentAgain(on, by) ==
  /\ used.comments < MaxComments
  /\ used' = used
  /\ comment' = [comment EXCEPT ![used.comments + 1] = [there |-> TRUE, on |-> on, by |-> by]]
NewComment(on, by) ==
  /\ used.comments < MaxComments
  /\ used' = [used EXCEPT !.comments = @ + 1]
  /\ comment' = [comment EXCEPT ![used.comments + 1] = [there |-> TRUE, on |-> on, by |-> by]]

(***************************************************************************)
(* Commenting, with an account.                                            *)
(***************************************************************************)
\* resolve_add_comment loads the container; can_comment refuses a reply to a
\* reply.
AddComment(w) ==
  /\ \E who \in People, q \in Questions :
       \E on \in {q} \cup Answers(q) :
         /\ question[q].there
         /\ Arrives(w, [do |-> "insert", who |-> who, on |-> on, c |-> 0, q |-> q, copy |-> question[q]])
  /\ UNCHANGED <<question, comment, followers, told, mails, made, choice, votes>>

\* Comment.objects.create.  The root of a reply is looked up afterwards.
Insert(w) ==
  /\ at[w].do = "insert"
  /\ NewComment(at[w].on, at[w].who)
  /\ Becomes(w, [at[w] EXCEPT !.c = used.comments + 1,
                              !.do = IF at[w].on \in Questions THEN "touch" ELSE "root"])
  /\ UNCHANGED <<question, followers, told, mails, made, choice, votes, overlap>>

\* get_root_container recurses without end when the post is gone.
LoadRoot(w) ==
  /\ at[w].do = "root"
  /\ IF question[at[w].q].there
     THEN Becomes(w, [at[w] EXCEPT !.do = "touch", !.copy = question[at[w].q]])
     ELSE Finish(w)
  /\ UNCHANGED <<question, comment, followers, told, mails, made, choice, votes, used, overlap>>

\* update_last_action, and a save if it returned true.
Newer(job) == job.c > job.copy.last
\* Mutant of Touch: the question is saved only if the comment is its first.
TouchFirst(w) ==
  /\ at[w].do = "touch"
  /\ IF at[w].copy.last = 0 THEN Store(at[w].q, [at[w].copy EXCEPT !.last = at[w].c]) ELSE question' = question
  /\ Becomes(w, [at[w] EXCEPT !.do = "follow"])
  /\ UNCHANGED <<comment, followers, told, mails, made, choice, votes, used, overlap>>
Touch(w) ==
  /\ at[w].do = "touch"
  /\ LET new == [at[w].copy EXCEPT !.last = at[w].c] IN
       IF Newer(at[w]) /\ BestGone(new) THEN Finish(w) /\ UNCHANGED question
       ELSE /\ IF Newer(at[w]) THEN Store(at[w].q, new) ELSE UNCHANGED question
            /\ Becomes(w, [at[w] EXCEPT !.do = "follow"])
  /\ UNCHANGED <<comment, followers, told, mails, made, choice, votes, used, overlap>>

\* add_follow looks for the annotation and creates it in a later statement,
\* where the unique key may refuse it.
Tells(w) == IF at[w].c = 0 THEN Unasked ELSE [at[w] EXCEPT !.do = "tell"]
Follow(w) ==
  /\ at[w].do = "follow"
  /\ Becomes(w, IF <<at[w].who, at[w].q>> \in followers THEN Tells(w) ELSE [at[w] EXCEPT !.do = "link"])
  /\ UNCHANGED <<question, comment, followers, told, mails, made, choice, votes, used, overlap>>

Subscribe(w) ==
  /\ at[w].do = "link"
  /\ LET f == <<at[w].who, at[w].q>> IN
       /\ followers' = followers \cup {f}
       /\ Becomes(w, IF f \in followers THEN Unasked ELSE Tells(w))
  /\ UNCHANGED <<question, comment, told, mails, made, choice, votes, used, overlap>>

Tell(w) ==
  /\ at[w].do = "tell"
  /\ told' = told \cup {at[w].c}
  /\ Finish(w)
  /\ UNCHANGED <<question, comment, followers, mails, made, choice, votes, used, overlap>>

\* resolve_follow.
SetFollow(w) ==
  /\ \E who \in People, q \in Questions :
       /\ question[q].there
       /\ Arrives(w, [do |-> IF <<who, q>> \in followers THEN "unfollow" ELSE "follow",
                      who |-> who, on |-> q, c |-> 0, q |-> q, copy |-> question[q]])
  /\ UNCHANGED <<question, comment, followers, told, mails, made, choice, votes>>

Unfollow(w) ==
  /\ at[w].do = "unfollow"
  /\ followers' = followers \ {<<at[w].who, at[w].q>>}
  /\ Finish(w)
  /\ UNCHANGED <<question, comment, told, mails, made, choice, votes, used, overlap>>

(***************************************************************************)
(* Changing and deleting.                                                  *)
(***************************************************************************)
\* Any request that loads a post, changes the copy and saves it: an edit, the
\* toggles of question/resolvers/mutation.py.
Change(w, q, copy) ==
  /\ question[q].there
  /\ Arrives(w, [do |-> "save", q |-> q, copy |-> copy])
  /\ UNCHANGED <<question, comment, followers, told, mails, made, choice, votes>>

EditQuestion(w) == \E q \in Questions : Change(w, q, question[q])
ToggleClosed(w) == \E q \in Questions : Change(w, q, [question[q] EXCEPT !.closed = ~@])

\* Mutant of Candidates: the question is the root of the comment.
CandidatesAll(q) == {c \in Ids : comment[c].there /\ (OnPost(c) \/ OnReply(c)) /\ Root(c) = q}
\* Question.objects.get(id=comment.object_id).
Candidates(q) == Answers(q)
ToggleBest(w) ==
  \E q \in Questions : \E c \in Candidates(q) :
    /\ ~question[q].closed
    /\ Change(w, q, [question[q] EXCEPT !.best = IF @ = c THEN 0 ELSE c])

SaveQuestion(w) ==
  /\ at[w].do = "save"
  /\ IF BestGone(at[w].copy) THEN UNCHANGED question ELSE Store(at[w].q, at[w].copy)
  /\ Finish(w)
  /\ UNCHANGED <<comment, followers, told, mails, made, choice, votes, used, overlap>>

\* Entity.delete.
DeleteQuestion(w) ==
  /\ \E q \in Questions :
       /\ question[q].there
       /\ Arrives(w, Unasked)
       /\ question' = [question EXCEPT ![q] = NoQuestion]
       /\ Remove(Thread(Answers(q)))
  /\ UNCHANGED <<followers, told, mails, made, choice, votes>>

\* resolve_edit_comment.
EditComment(w) ==
  /\ \E c \in Ids : /\ comment[c].there /\ comment[c].by \in People
                    /\ Arrives(w, [do |-> "write", c |-> c, on |-> comment[c].on, by |-> comment[c].by])
  /\ UNCHANGED <<question, comment, followers, told, mails, made, choice, votes>>

WriteComment(w) ==
  /\ at[w].do = "write"
  /\ comment' = [comment EXCEPT ![at[w].c] = [there |-> TRUE, on |-> at[w].on, by |-> at[w].by]]
  /\ Finish(w)
  /\ UNCHANGED <<question, followers, told, mails, made, choice, votes, used, overlap>>

\* resolve_delete_comment loads the post first and saves it last: a copy that
\* still names the comment as the best answer is refused.
DeleteComment(w) ==
  /\ \E c \in Ids, q \in Questions :
       /\ comment[c].there
       /\ OnPost(c) \/ OnReply(c) => q = Root(c)
       /\ OnReply(c) => question[q].there
       /\ Arrives(w, [do |-> "drop", c |-> c, q |-> q,
                      copy |-> IF OnPost(c) \/ OnReply(c) THEN question[q] ELSE NoQuestion])
  /\ UNCHANGED <<question, comment, followers, told, mails, made, choice, votes>>

DropComment(w) ==
  /\ at[w].do = "drop"
  /\ LET cs == Thread({at[w].c}) IN Remove(cs) /\ question' = Cleared(cs)
  /\ Becomes(w, IF at[w].copy.there THEN [do |-> "save", q |-> at[w].q, copy |-> at[w].copy] ELSE Unasked)
  /\ UNCHANGED <<followers, told, mails, made, choice, votes, used, overlap>>

(***************************************************************************)
(* Commenting, without an account.                                         *)
(***************************************************************************)
\* resolve_add_comment_without_account mails a code.
AskByMail(w) ==
  /\ \E q \in Questions : /\ question[q].there
                      /\ Arrives(w, Unasked)
                      /\ mails' = [mails EXCEPT ![q] = @ \cup {used.asks + 1}]
  /\ UNCHANGED <<question, comment, followers, told, made, choice, votes>>

\* comment_confirm.
Confirm(w) ==
  /\ \E q \in Questions : \E r \in mails[q] :
       question[q].there /\ Arrives(w, [do |-> "create", q |-> q, r |-> r])
  /\ UNCHANGED <<question, comment, followers, told, mails, made, choice, votes>>

CreateForGuest(w) ==
  /\ at[w].do = "create"
  /\ NewComment(at[w].q, Guest)
  /\ made' = [made EXCEPT ![at[w].r] = @ + 1]
  /\ Becomes(w, [at[w] EXCEPT !.do = "spend"])
  /\ UNCHANGED <<question, followers, told, mails, choice, votes, overlap>>

\* Mutant of Spend: the request is kept.
SpendNot(w) ==
  /\ at[w].do = "spend"
  /\ Finish(w)
  /\ UNCHANGED <<question, comment, followers, told, mails, made, choice, votes, used, overlap>>
Spend(w) ==
  /\ at[w].do = "spend"
  /\ mails' = [mails EXCEPT ![at[w].q] = @ \ {at[w].r}]
  /\ Finish(w)
  /\ UNCHANGED <<question, comment, followers, told, made, choice, votes, used, overlap>>

(***************************************************************************)
(* Polls.                                                                  *)
(***************************************************************************)
Offered == {i \in Choices : choice[i] # NoChoice}
Counted(who) == {i \in Offered : <<who, i>> \in votes}

\* resolve_vote_on_poll: PollChoice.objects.get fails if a text occurs twice.
Vote(w) ==
  /\ \E who \in People, i \in Offered :
       /\ \A j \in Offered : choice[j][1] = choice[i][1] => j = i
       /\ Arrives(w, [do |-> "check", who |-> who, i |-> i])
  /\ UNCHANGED <<question, comment, followers, told, mails, made, choice, votes>>

\* has_voted, for every choice of the poll.
\* Mutant of Voted: only the chosen one is asked about.
VotedFor(who, i) == <<who, i>> \in votes
Voted(who, i) == Counted(who) # {}
CheckVotes(w) ==
  /\ at[w].do = "check"
  /\ Becomes(w, IF Voted(at[w].who, at[w].i) THEN Unasked ELSE [at[w] EXCEPT !.do = "cast"])
  /\ UNCHANGED <<question, comment, followers, told, mails, made, choice, votes, used, overlap>>

\* add_vote.  The choice may be gone: an annotation has no foreign key to it.
Cast(w) ==
  /\ at[w].do = "cast"
  /\ votes' = votes \cup {<<at[w].who, at[w].i>>}
  /\ Finish(w)
  /\ UNCHANGED <<question, comment, followers, told, mails, made, choice, used, overlap>>

\* resolve_edit_poll deletes the choices and makes a new one of every line of the
\* form, also of a text the form has already.
EditPoll(w) ==
  /\ \E texts \in {S \in SUBSET FormLines : S # {} /\ \A l \in S : <<l[1], 1>> \in S} : Arrives(w, [do |-> "clear", texts |-> texts])
  /\ UNCHANGED <<question, comment, followers, told, mails, made, choice, votes>>

\* Mutant of Clear: the choices stay.
ClearNot(w) ==
  /\ at[w].do = "clear"
  /\ Becomes(w, [at[w] EXCEPT !.do = "fill"])
  /\ UNCHANGED <<question, comment, followers, told, mails, made, choice, votes, used, overlap>>
Clear(w) ==
  /\ at[w].do = "clear"
  /\ choice' = [i \in Choices |-> NoChoice]
  /\ Becomes(w, [at[w] EXCEPT !.do = "fill"])
  /\ UNCHANGED <<question, comment, followers, told, mails, made, votes, used, overlap>>

Fill(w) ==
  /\ at[w].do = "fill"
  /\ used.choices < MaxEdits
  /\ \E t \in at[w].texts :
       /\ choice' = [choice EXCEPT ![used.choices + 1] = t]
       /\ used' = [used EXCEPT !.choices = @ + 1]
       /\ Becomes(w, IF at[w].texts = {t} THEN Unasked ELSE [at[w] EXCEPT !.texts = @ \ {t}])
  /\ UNCHANGED <<question, comment, followers, told, mails, made, votes, overlap>>

-----------------------------------------------------------------------------
Ask(w) ==
  \/ AddComment(w) \/ SetFollow(w) \/ EditQuestion(w) \/ ToggleClosed(w) \/ ToggleBest(w)
  \/ DeleteQuestion(w) \/ EditComment(w) \/ DeleteComment(w) \/ AskByMail(w) \/ Confirm(w)
  \/ Vote(w) \/ EditPoll(w)

Statement(w) ==
  \/ Insert(w) \/ LoadRoot(w) \/ Touch(w) \/ Follow(w) \/ Subscribe(w) \/ Tell(w) \/ Unfollow(w)
  \/ SaveQuestion(w) \/ WriteComment(w) \/ DropComment(w) \/ CreateForGuest(w) \/ Spend(w)
  \/ CheckVotes(w) \/ Cast(w) \/ Clear(w) \/ Fill(w)

ResponsesNext == \E w \in Processes : Ask(w) \/ Statement(w)
ResponsesSpec == ResponsesInit /\ [][ResponsesNext]_responses

(***************************************************************************)
(* Properties.                                                             *)
(***************************************************************************)
ResponsesTypeOK ==
  /\ question \in [Questions -> Question]
  /\ comment \in [Ids -> CommentRow]
  /\ followers \subseteq People \X Questions
  /\ told \subseteq Ids
  /\ mails \in [Questions -> SUBSET (1..MaxAsks)]
  /\ made \in [1..MaxAsks -> Nat]
  /\ choice \in [Choices -> FormLines \cup {NoChoice}]
  /\ votes \subseteq People \X Choices
  /\ at \in [Processes -> Job]
  /\ used \in [comments : 0..MaxComments, choices : 0..MaxEdits, asks : 0..MaxAsks]
  /\ overlap \in BOOLEAN
  /\ \A c \in Ids : comment[c].there => c <= used.comments

AllIdle == \A w \in Processes : at[w] = Unasked

\* The best answer of a question is a comment on that question itself that is
\* still there, whatever is deleted, toggled or written back stale.
BestIsAnswer ==
  \A q \in Questions : question[q].best # 0 => question[q].best \in Answers(q)

\* The check for an earlier vote and the vote are separate statements: a person
\* can have as many votes in a poll as there are processes, and no more.
PollVotesBound == \A p \in People : Cardinality(Counted(p)) <= Cardinality(Processes)

\* The link in the mail makes a comment and then spends its code: clicked
\* again and again it makes at most one comment for each process.
GuestCommentBound == \A r \in 1..MaxAsks : made[r] <= Cardinality(Processes)

\* Requests served one after the other leave no comment behind whose post or
\* whose parent is gone.
CommentsAnchored ==
  ~overlap => \A c \in Ids :
    comment[c].there => (OnPost(c) \/ OnReply(c)) /\ question[Root(c)].there

\* Requests served one after the other: once answered, a comment of a member
\* has been announced, and its post's last action is not older.
Announced ==
  ~overlap /\ AllIdle =>
    \A c \in Ids : comment[c].there /\ comment[c].by \in People =>
      c \in told /\ question[Root(c)].last >= c

\* Requests served one after the other: no line of a form becomes two choices, and
\* none of an earlier form stays, so that a text nobody can vote for, because it is
\* offered twice, is one the form lists twice.
ChoicesAsListed ==
  ~overlap => \A i, j \in Offered : choice[i] = choice[j] => i = j

\* What holds of the reactions to posts, and which limits overlapping requests keep.
ResponsesSound ==
  /\ ResponsesTypeOK /\ PollVotesBound /\ GuestCommentBound
  /\ CommentsAnchored /\ Announced /\ ChoicesAsListed
=============================================================================
